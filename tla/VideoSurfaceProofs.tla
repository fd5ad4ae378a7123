------------------------- MODULE VideoSurfaceProofs -------------------------
(***************************************************************************)
(* The surfaces and the frames of the video pipeline, proved for any       *)
(* number of buffers, surfaces, frames and layouts: each locked surface    *)
(* has one holder, none is read unlocked, frames are scanned in order, and *)
(* a synchronisation or a shutdown leaves nothing under way.               *)
(***************************************************************************)
EXTENDS VideoProofs, FunctionTheorems

-----------------------------------------------------------------------------
(* The presenter loses no buffer.                                          *)

NoneLost ==
  /\ rpc = "done" => prev = None
  /\ (\E t \in Callers : cpc[t] = "gone") => released = Buffers /\ rpc = "done"
  /\ (\A t \in Callers : cpc[t] # "gone") =>
       \A b \in Buffers :
         ~Outside(b) \/ b \in {dst, prev} \/ \E t \in Callers : cbuf[t] = b

-----------------------------------------------------------------------------
(* Who has what.                                                           *)

Busy == {"refresh", "post", "unlock", "settle"}
Mine == IF MainHolds THEN gles ELSE None

\* What the program counters say of the worker's variables.
WorkerPlace ==
  /\ inFlight <=> wpc \in Busy
  /\ wjob # None <=> wpc \in Busy \ {"settle"}
  /\ ~started => job = None
  /\ stopping => mpc = "join"

\* Where main has the pipeline to itself: after a drain, and while a surface
\* is scanned out directly.
Undisturbed ==
  \/ mpc \in {"present", "vblank", "post", "unlock", "synced", "join", "drain",
              "release", "destroy", "gone"}
  \/ scanout # None
  \/ mpc = "idle" /\ synced
Alone ==
  /\ Undisturbed => WorkerQuiet
  /\ mpc \in {"submit", "plain", "post", "unlock", "destroy", "gone"} =>
       scanout = None
  /\ MainHolds => ~synced
  /\ mpc = "idle" /\ synced => pending = 0
  /\ mpc # "post" => cpc["main"] \in {"idle", "wake", "join", "gone"}
  /\ mpc = "gone" <=> cpc["main"] = "gone"

\* The holders of the locked surfaces, each of another.
Held ==
  /\ locked = {job, wjob, scanout, Mine} \ {None}
  /\ job # None => job \notin {wjob, scanout, Mine}
  /\ wjob # None => wjob \notin {scanout, Mine}
  /\ scanout # None => scanout # Mine

\* gles_surface, which the worker may draw as well, is the newest of them.
Bases ==
  /\ ~MainHolds => /\ job # None => gles = job
                   /\ job = None /\ wjob # None => gles = wjob
  /\ wpc = "post" => shot["worker"].base \in {job, wjob, Mine} \ {None}
  /\ mpc = "post" => shot["main"].base = gles

-----------------------------------------------------------------------------
(* Types.                                                                  *)


\* What the presenter's and the pipeline's invariants leave of TypeOK.
Chosen == synced \in BOOLEAN /\ ffwd \in BOOLEAN /\ layout \in Layouts
          /\ changes \in 0..MaxChanges
SurfaceTypes ==
  /\ released \subseteq Buffers /\ scan \in Buffers \cup {None}
  /\ locked \subseteq Surfaces
  /\ gles \in Surfaces \cup {None} /\ scanout \in Surfaces \cup {None}
  /\ plane \in Surfaces \cup {None} /\ onPlane \in Surfaces \cup {None}
  /\ wjob \in Surfaces \cup {None}
ThreadTypes ==
  /\ mpc \in MainStages
  /\ started \in BOOLEAN /\ stopping \in BOOLEAN /\ inFlight \in BOOLEAN
  /\ wpc \in {"none", "wait", "refresh", "post", "unlock", "settle", "dead"}
  /\ asleep \subseteq Callers
OverlayTypes ==
  /\ seen \in Layouts \cup {Unset} /\ cleanup \in 0..CleanFrames
  /\ shot \in [Callers -> Shot]
  /\ cleaned \in [Buffers -> Layouts \cup {Unset}]
  /\ drawn \in [Buffers -> Pictures]
VideoTypes == Chosen /\ SurfaceTypes /\ ThreadTypes /\ OverlayTypes

SurfaceInv ==
  VideoTypes /\ NoneLost /\ WorkerPlace /\ Alone /\ Held /\ Bases

LEMMA TypeInit ==
  ASSUME VideoAssumption, PresenterAssumption, Init
  PROVE  VideoTypes
  <1>1. /\ 0 \in Layouts /\ MaxChanges \in Nat /\ Callers = {"main", "worker"}
        /\ 0 \in 0..MaxChanges /\ 0 \in Pictures
    BY DEF VideoAssumption, PresenterAssumption
  <1>2. Chosen
    BY <1>1 DEF Chosen, Init
  <1>3. SurfaceTypes
    BY DEF SurfaceTypes, Init, PresenterInit
  <1>4. ThreadTypes
    BY DEF ThreadTypes, Init, MainStages
  <1>5. NoShot \in Shot
    BY DEF NoShot, Shot
  <1>6. OverlayTypes
    BY <1>1, <1>5 DEF OverlayTypes, Init, PresenterInit, CleanFrames
  <1> QED BY <1>2, <1>3, <1>4, <1>6 DEF VideoTypes

LEMMA TypesTogether ==
  ASSUME PresenterTypes, PipelineInv, VideoTypes, VideoAssumption
  PROVE  TypeOK
  <1>1. frame \in Pictures
    BY DEF PipelineInv, VideoAssumption
  <1>2. drainers \subseteq Callers
    BY DEF PipelineInv, VideoAssumption
  <1>3. {dst, prev, scan} \subseteq Buffers \cup {None}
    BY DEF PresenterTypes, VideoTypes, SurfaceTypes
  <1>4. {gles, scanout, plane, onPlane, job, wjob}
          \subseteq Surfaces \cup {None}
    BY DEF PipelineInv, VideoTypes, SurfaceTypes
  <1> QED
    BY <1>1, <1>2, <1>3, <1>4 DEF TypeOK, PresenterTypes, PipelineInv,
       VideoTypes, Chosen, SurfaceTypes, ThreadTypes, OverlayTypes

\* What the presenter does to the variables that are not its callers'.
LEMMA PresenterTouches ==
  ASSUME PresenterTypes, [PresenterNext]_presenterVars,
         released \subseteq Buffers, scan \in Buffers \cup {None}
  PROVE  released' \subseteq Buffers /\ scan' \in Buffers \cup {None}
  <1>1. CASE UNCHANGED presenterVars
    BY <1>1 DEF presenterVars, endVars, renderVars
  <1>2. CASE RenderFlip
    BY <1>2 DEF RenderFlip, PresenterTypes, endVars
  <1>3. CASE Render /\ ~RenderFlip
    BY <1>3 DEF Render, RenderWait, RenderCheck, RenderPop,
       RenderSettle, RenderRecycle, RenderPost, RenderQuit, endVars, renderVars
  <1>4. ASSUME NEW t \in Callers, Release(t)
        PROVE  released' \subseteq Buffers /\ scan' = scan
    <2>1. /\ \A i \in DOMAIN usedQ : usedQ[i] \in Buffers
          /\ \A i \in DOMAIN freeQ : freeQ[i] \in Buffers
      BY DEF PresenterTypes
    <2> QED BY <1>4, <2>1 DEF Release, Elements, renderVars
  <1>5. ASSUME NEW t \in Callers, NEW picture, Posting(t, picture)
        PROVE  released' = released /\ scan' = scan
    BY <1>5 DEF Posting, PostWait, PostTry, PostGranted, Reserve, PostRejected,
       PopFree, Draw, PushUsed, PostDone, endVars, renderVars, presenterVars
  <1>6. ASSUME NEW t \in Callers,
               DrainSleep(t) \/ DrainDone(t) \/ Terminate(t) \/ WakeRender(t)
        PROVE  released' = released /\ scan' = scan
    BY <1>6 DEF DrainSleep, DrainDone, Terminate, WakeRender, endVars,
       renderVars, presenterVars
  <1> QED BY <1>1, <1>2, <1>3, <1>4, <1>5, <1>6 DEF PresenterNext, Destroying

\* What a post writes keeps its type.
LEMMA PostTypes ==
  ASSUME OverlayTypes, NEW t \in Callers, Posted(t) \in Pictures
  PROVE  /\ PostStep(t) \/ PostEnd(t) => drawn' \in [Buffers -> Pictures]
         /\ PostStep(t) => cleaned' \in [Buffers -> Layouts \cup {Unset}]
         /\ PostEnd(t) => shot' \in [Callers -> Shot]
  <1>1. NoShot \in Shot
    BY DEF NoShot, Shot
  <1>2. PostEnd(t) => shot' \in [Callers -> Shot] /\ drawn' = drawn
    BY <1>1 DEF PostEnd, PostDone, PostRejected, OverlayTypes, presenterVars
  <1>3. CASE Draw(t, Posted(t))
            /\ cleaned' = IF shot[t].clean
                          THEN [cleaned EXCEPT ![cbuf[t]] = shot[t].layout]
                          ELSE cleaned
    <2>1. shot[t].layout \in Layouts \cup {Unset}
      BY DEF OverlayTypes, Shot
    <2>2. drawn' \in [Buffers -> Pictures]
      BY <1>3 DEF Draw, OverlayTypes
    <2>3. cleaned' \in [Buffers -> Layouts \cup {Unset}]
      BY <1>3, <2>1 DEF OverlayTypes
    <2> QED BY <1>2, <2>2, <2>3
  <1>4. PostStep(t) =>
          \/ Draw(t, Posted(t))
             /\ cleaned' = IF shot[t].clean
                           THEN [cleaned EXCEPT ![cbuf[t]] = shot[t].layout]
                           ELSE cleaned
          \/ drawn' = drawn /\ cleaned' = cleaned
    BY DEF PostStep, PostWait, PostTry, PostGranted, Reserve, PopFree, PushUsed
  <1> QED BY <1>2, <1>3, <1>4 DEF OverlayTypes

LEMMA TypeStep ==
  ASSUME VideoAssumption, PresenterTypes, PipelineInv, VideoTypes, [Next]_vars,
         [PresenterNext]_presenterVars
  PROVE  VideoTypes'
  <1> released' \subseteq Buffers /\ scan' \in Buffers \cup {None}
    BY PresenterTouches DEF VideoTypes, SurfaceTypes
  <1> /\ {"main", "worker"} = Callers /\ Layouts \subseteq Nat
      /\ MaxChanges \in Nat
    BY DEF VideoAssumption
  <1>1. CASE WorkerSleep
    BY <1>1 DEF WorkerSleep, Awake, VideoTypes, Chosen, SurfaceTypes,
       ThreadTypes, OverlayTypes, MainStages, CleanFrames, Less, Shot,
       presenterVars, endVars, renderVars, callVars, surfaceVars, planeVars,
       frameVars, choiceVars, jobVars, workerVars, overlayVars
  <1>2. CASE WorkerTake
    <2>1. Chosen'
      BY <1>2 DEF WorkerTake, Wake, Awake, VideoTypes, Chosen, presenterVars,
         endVars, renderVars, callVars, surfaceVars, planeVars, frameVars,
         choiceVars, jobVars, workerVars, overlayVars
    <2>2. SurfaceTypes'
      BY <1>2 DEF PipelineInv, WorkerTake, Wake, Awake, VideoTypes,
         SurfaceTypes, presenterVars, endVars, renderVars, callVars,
         surfaceVars, planeVars, frameVars, choiceVars, jobVars, workerVars,
         overlayVars
    <2>3. ThreadTypes'
      BY <1>2 DEF WorkerTake, Wake, Awake, VideoTypes, ThreadTypes, MainStages,
         presenterVars, endVars, renderVars, callVars, surfaceVars,
         planeVars, frameVars, choiceVars, jobVars, workerVars, overlayVars
    <2>4. OverlayTypes'
      BY <1>2 DEF WorkerTake, Wake, Awake, VideoTypes, OverlayTypes,
         CleanFrames, Less, Shot, presenterVars, endVars, renderVars,
         callVars, surfaceVars, planeVars, frameVars, choiceVars, jobVars,
         workerVars, overlayVars
    <2> QED BY <2>1, <2>2, <2>3, <2>4 DEF VideoTypes
  <1>3. CASE WorkerExit
    BY <1>3 DEF WorkerExit, Awake, VideoTypes, Chosen, SurfaceTypes,
       ThreadTypes, OverlayTypes, MainStages, CleanFrames, Less, Shot,
       presenterVars, endVars, renderVars, callVars, surfaceVars, planeVars,
       frameVars, choiceVars, jobVars, workerVars, overlayVars
  <1>4. CASE WorkerRefresh
    BY <1>4 DEF WorkerRefresh, Compose, Base, VideoTypes, Chosen,
       SurfaceTypes, ThreadTypes, OverlayTypes, MainStages, CleanFrames,
       Less, Shot, presenterVars, endVars, renderVars, callVars, surfaceVars,
       planeVars, frameVars, choiceVars, jobVars, workerVars, overlayVars
  <1>5. CASE WorkerUnlock
    BY <1>5 DEF WorkerUnlock, VideoTypes, Chosen, SurfaceTypes, ThreadTypes,
       OverlayTypes, MainStages, CleanFrames, Less, Shot, presenterVars,
       endVars, renderVars, callVars, surfaceVars, planeVars, frameVars,
       choiceVars, jobVars, workerVars, overlayVars
  <1>6. CASE WorkerSettle
    <2>1. Chosen'
      BY <1>6 DEF WorkerSettle, Notified, VideoTypes, Chosen, presenterVars,
         endVars, renderVars, callVars, surfaceVars, planeVars, frameVars,
         choiceVars, jobVars, workerVars, overlayVars
    <2>2. SurfaceTypes'
      BY <1>6 DEF WorkerSettle, Notified, VideoTypes, SurfaceTypes,
         presenterVars, endVars, renderVars, callVars, surfaceVars,
         planeVars, frameVars, choiceVars, jobVars, workerVars, overlayVars
    <2>3. ThreadTypes'
      BY <1>6 DEF WorkerSettle, Notified, VideoTypes, ThreadTypes, MainStages,
         presenterVars, endVars, renderVars, callVars, surfaceVars,
         planeVars, frameVars, choiceVars, jobVars, workerVars, overlayVars
    <2>4. OverlayTypes'
      BY <1>6 DEF WorkerSettle, Notified, VideoTypes, OverlayTypes,
         CleanFrames, Less, Shot, presenterVars, endVars, renderVars,
         callVars, surfaceVars, planeVars, frameVars, choiceVars, jobVars,
         workerVars, overlayVars
    <2> QED BY <2>1, <2>2, <2>3, <2>4 DEF VideoTypes
  <1>7. CASE MainSleep
    BY <1>7 DEF MainSleep, Awake, WorkerQuiet, HasSpace, VideoTypes, Chosen,
       SurfaceTypes, ThreadTypes, OverlayTypes, MainStages, CleanFrames,
       Less, Shot, presenterVars, endVars, renderVars, callVars, surfaceVars,
       planeVars, frameVars, choiceVars, jobVars, workerVars, overlayVars
  <1>8. CASE Callback
    <2>1. Chosen'
      BY <1>8 DEF Callback, VideoTypes, Chosen, presenterVars, endVars,
         renderVars, callVars, surfaceVars, planeVars, frameVars, choiceVars,
         jobVars, workerVars, overlayVars
    <2>2. SurfaceTypes'
      BY <1>8 DEF Callback, VideoTypes, SurfaceTypes, presenterVars, endVars,
         renderVars, callVars, surfaceVars, planeVars, frameVars, choiceVars,
         jobVars, workerVars, overlayVars
    <2>3. ThreadTypes'
      BY <1>8 DEF Callback, VideoTypes, ThreadTypes, MainStages, presenterVars,
         endVars, renderVars, callVars, surfaceVars, planeVars, frameVars,
         choiceVars, jobVars, workerVars, overlayVars
    <2>4. OverlayTypes'
      BY <1>8 DEF Callback, VideoTypes, OverlayTypes, CleanFrames, Less, Shot,
         presenterVars, endVars, renderVars, callVars, surfaceVars,
         planeVars, frameVars, choiceVars, jobVars, workerVars, overlayVars
    <2> QED BY <2>1, <2>2, <2>3, <2>4 DEF VideoTypes
  <1>9. CASE DirectDrain
    BY <1>9 DEF DirectDrain, Awake, WorkerQuiet, VideoTypes, Chosen,
       SurfaceTypes, ThreadTypes, OverlayTypes, MainStages, CleanFrames,
       Less, Shot, presenterVars, endVars, renderVars, callVars, surfaceVars,
       planeVars, frameVars, choiceVars, jobVars, workerVars, overlayVars
  <1>10. CASE DirectSettle
    BY <1>10 DEF DirectSettle, LessScanout, VideoTypes, Chosen, SurfaceTypes,
       ThreadTypes, OverlayTypes, MainStages, CleanFrames, Less, Shot,
       presenterVars, endVars, renderVars, callVars, surfaceVars, planeVars,
       frameVars, choiceVars, jobVars, workerVars, overlayVars
  <1>11. CASE Fallback
    BY <1>11 DEF Fallback, Choose, VideoTypes, Chosen, SurfaceTypes,
       ThreadTypes, OverlayTypes, MainStages, CleanFrames, Less, Shot,
       presenterVars, endVars, renderVars, callVars, surfaceVars, planeVars,
       frameVars, choiceVars, jobVars, workerVars, overlayVars
  <1>12. CASE Submit
    BY <1>12 DEF Submit, Wake, Awake, HasSpace, VideoTypes, Chosen,
       SurfaceTypes, ThreadTypes, OverlayTypes, MainStages, CleanFrames,
       Less, Shot, presenterVars, endVars, renderVars, callVars, surfaceVars,
       planeVars, frameVars, choiceVars, jobVars, workerVars, overlayVars
  <1>13. CASE Plain
    BY <1>13 DEF Plain, Compose, Base, Awake, WorkerQuiet, VideoTypes,
       Chosen, SurfaceTypes, ThreadTypes, OverlayTypes, MainStages,
       CleanFrames, Less, Shot, presenterVars, endVars, renderVars, callVars,
       surfaceVars, planeVars, frameVars, choiceVars, jobVars, workerVars,
       overlayVars
  <1>14. CASE MainUnlock
    BY <1>14 DEF MainUnlock, VideoTypes, Chosen, SurfaceTypes, ThreadTypes,
       OverlayTypes, MainStages, CleanFrames, Less, Shot, presenterVars,
       endVars, renderVars, callVars, surfaceVars, planeVars, frameVars,
       choiceVars, jobVars, workerVars, overlayVars
  <1>15. CASE Change
    <2>1. Chosen'
      <3>1. changes' \in 0..MaxChanges /\ layout' \in Layouts
        BY <1>15 DEF Change, VideoTypes, Chosen
      <3>2. ffwd' \in BOOLEAN
        BY <1>15, Zenon DEF Change, VideoTypes, Chosen
      <3>3. synced' = synced
        BY <1>15 DEF Change, frameVars
      <3> QED BY <3>1, <3>2, <3>3 DEF VideoTypes, Chosen
    <2>2. SurfaceTypes'
      BY <1>15 DEF Change, VideoTypes, SurfaceTypes, presenterVars, endVars,
         renderVars, callVars, surfaceVars, planeVars, frameVars, choiceVars,
         jobVars, workerVars, overlayVars
    <2>3. ThreadTypes'
      BY <1>15 DEF Change, VideoTypes, ThreadTypes, MainStages, presenterVars,
         endVars, renderVars, callVars, surfaceVars, planeVars, frameVars,
         choiceVars, jobVars, workerVars, overlayVars
    <2>4. OverlayTypes'
      BY <1>15 DEF Change, VideoTypes, OverlayTypes, CleanFrames, Less, Shot,
         presenterVars, endVars, renderVars, callVars, surfaceVars,
         planeVars, frameVars, choiceVars, jobVars, workerVars, overlayVars
    <2> QED BY <2>1, <2>2, <2>3, <2>4 DEF VideoTypes
  <1>16. CASE SyncStart
    BY <1>16 DEF SyncStart, VideoTypes, Chosen, SurfaceTypes, ThreadTypes,
       OverlayTypes, MainStages, CleanFrames, Less, Shot, presenterVars,
       endVars, renderVars, callVars, surfaceVars, planeVars, frameVars,
       choiceVars, jobVars, workerVars, overlayVars
  <1>17. CASE SyncWorker
    BY <1>17 DEF SyncWorker, Awake, WorkerQuiet, VideoTypes, Chosen,
       SurfaceTypes, ThreadTypes, OverlayTypes, MainStages, CleanFrames,
       Less, Shot, presenterVars, endVars, renderVars, callVars, surfaceVars,
       planeVars, frameVars, choiceVars, jobVars, workerVars, overlayVars
  <1>18. CASE Shutdown
    BY <1>18 DEF Shutdown, VideoTypes, Chosen, SurfaceTypes, ThreadTypes,
       OverlayTypes, MainStages, CleanFrames, Less, Shot, presenterVars,
       endVars, renderVars, callVars, surfaceVars, planeVars, frameVars,
       choiceVars, jobVars, workerVars, overlayVars
  <1>19. CASE StopWorker
    <2>1. Chosen'
      BY <1>19 DEF StopWorker, Wake, Awake, WorkerQuiet, VideoTypes, Chosen,
         presenterVars, endVars, renderVars, callVars, surfaceVars,
         planeVars, frameVars, choiceVars, jobVars, workerVars, overlayVars
    <2>2. SurfaceTypes'
      BY <1>19 DEF StopWorker, Wake, Awake, WorkerQuiet, VideoTypes,
         SurfaceTypes, presenterVars, endVars, renderVars, callVars,
         surfaceVars, planeVars, frameVars, choiceVars, jobVars, workerVars,
         overlayVars
    <2>3. ThreadTypes'
      BY <1>19 DEF StopWorker, Wake, Awake, WorkerQuiet, VideoTypes,
         ThreadTypes, MainStages, presenterVars, endVars, renderVars,
         callVars, surfaceVars, planeVars, frameVars, choiceVars, jobVars,
         workerVars, overlayVars
    <2>4. OverlayTypes'
      BY <1>19 DEF StopWorker, Wake, Awake, WorkerQuiet, VideoTypes,
         OverlayTypes, CleanFrames, Less, Shot, presenterVars, endVars,
         renderVars, callVars, surfaceVars, planeVars, frameVars, choiceVars,
         jobVars, workerVars, overlayVars
    <2> QED BY <2>1, <2>2, <2>3, <2>4 DEF VideoTypes
  <1>20. CASE JoinWorker
    BY <1>20 DEF JoinWorker, VideoTypes, Chosen, SurfaceTypes, ThreadTypes,
       OverlayTypes, MainStages, CleanFrames, Less, Shot, presenterVars,
       endVars, renderVars, callVars, surfaceVars, planeVars, frameVars,
       choiceVars, jobVars, workerVars, overlayVars
  <1>21. CASE Vblank
    BY <1>21 DEF Vblank, VideoTypes, Chosen, SurfaceTypes, ThreadTypes,
       OverlayTypes, MainStages, CleanFrames, Less, Shot, presenterVars,
       endVars, renderVars, callVars, surfaceVars, planeVars, frameVars,
       choiceVars, jobVars, workerVars, overlayVars
  <1>22. CASE DirectPresent
    BY <1>22 DEF DirectPresent, DrainDone, VideoTypes, Chosen, SurfaceTypes,
       ThreadTypes, OverlayTypes, MainStages, CleanFrames, Less, Shot,
       presenterVars, endVars, renderVars, callVars, surfaceVars, planeVars,
       frameVars, choiceVars, jobVars, workerVars, overlayVars
  <1>23. CASE DirectDisable
    BY <1>23 DEF DirectDisable, Choose, EndScanout, LessScanout, DrainDone,
       VideoTypes, Chosen, SurfaceTypes, ThreadTypes, OverlayTypes,
       MainStages, CleanFrames, Less, Shot, presenterVars, endVars,
       renderVars, callVars, surfaceVars, planeVars, frameVars, choiceVars,
       jobVars, workerVars, overlayVars
  <1>24. CASE SyncDone
    BY <1>24 DEF SyncDone, DrainDone, VideoTypes, Chosen, SurfaceTypes,
       ThreadTypes, OverlayTypes, MainStages, CleanFrames, Less, Shot,
       presenterVars, endVars, renderVars, callVars, surfaceVars, planeVars,
       frameVars, choiceVars, jobVars, workerVars, overlayVars
  <1>25. CASE Unload
    BY <1>25 DEF Unload, DrainDone, VideoTypes, Chosen, SurfaceTypes,
       ThreadTypes, OverlayTypes, MainStages, CleanFrames, Less, Shot,
       presenterVars, endVars, renderVars, callVars, surfaceVars, planeVars,
       frameVars, choiceVars, jobVars, workerVars, overlayVars
  <1>26. CASE DeinitRelease
    BY <1>26 DEF DeinitRelease, EndScanout, LessScanout, DrainDone,
       VideoTypes, Chosen, SurfaceTypes, ThreadTypes, OverlayTypes,
       MainStages, CleanFrames, Less, Shot, presenterVars, endVars,
       renderVars, callVars, surfaceVars, planeVars, frameVars, choiceVars,
       jobVars, workerVars, overlayVars
  <1>27. CASE WorkerPosting \/ WorkerPosted
    <2>1. Posted("worker") \in Pictures
      BY <1>27 DEF WorkerPosting, WorkerPosted, PipelineInv, Posted
    <2>2. OverlayTypes'
      BY <1>27, <2>1, PostTypes DEF WorkerPosting, WorkerPosted, VideoTypes,
         OverlayTypes, overlayVars
    <2> QED
      BY <1>27, <2>2 DEF WorkerPosting, WorkerPosted, VideoTypes, Chosen,
         SurfaceTypes, ThreadTypes, surfaceVars, planeVars, frameVars,
         choiceVars, jobVars, workerVars
  <1>28. CASE MainPosting \/ MainPosted
    <2>1. Posted("main") \in Pictures
      BY <1>28 DEF MainPosting, MainPosted, PipelineInv, Posted, MainHolds
    <2>2. OverlayTypes'
      BY <1>28, <2>1, PostTypes DEF MainPosting, MainPosted, VideoTypes,
         OverlayTypes, overlayVars
    <2>3. mpc' \in MainStages
      BY <1>28 DEF MainPosting, MainPosted, MainStages
    <2>4. UNCHANGED <<surfaceVars, planeVars, frameVars, choiceVars, jobVars,
                      workerVars, asleep>>
      BY <1>28 DEF MainPosting, MainPosted
    <2> QED
      BY <2>2, <2>3, <2>4 DEF VideoTypes, Chosen, SurfaceTypes, ThreadTypes,
         surfaceVars, planeVars, frameVars, choiceVars, jobVars, workerVars
  <1>29. CASE MainDrain \/ RenderThread \/ Gone \/ UNCHANGED vars
    <2>1. UNCHANGED videoVars
      BY <1>29 DEF MainDrain, RenderThread, Gone, vars
    <2>2. drawn' = drawn
      BY <1>29 DEF MainDrain, DrainSleep, RenderThread, Render, RenderWait,
         RenderCheck, RenderPop, RenderFlip, RenderSettle, RenderRecycle,
         RenderPost, RenderQuit, Gone, vars, presenterVars
    <2> QED
      BY <2>1, <2>2 DEF videoVars, VideoTypes, Chosen, SurfaceTypes,
         ThreadTypes, OverlayTypes, surfaceVars, planeVars, frameVars,
         choiceVars, jobVars, workerVars, overlayVars
  <1>30. CASE DeinitDestroy
    BY <1>30 DEF DeinitDestroy, Destroying, Terminate, WakeRender, Release,
       VideoTypes, Chosen, SurfaceTypes, ThreadTypes, MainStages,
       OverlayTypes, surfaceVars, planeVars, frameVars, choiceVars, jobVars,
       workerVars, overlayVars
  <1> QED
    BY <1>1, <1>2, <1>3, <1>4, <1>5, <1>6, <1>7, <1>8, <1>9, <1>10, <1>11,
       <1>12, <1>13, <1>14, <1>15, <1>16, <1>17, <1>18, <1>19, <1>20, <1>21,
       <1>22, <1>23, <1>24, <1>25, <1>26, <1>27, <1>28, <1>29, <1>30
    DEF Next, Main, Worker, Refresh, Between

-----------------------------------------------------------------------------
(* No buffer is lost.                                                      *)

\* A pop takes the head and nothing else.
LEMMA PoppedRest ==
  ASSUME NEW S, NEW q \in Seq(S), q # << >>,
         NEW b, b \in Elements(q), b # Head(q)
  PROVE  b \in Elements(Tail(q))
  <1>1. /\ Len(q) \in Nat /\ Len(q) > 0 /\ DOMAIN q = 1..Len(q)
        /\ DOMAIN Tail(q) = 1..(Len(q) - 1) /\ Head(q) = q[1]
        /\ \A i \in 1..(Len(q) - 1) : Tail(q)[i] = q[i + 1]
    OBVIOUS
  <1>2. PICK i \in 1..Len(q) : q[i] = b
    BY <1>1 DEF Elements
  <1>3. i # 1
    BY <1>1, <1>2
  <1>4. i - 1 \in 1..(Len(q) - 1) /\ (i - 1) + 1 = i
    BY <1>1, <1>2, <1>3
  <1>5. Tail(q)[i - 1] = b
    BY <1>1, <1>2, <1>4
  <1> QED BY <1>1, <1>4, <1>5 DEF Elements

LEMMA NoneLostInit ==
  ASSUME PresenterAssumption, PresenterInit
  PROVE  NoneLost
  <1>1. Elements(freeQ) = Buffers
    <2> DEFINE N == Cardinality(Buffers)
    <2>1. N \in Nat /\ ExistsBijection(1..N, Buffers)
      BY FS_CardinalityType DEF PresenterAssumption
    <2>2. PICK f \in Bijection(1..N, Buffers) : TRUE
      BY <2>1 DEF ExistsBijection
    <2>3. f \in [1..N -> Buffers] /\ Elements(f) = Buffers
      BY <2>2 DEF Bijection, Injection, Surjection, Elements
    <2> QED BY <2>3 DEF CreationOrder, PresenterInit
  <1> QED BY <1>1 DEF NoneLost, Outside, PresenterInit

\* Where a buffer may be that _destroy has not yet released.
Kept(b) == ~Outside(b) \/ b \in {dst, prev} \/ \E t \in Callers : cbuf[t] = b

LEMMA PostLosesNone ==
  ASSUME PresenterAssumption, PresenterInv, NoneLost, ~terminating,
         NEW t \in Callers, NEW picture, Posting(t, picture)
  PROVE  NoneLost'
  <1> USE DEF PresenterInv
  <1>1. /\ \A u \in Callers : cpc[u] # "gone" /\ cpc'[u] # "gone"
        /\ \A b \in Buffers : Kept(b)
        /\ DOMAIN cpc = Callers /\ DOMAIN cbuf = Callers
        /\ rpc # "done" /\ rpc' # "done"
    BY DEF Endgame, NoneLost, Kept, PresenterTypes, Posting, PostWait,
       PostTry, PostGranted, Reserve, PostRejected, PopFree, Draw, PushUsed,
       PostDone, Goto, callVars, renderVars, presenterVars
  <1>2. CASE PopFree(t)
    <2>1. /\ freeQ \in Seq(Buffers) /\ freeQ # << >> /\ freeQ' = Tail(freeQ)
          /\ usedQ' = usedQ /\ dst' = dst /\ prev' = prev
          /\ cbuf' = [cbuf EXCEPT ![t] = Head(freeQ)] /\ cbuf[t] = None
      BY <1>2 DEF PopFree, PresenterTypes, CallersApart, renderVars
    <2>2. \A b \in Elements(freeQ) : b = Head(freeQ) \/ b \in Elements(freeQ')
      BY <2>1, PoppedRest
    <2>3. None \notin Buffers
      BY DEF PresenterAssumption
    <2>4. ASSUME NEW b \in Buffers PROVE Kept(b)'
      <3>1. CASE b \in Elements(freeQ) \cup Elements(usedQ) \cup {dst, prev}
        BY <1>1, <2>1, <2>2, <3>1 DEF Kept, Outside
      <3>2. ASSUME NEW u \in Callers, cbuf[u] = b PROVE Kept(b)'
        BY <1>1, <2>1, <2>3, <3>2 DEF Kept
      <3> QED BY <1>1, <3>1, <3>2 DEF Kept, Outside
    <2> QED BY <1>1, <2>4 DEF NoneLost, Kept
  <1>3. CASE PushUsed(t)
    <2>1. /\ usedQ \in Seq(Buffers) /\ cbuf[t] \in Buffers
          /\ usedQ' = Append(usedQ, cbuf[t])
          /\ freeQ' = freeQ /\ dst' = dst /\ prev' = prev
          /\ cbuf' = [cbuf EXCEPT ![t] = None]
      BY <1>3 DEF PushUsed, PresenterTypes, CallersApart, renderVars
    <2>2. \A b : b \in Elements(usedQ') <=>
                  b \in Elements(usedQ) \/ b = cbuf[t]
      BY <2>1, PushedQueue
    <2>3. ASSUME NEW b \in Buffers PROVE Kept(b)'
      <3>1. CASE b \in Elements(freeQ) \cup Elements(usedQ) \cup {dst, prev}
        BY <2>1, <2>2, <3>1 DEF Kept, Outside
      <3>2. ASSUME NEW u \in Callers, cbuf[u] = b PROVE Kept(b)'
        BY <1>1, <2>1, <2>2, <3>2 DEF Kept, Outside
      <3> QED BY <1>1, <3>1, <3>2 DEF Kept, Outside
    <2> QED BY <1>1, <2>3 DEF NoneLost, Kept
  <1>4. CASE \/ PostWait(t) \/ PostGranted(t) \/ PostTry(t) \/ PostRejected(t)
             \/ Draw(t, picture) \/ PostDone(t)
    <2>1. UNCHANGED <<freeQ, usedQ, dst, prev, cbuf>>
      BY <1>4 DEF PostWait, PostTry, PostGranted, Reserve, PostRejected, Draw,
         PostDone, queueVars, callVars, renderVars, presenterVars
    <2> QED BY <1>1, <2>1 DEF NoneLost, Kept, Outside
  <1> QED BY <1>2, <1>3, <1>4 DEF Posting

LEMMA RenderLosesNone ==
  ASSUME PresenterAssumption, PresenterInv, NoneLost, Render
  PROVE  NoneLost'
  <1> USE DEF PresenterInv
  <1>1. /\ UNCHANGED <<released, cpc, cbuf>>
        /\ rpc # "done" /\ \A u \in Callers : cpc[u] # "gone"
        /\ \A b \in Buffers : Kept(b)
    BY DEF NoneLost, Kept, Render, RenderWait, RenderCheck, RenderPop,
       RenderFlip, RenderSettle, RenderRecycle, RenderPost, RenderQuit,
       endVars, callVars
  <1>2. rpc' = "done" => prev' = None
    BY <1>1 DEF Render, RenderWait, RenderCheck, RenderPop,
       RenderFlip, RenderSettle, RenderRecycle, RenderPost, RenderQuit
  <1>3. CASE RenderPop
    <2>1. /\ usedQ \in Seq(Buffers) /\ usedQ # << >> /\ usedQ' = Tail(usedQ)
          /\ freeQ' = freeQ /\ prev' = prev
          /\ dst' = Head(usedQ) /\ dst = None
      BY <1>3 DEF RenderPop, PresenterTypes, RenderApart
    <2>2. \A b \in Elements(usedQ) : b = Head(usedQ) \/ b \in Elements(usedQ')
      BY <2>1, PoppedRest
    <2>3. None \notin Buffers
      BY DEF PresenterAssumption
    <2>4. \A b \in Buffers : Kept(b)'
      BY <1>1, <2>1, <2>2, <2>3 DEF Kept, Outside
    <2> QED BY <1>1, <1>2, <2>4 DEF NoneLost, Kept
  <1>4. CASE RenderRecycle \/ RenderQuit
    <2>1. /\ freeQ \in Seq(Buffers) /\ usedQ' = usedQ /\ prev' \in {dst, None}
          /\ prev # None => freeQ' = Append(freeQ, prev) /\ prev \in Buffers
          /\ prev = None => freeQ' = freeQ /\ prev \notin Buffers
          /\ dst = None \/ prev' = dst
      BY <1>4 DEF RenderRecycle, RenderQuit, Recycled, PresenterTypes,
         RenderApart, PresenterAssumption
    <2>2. ASSUME prev # None
          PROVE  \A b : b \in Elements(freeQ') <=>
                         b \in Elements(freeQ) \/ b = prev
      <3>1. freeQ \in Seq(Buffers) /\ prev \in Buffers
        BY <2>1, <2>2
      <3>2. freeQ' = Append(freeQ, prev)
        BY <2>1, <2>2
      <3> QED BY <3>1, <3>2, PushedQueue
    <2>3. None \notin Buffers
      BY DEF PresenterAssumption
    <2>4. \A b \in Buffers : Kept(b)'
      BY <1>1, <2>1, <2>2, <2>3 DEF Kept, Outside
    <2> QED BY <1>1, <1>2, <2>4 DEF NoneLost, Kept
  <1>5. CASE \/ RenderWait \/ RenderCheck \/ RenderFlip \/ RenderSettle
             \/ RenderPost
    <2>1. /\ UNCHANGED <<freeQ, usedQ>>
          /\ {dst, prev} \ {None} \subseteq {dst', prev'}
      BY <1>5 DEF RenderWait, RenderCheck, RenderFlip, RenderSettle,
         RenderPost, queueVars
    <2>2. None \notin Buffers
      BY DEF PresenterAssumption
    <2>3. \A b \in Buffers : Kept(b)'
      BY <1>1, <2>1, <2>2 DEF Kept, Outside
    <2> QED BY <1>1, <1>2, <2>3 DEF NoneLost, Kept
  <1> QED BY <1>3, <1>4, <1>5 DEF Render

\* Main alone destroys the presenter, when no buffer is out.
LEMMA DestroyLosesNone ==
  ASSUME VideoAssumption, PresenterAssumption, PresenterInv, PipelineInv,
         NoneLost, NEW t \in Callers, Destroying(t)
  PROVE  NoneLost'
  <1> USE DEF PresenterInv
  <1>1. CASE Terminate(t) \/ WakeRender(t)
    <2>1. UNCHANGED <<freeQ, usedQ, rpc, dst, prev, cbuf, released>>
      BY <1>1 DEF Terminate, WakeRender, queueVars, renderVars, endVars
    <2>2. \A u \in Callers : cpc[u] # "gone"
      <3>1. CASE Terminate(t)
        BY <3>1 DEF Terminate, Endgame
      <3>2. CASE WakeRender(t)
        BY <3>2 DEF WakeRender, Endgame, VideoAssumption, PipelineInv
      <3> QED BY <1>1, <3>1, <3>2
    <2>3. \A u \in Callers : cpc'[u] # "gone"
      BY <1>1, <2>2 DEF Terminate, WakeRender, Goto, PipelineInv
    <2> QED BY <2>1, <2>2, <2>3 DEF NoneLost, Outside
  <1>2. CASE Release(t)
    <2>1. /\ cpc[t] = "join" /\ terminating /\ rpc = "done"
          /\ \A u \in Callers \ {t} : cpc[u] = "idle"
      BY <1>2 DEF Release, Endgame, VideoAssumption, PipelineInv
    <2>2. prev = None /\ dst = None /\ \A u \in Callers : cbuf[u] = None
      BY <2>1 DEF NoneLost, RenderApart, CallersApart
    <2>3. \A b \in Buffers : ~Outside(b)
      BY <2>1, <2>2 DEF NoneLost, PresenterAssumption
    <2>4. Elements(usedQ) \cup Elements(freeQ) \subseteq Buffers
      BY DEF Elements, PresenterTypes
    <2>5. released' = Buffers /\ rpc' = "done" /\ prev' = None
      BY <1>2, <2>1, <2>2, <2>3, <2>4 DEF Release, Outside, renderVars
    <2>6. cpc'[t] = "gone"
      BY <1>2 DEF Release, Goto, PresenterTypes
    <2> QED BY <2>5, <2>6 DEF NoneLost
  <1> QED BY <1>1, <1>2 DEF Destroying

LEMMA NoneLostStep ==
  ASSUME VideoAssumption, PresenterAssumption, PresenterInv, PipelineInv,
         NoneLost, [PresenterNext]_presenterVars
  PROVE  NoneLost'
  <1>1. CASE UNCHANGED presenterVars
    BY <1>1 DEF NoneLost, Outside, presenterVars, queueVars, endVars,
       renderVars, callVars
  <1>2. CASE Render
    BY <1>2, RenderLosesNone
  <1>3. ASSUME NEW t \in Callers, NEW picture, ~terminating,
               Posting(t, picture)
        PROVE  NoneLost'
    BY <1>3, PostLosesNone
  <1>4. ASSUME NEW t \in Callers, DrainSleep(t) \/ DrainDone(t)
        PROVE  NoneLost'
    <2>1. UNCHANGED <<queueVars, endVars, renderVars, callVars>>
      BY <1>4 DEF DrainSleep, DrainDone, presenterVars
    <2> QED BY <2>1 DEF NoneLost, Outside, queueVars, endVars, renderVars,
                    callVars
  <1>5. ASSUME NEW t \in Callers, Destroying(t)
        PROVE  NoneLost'
    BY <1>5, DestroyLosesNone
  <1> QED BY <1>1, <1>2, <1>3, <1>4, <1>5 DEF PresenterNext

LEMMA WorkerPlaceStep ==
  ASSUME VideoAssumption, PresenterInv, PipelineInv, VideoTypes,
         WorkerPlace, Alone, Held, Bases, [Next]_vars
  PROVE  WorkerPlace'
  <1>a. /\ {"main", "worker"} = Callers /\ None \notin Surfaces
        /\ DOMAIN cpc = Callers /\ DOMAIN shot = Callers
        /\ terminating => mpc \in {"destroy", "gone"}
        /\ ~started => wpc \in {"none", "dead"}
        /\ gles \in Surfaces \cup {None} /\ job \in Surfaces \cup {None}
        /\ wjob \in Surfaces \cup {None} /\ scanout \in Surfaces \cup {None}
        /\ MainHolds => gles # None
    BY DEF VideoAssumption, PipelineInv, VideoTypes, SurfaceTypes,
           OverlayTypes
  <1> USE <1>a
  <1>1. CASE WorkerSleep
    BY <1>1 DEF WorkerSleep, Awake, WorkerPlace, Busy, presenterVars,
       callVars, surfaceVars, planeVars, frameVars, choiceVars, jobVars,
       workerVars, overlayVars
  <1>2. CASE WorkerTake
    BY <1>2 DEF WorkerTake, Wake, Awake, WorkerPlace, Busy, presenterVars,
       callVars, surfaceVars, planeVars, frameVars, choiceVars, jobVars,
       workerVars, overlayVars
  <1>3. CASE WorkerExit
    BY <1>3 DEF WorkerExit, Awake, WorkerPlace, Busy, presenterVars,
       callVars, surfaceVars, planeVars, frameVars, choiceVars, jobVars,
       workerVars, overlayVars
  <1>4. CASE WorkerRefresh
    BY <1>4 DEF WorkerRefresh, Compose, Base, WorkerPlace, Busy,
       presenterVars, callVars, surfaceVars, planeVars, frameVars,
       choiceVars, jobVars, workerVars, overlayVars
  <1>5. CASE WorkerUnlock
    BY <1>5 DEF WorkerUnlock, WorkerPlace, Busy, presenterVars, callVars,
       surfaceVars, planeVars, frameVars, choiceVars, jobVars, workerVars,
       overlayVars
  <1>6. CASE WorkerSettle
    BY <1>6 DEF WorkerSettle, Notified, WorkerPlace, Busy, presenterVars,
       callVars, surfaceVars, planeVars, frameVars, choiceVars, jobVars,
       workerVars, overlayVars
  <1>7. CASE MainSleep
    BY <1>7 DEF MainSleep, Awake, WorkerQuiet, HasSpace, WorkerPlace, Busy,
       presenterVars, callVars, surfaceVars, planeVars, frameVars,
       choiceVars, jobVars, workerVars, overlayVars
  <1>8. CASE Callback
    BY <1>8 DEF Callback, WorkerPlace, Busy, presenterVars, callVars,
       surfaceVars, planeVars, frameVars, choiceVars, jobVars, workerVars,
       overlayVars
  <1>9. CASE DirectDrain
    BY <1>9 DEF DirectDrain, Awake, WorkerQuiet, WorkerPlace, Busy,
       presenterVars, callVars, surfaceVars, planeVars, frameVars,
       choiceVars, jobVars, workerVars, overlayVars
  <1>10. CASE DirectSettle
    BY <1>10 DEF DirectSettle, LessScanout, WorkerPlace, Busy, presenterVars,
       callVars, surfaceVars, planeVars, frameVars, choiceVars, jobVars,
       workerVars, overlayVars
  <1>11. CASE Fallback
    BY <1>11 DEF Fallback, Choose, WorkerPlace, Busy, presenterVars,
       callVars, surfaceVars, planeVars, frameVars, choiceVars, jobVars,
       workerVars, overlayVars
  <1>12. CASE Submit
    BY <1>12 DEF Submit, Wake, Awake, HasSpace, WorkerPlace, Busy,
       presenterVars, callVars, surfaceVars, planeVars, frameVars,
       choiceVars, jobVars, workerVars, overlayVars
  <1>13. CASE Plain
    BY <1>13 DEF Plain, Compose, Base, Awake, WorkerQuiet, WorkerPlace, Busy,
       presenterVars, callVars, surfaceVars, planeVars, frameVars,
       choiceVars, jobVars, workerVars, overlayVars
  <1>14. CASE MainUnlock
    BY <1>14 DEF MainUnlock, WorkerPlace, Busy, presenterVars, callVars,
       surfaceVars, planeVars, frameVars, choiceVars, jobVars, workerVars,
       overlayVars
  <1>15. CASE Change
    BY <1>15 DEF Change, WorkerPlace, Busy, presenterVars, callVars,
       surfaceVars, planeVars, frameVars, choiceVars, jobVars, workerVars,
       overlayVars
  <1>16. CASE SyncStart
    BY <1>16 DEF SyncStart, WorkerPlace, Busy, presenterVars, callVars,
       surfaceVars, planeVars, frameVars, choiceVars, jobVars, workerVars,
       overlayVars
  <1>17. CASE SyncWorker
    BY <1>17 DEF SyncWorker, Awake, WorkerQuiet, WorkerPlace, Busy,
       presenterVars, callVars, surfaceVars, planeVars, frameVars,
       choiceVars, jobVars, workerVars, overlayVars
  <1>18. CASE Shutdown
    BY <1>18 DEF Shutdown, WorkerPlace, Busy, presenterVars, callVars,
       surfaceVars, planeVars, frameVars, choiceVars, jobVars, workerVars,
       overlayVars
  <1>19. CASE StopWorker
    BY <1>19 DEF StopWorker, Wake, Awake, WorkerQuiet, WorkerPlace, Busy,
       presenterVars, callVars, surfaceVars, planeVars, frameVars,
       choiceVars, jobVars, workerVars, overlayVars
  <1>20. CASE JoinWorker
    BY <1>20 DEF JoinWorker, WorkerPlace, Busy, presenterVars, callVars,
       surfaceVars, planeVars, frameVars, choiceVars, jobVars, workerVars,
       overlayVars
  <1>21. CASE Vblank
    BY <1>21 DEF Vblank, WorkerPlace, Busy, presenterVars, callVars,
       surfaceVars, planeVars, frameVars, choiceVars, jobVars, workerVars,
       overlayVars
  <1>22. CASE DirectPresent
    BY <1>22 DEF DirectPresent, DrainDone, WorkerPlace, Busy, presenterVars,
       callVars, surfaceVars, planeVars, frameVars, choiceVars, jobVars,
       workerVars, overlayVars
  <1>23. CASE DirectDisable
    BY <1>23 DEF DirectDisable, Choose, EndScanout, LessScanout, DrainDone,
       WorkerPlace, Busy, presenterVars, callVars, surfaceVars, planeVars,
       frameVars, choiceVars, jobVars, workerVars, overlayVars
  <1>24. CASE SyncDone
    BY <1>24 DEF SyncDone, DrainDone, Drained, NothingPending, WorkerPlace,
       Busy, presenterVars, callVars, surfaceVars, planeVars, frameVars,
       choiceVars, jobVars, workerVars, overlayVars
  <1>25. CASE Unload
    BY <1>25 DEF Unload, DrainDone, WorkerPlace, Busy, presenterVars,
       callVars, surfaceVars, planeVars, frameVars, choiceVars, jobVars,
       workerVars, overlayVars
  <1>26. CASE DeinitRelease
    BY <1>26 DEF DeinitRelease, EndScanout, LessScanout, DrainDone,
       WorkerPlace, Busy, presenterVars, callVars, surfaceVars, planeVars,
       frameVars, choiceVars, jobVars, workerVars, overlayVars
  <1>27. CASE WorkerPosting \/ WorkerPosted
    BY <1>27, PostTouches DEF WorkerPosting, WorkerPosted, WorkerPlace, Busy,
       surfaceVars, planeVars, frameVars, choiceVars, jobVars, workerVars,
       overlayVars
  <1>28. CASE MainPosting \/ MainPosted
    BY <1>28, PostTouches DEF MainPosting, MainPosted, WorkerPlace, Busy,
       surfaceVars, planeVars, frameVars, choiceVars, jobVars, workerVars,
       overlayVars
  <1>29. CASE MainDrain \/ RenderThread \/ Gone \/ UNCHANGED vars
    <2>1. UNCHANGED videoVars /\ cpc' = cpc /\ (pending = 0 => pending' = 0)
      BY <1>29 DEF MainDrain, DrainSleep, RenderThread, Render, RenderWait,
         RenderCheck, RenderPop, RenderFlip, RenderSettle, RenderRecycle,
         RenderPost, RenderQuit, Gone, vars, presenterVars, callVars
    <2> QED
      BY <2>1 DEF videoVars, WorkerPlace, Busy, surfaceVars, planeVars,
         frameVars, choiceVars, jobVars, workerVars, overlayVars
  <1>30. CASE DeinitDestroy
    BY <1>30 DEF DeinitDestroy, Destroying, Terminate, WakeRender, Release,
       Goto, WorkerPlace, Busy, surfaceVars, planeVars, frameVars,
       choiceVars, jobVars, workerVars, overlayVars
  <1> QED
    BY <1>1, <1>2, <1>3, <1>4, <1>5, <1>6, <1>7, <1>8, <1>9, <1>10, <1>11,
       <1>12, <1>13, <1>14, <1>15, <1>16, <1>17, <1>18, <1>19, <1>20, <1>21,
       <1>22, <1>23, <1>24, <1>25, <1>26, <1>27, <1>28, <1>29, <1>30
    DEF Next, Main, Worker, Refresh, Between

LEMMA AloneStep ==
  ASSUME VideoAssumption, PresenterInv, PipelineInv, VideoTypes,
         WorkerPlace, Alone, Held, Bases, [Next]_vars
  PROVE  Alone'
  <1>a. /\ {"main", "worker"} = Callers /\ None \notin Surfaces
        /\ DOMAIN cpc = Callers /\ DOMAIN shot = Callers
        /\ terminating => mpc \in {"destroy", "gone"}
        /\ ~started => wpc \in {"none", "dead"}
        /\ gles \in Surfaces \cup {None} /\ job \in Surfaces \cup {None}
        /\ wjob \in Surfaces \cup {None} /\ scanout \in Surfaces \cup {None}
        /\ MainHolds => gles # None
    BY DEF VideoAssumption, PipelineInv, VideoTypes, SurfaceTypes,
           OverlayTypes
  <1> USE <1>a
  <1>1. CASE WorkerSleep
    BY <1>1 DEF WorkerSleep, Awake, Alone, Undisturbed, WorkerQuiet,
       WorkerPlace, Busy, MainHolds, presenterVars, callVars, surfaceVars,
       planeVars, frameVars, choiceVars, jobVars, workerVars, overlayVars
  <1>2. CASE WorkerTake
    BY <1>2 DEF WorkerTake, Wake, Awake, Alone, Undisturbed, WorkerQuiet,
       WorkerPlace, Busy, MainHolds, presenterVars, callVars, surfaceVars,
       planeVars, frameVars, choiceVars, jobVars, workerVars, overlayVars
  <1>3. CASE WorkerExit
    BY <1>3 DEF WorkerExit, Awake, Alone, Undisturbed, WorkerQuiet,
       WorkerPlace, Busy, MainHolds, presenterVars, callVars, surfaceVars,
       planeVars, frameVars, choiceVars, jobVars, workerVars, overlayVars
  <1>4. CASE WorkerRefresh
    BY <1>4 DEF WorkerRefresh, Compose, Base, Alone, Undisturbed,
       WorkerQuiet, WorkerPlace, Busy, MainHolds, presenterVars, callVars,
       surfaceVars, planeVars, frameVars, choiceVars, jobVars, workerVars,
       overlayVars
  <1>5. CASE WorkerUnlock
    BY <1>5 DEF WorkerUnlock, Alone, Undisturbed, WorkerQuiet, WorkerPlace,
       Busy, MainHolds, presenterVars, callVars, surfaceVars, planeVars,
       frameVars, choiceVars, jobVars, workerVars, overlayVars
  <1>6. CASE WorkerSettle
    BY <1>6 DEF WorkerSettle, Notified, Alone, Undisturbed, WorkerQuiet,
       WorkerPlace, Busy, MainHolds, presenterVars, callVars, surfaceVars,
       planeVars, frameVars, choiceVars, jobVars, workerVars, overlayVars
  <1>7. CASE MainSleep
    BY <1>7 DEF MainSleep, Awake, HasSpace, Alone, Undisturbed, WorkerQuiet,
       WorkerPlace, Busy, MainHolds, presenterVars, callVars, surfaceVars,
       planeVars, frameVars, choiceVars, jobVars, workerVars, overlayVars
  <1>8. CASE Callback
    BY <1>8 DEF Callback, Alone, Undisturbed, WorkerQuiet, WorkerPlace, Busy,
       MainHolds, presenterVars, callVars, surfaceVars, planeVars, frameVars,
       choiceVars, jobVars, workerVars, overlayVars
  <1>9. CASE DirectDrain
    BY <1>9 DEF DirectDrain, Awake, Alone, Undisturbed, WorkerQuiet,
       WorkerPlace, Busy, MainHolds, presenterVars, callVars, surfaceVars,
       planeVars, frameVars, choiceVars, jobVars, workerVars, overlayVars
  <1>10. CASE DirectSettle
    BY <1>10 DEF DirectSettle, LessScanout, Alone, Undisturbed, WorkerQuiet,
       WorkerPlace, Busy, MainHolds, presenterVars, callVars, surfaceVars,
       planeVars, frameVars, choiceVars, jobVars, workerVars, overlayVars
  <1>11. CASE Fallback
    BY <1>11 DEF Fallback, Choose, Alone, Undisturbed, WorkerQuiet,
       WorkerPlace, Busy, MainHolds, presenterVars, callVars, surfaceVars,
       planeVars, frameVars, choiceVars, jobVars, workerVars, overlayVars
  <1>12. CASE Submit
    BY <1>12 DEF Submit, Wake, Awake, HasSpace, Alone, Undisturbed,
       WorkerQuiet, WorkerPlace, Busy, MainHolds, presenterVars, callVars,
       surfaceVars, planeVars, frameVars, choiceVars, jobVars, workerVars,
       overlayVars
  <1>13. CASE Plain
    BY <1>13 DEF Plain, Compose, Base, Awake, Alone, Undisturbed,
       WorkerQuiet, WorkerPlace, Busy, MainHolds, presenterVars, callVars,
       surfaceVars, planeVars, frameVars, choiceVars, jobVars, workerVars,
       overlayVars
  <1>14. CASE MainUnlock
    BY <1>14 DEF MainUnlock, Alone, Undisturbed, WorkerQuiet, WorkerPlace,
       Busy, MainHolds, presenterVars, callVars, surfaceVars, planeVars,
       frameVars, choiceVars, jobVars, workerVars, overlayVars
  <1>15. CASE Change
    BY <1>15 DEF Change, Alone, Undisturbed, WorkerQuiet, WorkerPlace, Busy,
       MainHolds, presenterVars, callVars, surfaceVars, planeVars, frameVars,
       choiceVars, jobVars, workerVars, overlayVars
  <1>16. CASE SyncStart
    BY <1>16 DEF SyncStart, Alone, Undisturbed, WorkerQuiet, WorkerPlace,
       Busy, MainHolds, presenterVars, callVars, surfaceVars, planeVars,
       frameVars, choiceVars, jobVars, workerVars, overlayVars
  <1>17. CASE SyncWorker
    BY <1>17 DEF SyncWorker, Awake, Alone, Undisturbed, WorkerQuiet,
       WorkerPlace, Busy, MainHolds, presenterVars, callVars, surfaceVars,
       planeVars, frameVars, choiceVars, jobVars, workerVars, overlayVars
  <1>18. CASE Shutdown
    BY <1>18 DEF Shutdown, Alone, Undisturbed, WorkerQuiet, WorkerPlace,
       Busy, MainHolds, presenterVars, callVars, surfaceVars, planeVars,
       frameVars, choiceVars, jobVars, workerVars, overlayVars
  <1>19. CASE StopWorker
    BY <1>19 DEF StopWorker, Wake, Awake, Alone, Undisturbed, WorkerQuiet,
       WorkerPlace, Busy, MainHolds, presenterVars, callVars, surfaceVars,
       planeVars, frameVars, choiceVars, jobVars, workerVars, overlayVars
  <1>20. CASE JoinWorker
    BY <1>20 DEF JoinWorker, Alone, Undisturbed, WorkerQuiet, WorkerPlace,
       Busy, MainHolds, presenterVars, callVars, surfaceVars, planeVars,
       frameVars, choiceVars, jobVars, workerVars, overlayVars
  <1>21. CASE Vblank
    BY <1>21 DEF Vblank, Alone, Undisturbed, WorkerQuiet, WorkerPlace, Busy,
       MainHolds, presenterVars, callVars, surfaceVars, planeVars, frameVars,
       choiceVars, jobVars, workerVars, overlayVars
  <1>22. CASE DirectPresent
    BY <1>22 DEF DirectPresent, DrainDone, Alone, Undisturbed, WorkerQuiet,
       WorkerPlace, Busy, MainHolds, presenterVars, callVars, surfaceVars,
       planeVars, frameVars, choiceVars, jobVars, workerVars, overlayVars
  <1>23. CASE DirectDisable
    BY <1>23 DEF DirectDisable, Choose, EndScanout, LessScanout, DrainDone,
       Alone, Undisturbed, WorkerQuiet, WorkerPlace, Busy, MainHolds,
       presenterVars, callVars, surfaceVars, planeVars, frameVars,
       choiceVars, jobVars, workerVars, overlayVars
  <1>24. CASE SyncDone
    BY <1>24 DEF SyncDone, DrainDone, Drained, NothingPending, Alone,
       Undisturbed, WorkerQuiet, WorkerPlace, Busy, MainHolds, presenterVars,
       callVars, surfaceVars, planeVars, frameVars, choiceVars, jobVars,
       workerVars, overlayVars
  <1>25. CASE Unload
    BY <1>25 DEF Unload, DrainDone, Alone, Undisturbed, WorkerQuiet,
       WorkerPlace, Busy, MainHolds, presenterVars, callVars, surfaceVars,
       planeVars, frameVars, choiceVars, jobVars, workerVars, overlayVars
  <1>26. CASE DeinitRelease
    BY <1>26 DEF DeinitRelease, EndScanout, LessScanout, DrainDone, Alone,
       Undisturbed, WorkerQuiet, WorkerPlace, Busy, MainHolds, presenterVars,
       callVars, surfaceVars, planeVars, frameVars, choiceVars, jobVars,
       workerVars, overlayVars
  <1>27. CASE WorkerPosting \/ WorkerPosted
    BY <1>27, PostTouches DEF WorkerPosting, WorkerPosted, Alone, Undisturbed,
       WorkerQuiet, WorkerPlace, Busy, MainHolds, surfaceVars, planeVars,
       frameVars, choiceVars, jobVars, workerVars, overlayVars
  <1>28. CASE MainPosting \/ MainPosted
    <2>1. cpc["main"] # "gone" => cpc'["main"] # "gone"
      BY <1>28 DEF MainPosting, MainPosted, PostStep, PostEnd, PostWait,
         PostTry, PostGranted, Reserve, PopFree, Draw, PushUsed, PostDone,
         PostRejected, Goto, callVars, presenterVars
    <2> QED
      BY <1>28, <2>1, PostTouches DEF MainPosting, MainPosted, Alone,
         Undisturbed, WorkerQuiet, WorkerPlace, Busy, MainHolds, surfaceVars,
         planeVars, frameVars, choiceVars, jobVars, workerVars, overlayVars
  <1>29. CASE MainDrain \/ RenderThread \/ Gone \/ UNCHANGED vars
    <2>1. UNCHANGED videoVars /\ cpc' = cpc /\ (pending = 0 => pending' = 0)
      BY <1>29 DEF MainDrain, DrainSleep, RenderThread, Render, RenderWait,
         RenderCheck, RenderPop, RenderFlip, RenderSettle, RenderRecycle,
         RenderPost, RenderQuit, Gone, vars, presenterVars, callVars
    <2> QED
      BY <2>1 DEF videoVars, Alone, Undisturbed, WorkerQuiet, WorkerPlace,
         Busy, MainHolds, surfaceVars, planeVars, frameVars, choiceVars,
         jobVars, workerVars, overlayVars
  <1>30. CASE DeinitDestroy
    BY <1>30 DEF DeinitDestroy, Destroying, Terminate, WakeRender, Release,
       Goto, Alone, Undisturbed, WorkerQuiet, WorkerPlace, Busy, MainHolds,
       surfaceVars, planeVars, frameVars, choiceVars, jobVars, workerVars,
       overlayVars
  <1> QED
    BY <1>1, <1>2, <1>3, <1>4, <1>5, <1>6, <1>7, <1>8, <1>9, <1>10, <1>11,
       <1>12, <1>13, <1>14, <1>15, <1>16, <1>17, <1>18, <1>19, <1>20, <1>21,
       <1>22, <1>23, <1>24, <1>25, <1>26, <1>27, <1>28, <1>29, <1>30
    DEF Next, Main, Worker, Refresh, Between

LEMMA HeldStep ==
  ASSUME VideoAssumption, PresenterInv, PipelineInv, VideoTypes,
         WorkerPlace, Alone, Held, Bases, [Next]_vars
  PROVE  Held'
  <1>a. /\ {"main", "worker"} = Callers /\ None \notin Surfaces
        /\ DOMAIN cpc = Callers /\ DOMAIN shot = Callers
        /\ terminating => mpc \in {"destroy", "gone"}
        /\ ~started => wpc \in {"none", "dead"}
        /\ gles \in Surfaces \cup {None} /\ job \in Surfaces \cup {None}
        /\ wjob \in Surfaces \cup {None} /\ scanout \in Surfaces \cup {None}
        /\ MainHolds => gles # None
    BY DEF VideoAssumption, PipelineInv, VideoTypes, SurfaceTypes,
           OverlayTypes
  <1> USE <1>a
  <1>1. CASE WorkerSleep
    BY <1>1 DEF WorkerSleep, Awake, Held, Mine, MainHolds, WorkerPlace,
       Alone, Undisturbed, WorkerQuiet, Busy, presenterVars, callVars,
       surfaceVars, planeVars, frameVars, choiceVars, jobVars, workerVars,
       overlayVars
  <1>2. CASE WorkerTake
    BY <1>2 DEF WorkerTake, Wake, Awake, Held, Mine, MainHolds, WorkerPlace,
       Alone, Undisturbed, WorkerQuiet, Busy, presenterVars, callVars,
       surfaceVars, planeVars, frameVars, choiceVars, jobVars, workerVars,
       overlayVars
  <1>3. CASE WorkerExit
    BY <1>3 DEF WorkerExit, Awake, Held, Mine, MainHolds, WorkerPlace, Alone,
       Undisturbed, WorkerQuiet, Busy, presenterVars, callVars, surfaceVars,
       planeVars, frameVars, choiceVars, jobVars, workerVars, overlayVars
  <1>4. CASE WorkerRefresh
    BY <1>4 DEF WorkerRefresh, Compose, Base, Held, Mine, MainHolds,
       WorkerPlace, Alone, Undisturbed, WorkerQuiet, Busy, presenterVars,
       callVars, surfaceVars, planeVars, frameVars, choiceVars, jobVars,
       workerVars, overlayVars
  <1>5. CASE WorkerUnlock
    BY <1>5 DEF WorkerUnlock, Held, Mine, MainHolds, WorkerPlace, Alone,
       Undisturbed, WorkerQuiet, Busy, presenterVars, callVars, surfaceVars,
       planeVars, frameVars, choiceVars, jobVars, workerVars, overlayVars
  <1>6. CASE WorkerSettle
    BY <1>6 DEF WorkerSettle, Notified, Held, Mine, MainHolds, WorkerPlace,
       Alone, Undisturbed, WorkerQuiet, Busy, presenterVars, callVars,
       surfaceVars, planeVars, frameVars, choiceVars, jobVars, workerVars,
       overlayVars
  <1>7. CASE MainSleep
    BY <1>7 DEF MainSleep, Awake, HasSpace, Held, Mine, MainHolds,
       WorkerPlace, Alone, Undisturbed, WorkerQuiet, Busy, presenterVars,
       callVars, surfaceVars, planeVars, frameVars, choiceVars, jobVars,
       workerVars, overlayVars
  <1>8. CASE Callback
    BY <1>8 DEF Callback, Held, Mine, MainHolds, WorkerPlace, Alone,
       Undisturbed, WorkerQuiet, Busy, presenterVars, callVars, surfaceVars,
       planeVars, frameVars, choiceVars, jobVars, workerVars, overlayVars
  <1>9. CASE DirectDrain
    BY <1>9 DEF DirectDrain, Awake, Held, Mine, MainHolds, WorkerPlace,
       Alone, Undisturbed, WorkerQuiet, Busy, presenterVars, callVars,
       surfaceVars, planeVars, frameVars, choiceVars, jobVars, workerVars,
       overlayVars
  <1>10. CASE DirectSettle
    BY <1>10 DEF DirectSettle, LessScanout, Held, Mine, MainHolds,
       WorkerPlace, Alone, Undisturbed, WorkerQuiet, Busy, presenterVars,
       callVars, surfaceVars, planeVars, frameVars, choiceVars, jobVars,
       workerVars, overlayVars
  <1>11. CASE Fallback
    BY <1>11 DEF Fallback, Choose, Held, Mine, MainHolds, WorkerPlace, Alone,
       Undisturbed, WorkerQuiet, Busy, presenterVars, callVars, surfaceVars,
       planeVars, frameVars, choiceVars, jobVars, workerVars, overlayVars
  <1>12. CASE Submit
    BY <1>12 DEF Submit, Wake, Awake, HasSpace, Held, Mine, MainHolds,
       WorkerPlace, Alone, Undisturbed, WorkerQuiet, Busy, presenterVars,
       callVars, surfaceVars, planeVars, frameVars, choiceVars, jobVars,
       workerVars, overlayVars
  <1>13. CASE Plain
    BY <1>13 DEF Plain, Compose, Base, Awake, Held, Mine, MainHolds,
       WorkerPlace, Alone, Undisturbed, WorkerQuiet, Busy, presenterVars,
       callVars, surfaceVars, planeVars, frameVars, choiceVars, jobVars,
       workerVars, overlayVars
  <1>14. CASE MainUnlock
    BY <1>14 DEF MainUnlock, Held, Mine, MainHolds, WorkerPlace, Alone,
       Undisturbed, WorkerQuiet, Busy, presenterVars, callVars, surfaceVars,
       planeVars, frameVars, choiceVars, jobVars, workerVars, overlayVars
  <1>15. CASE Change
    BY <1>15 DEF Change, Held, Mine, MainHolds, WorkerPlace, Alone,
       Undisturbed, WorkerQuiet, Busy, presenterVars, callVars, surfaceVars,
       planeVars, frameVars, choiceVars, jobVars, workerVars, overlayVars
  <1>16. CASE SyncStart
    BY <1>16 DEF SyncStart, Held, Mine, MainHolds, WorkerPlace, Alone,
       Undisturbed, WorkerQuiet, Busy, presenterVars, callVars, surfaceVars,
       planeVars, frameVars, choiceVars, jobVars, workerVars, overlayVars
  <1>17. CASE SyncWorker
    BY <1>17 DEF SyncWorker, Awake, Held, Mine, MainHolds, WorkerPlace,
       Alone, Undisturbed, WorkerQuiet, Busy, presenterVars, callVars,
       surfaceVars, planeVars, frameVars, choiceVars, jobVars, workerVars,
       overlayVars
  <1>18. CASE Shutdown
    BY <1>18 DEF Shutdown, Held, Mine, MainHolds, WorkerPlace, Alone,
       Undisturbed, WorkerQuiet, Busy, presenterVars, callVars, surfaceVars,
       planeVars, frameVars, choiceVars, jobVars, workerVars, overlayVars
  <1>19. CASE StopWorker
    BY <1>19 DEF StopWorker, Wake, Awake, Held, Mine, MainHolds, WorkerPlace,
       Alone, Undisturbed, WorkerQuiet, Busy, presenterVars, callVars,
       surfaceVars, planeVars, frameVars, choiceVars, jobVars, workerVars,
       overlayVars
  <1>20. CASE JoinWorker
    BY <1>20 DEF JoinWorker, Held, Mine, MainHolds, WorkerPlace, Alone,
       Undisturbed, WorkerQuiet, Busy, presenterVars, callVars, surfaceVars,
       planeVars, frameVars, choiceVars, jobVars, workerVars, overlayVars
  <1>21. CASE Vblank
    BY <1>21 DEF Vblank, Held, Mine, MainHolds, WorkerPlace, Alone,
       Undisturbed, WorkerQuiet, Busy, presenterVars, callVars, surfaceVars,
       planeVars, frameVars, choiceVars, jobVars, workerVars, overlayVars
  <1>22. CASE DirectPresent
    BY <1>22 DEF DirectPresent, DrainDone, Held, Mine, MainHolds,
       WorkerPlace, Alone, Undisturbed, WorkerQuiet, Busy, presenterVars,
       callVars, surfaceVars, planeVars, frameVars, choiceVars, jobVars,
       workerVars, overlayVars
  <1>23. CASE DirectDisable
    BY <1>23 DEF DirectDisable, Choose, EndScanout, LessScanout, DrainDone,
       Held, Mine, MainHolds, WorkerPlace, Alone, Undisturbed, WorkerQuiet,
       Busy, presenterVars, callVars, surfaceVars, planeVars, frameVars,
       choiceVars, jobVars, workerVars, overlayVars
  <1>24. CASE SyncDone
    BY <1>24 DEF SyncDone, DrainDone, Drained, NothingPending, Held, Mine,
       MainHolds, WorkerPlace, Alone, Undisturbed, WorkerQuiet, Busy,
       presenterVars, callVars, surfaceVars, planeVars, frameVars,
       choiceVars, jobVars, workerVars, overlayVars
  <1>25. CASE Unload
    BY <1>25 DEF Unload, DrainDone, Held, Mine, MainHolds, WorkerPlace,
       Alone, Undisturbed, WorkerQuiet, Busy, presenterVars, callVars,
       surfaceVars, planeVars, frameVars, choiceVars, jobVars, workerVars,
       overlayVars
  <1>26. CASE DeinitRelease
    BY <1>26 DEF DeinitRelease, EndScanout, LessScanout, DrainDone, Held,
       Mine, MainHolds, WorkerPlace, Alone, Undisturbed, WorkerQuiet, Busy,
       presenterVars, callVars, surfaceVars, planeVars, frameVars,
       choiceVars, jobVars, workerVars, overlayVars
  <1>27. CASE WorkerPosting \/ WorkerPosted
    BY <1>27, PostTouches DEF WorkerPosting, WorkerPosted, Held, Mine,
       MainHolds, WorkerPlace, Alone, Undisturbed, WorkerQuiet, Busy,
       surfaceVars, planeVars, frameVars, choiceVars, jobVars, workerVars,
       overlayVars
  <1>28. CASE MainPosting \/ MainPosted
    BY <1>28, PostTouches DEF MainPosting, MainPosted, Held, Mine, MainHolds,
       WorkerPlace, Alone, Undisturbed, WorkerQuiet, Busy, surfaceVars,
       planeVars, frameVars, choiceVars, jobVars, workerVars, overlayVars
  <1>29. CASE MainDrain \/ RenderThread \/ Gone \/ UNCHANGED vars
    <2>1. UNCHANGED videoVars /\ cpc' = cpc /\ (pending = 0 => pending' = 0)
      BY <1>29 DEF MainDrain, DrainSleep, RenderThread, Render, RenderWait,
         RenderCheck, RenderPop, RenderFlip, RenderSettle, RenderRecycle,
         RenderPost, RenderQuit, Gone, vars, presenterVars, callVars
    <2> QED
      BY <2>1 DEF videoVars, Held, Mine, MainHolds, WorkerPlace, Alone,
         Undisturbed, WorkerQuiet, Busy, surfaceVars, planeVars, frameVars,
         choiceVars, jobVars, workerVars, overlayVars
  <1>30. CASE DeinitDestroy
    BY <1>30 DEF DeinitDestroy, Destroying, Terminate, WakeRender, Release,
       Goto, Held, Mine, MainHolds, WorkerPlace, Alone, Undisturbed,
       WorkerQuiet, Busy, surfaceVars, planeVars, frameVars, choiceVars,
       jobVars, workerVars, overlayVars
  <1> QED
    BY <1>1, <1>2, <1>3, <1>4, <1>5, <1>6, <1>7, <1>8, <1>9, <1>10, <1>11,
       <1>12, <1>13, <1>14, <1>15, <1>16, <1>17, <1>18, <1>19, <1>20, <1>21,
       <1>22, <1>23, <1>24, <1>25, <1>26, <1>27, <1>28, <1>29, <1>30
    DEF Next, Main, Worker, Refresh, Between

LEMMA BasesStep ==
  ASSUME VideoAssumption, PresenterInv, PipelineInv, VideoTypes,
         WorkerPlace, Alone, Held, Bases, [Next]_vars
  PROVE  Bases'
  <1>a. /\ {"main", "worker"} = Callers /\ None \notin Surfaces
        /\ DOMAIN cpc = Callers /\ DOMAIN shot = Callers
        /\ terminating => mpc \in {"destroy", "gone"}
        /\ ~started => wpc \in {"none", "dead"}
        /\ gles \in Surfaces \cup {None} /\ job \in Surfaces \cup {None}
        /\ wjob \in Surfaces \cup {None} /\ scanout \in Surfaces \cup {None}
        /\ MainHolds => gles # None
    BY DEF VideoAssumption, PipelineInv, VideoTypes, SurfaceTypes,
           OverlayTypes
  <1> USE <1>a
  <1>1. CASE WorkerSleep
    BY <1>1 DEF WorkerSleep, Awake, Bases, Mine, MainHolds, Held,
       WorkerPlace, Alone, Undisturbed, WorkerQuiet, Busy, presenterVars,
       callVars, surfaceVars, planeVars, frameVars, choiceVars, jobVars,
       workerVars, overlayVars
  <1>2. CASE WorkerTake
    BY <1>2 DEF WorkerTake, Wake, Awake, Bases, Mine, MainHolds, Held,
       WorkerPlace, Alone, Undisturbed, WorkerQuiet, Busy, presenterVars,
       callVars, surfaceVars, planeVars, frameVars, choiceVars, jobVars,
       workerVars, overlayVars
  <1>3. CASE WorkerExit
    BY <1>3 DEF WorkerExit, Awake, Bases, Mine, MainHolds, Held, WorkerPlace,
       Alone, Undisturbed, WorkerQuiet, Busy, presenterVars, callVars,
       surfaceVars, planeVars, frameVars, choiceVars, jobVars, workerVars,
       overlayVars
  <1>4. CASE WorkerRefresh
    BY <1>4 DEF WorkerRefresh, Compose, Base, Bases, Mine, MainHolds, Held,
       WorkerPlace, Alone, Undisturbed, WorkerQuiet, Busy, presenterVars,
       callVars, surfaceVars, planeVars, frameVars, choiceVars, jobVars,
       workerVars, overlayVars
  <1>5. CASE WorkerUnlock
    BY <1>5 DEF WorkerUnlock, Bases, Mine, MainHolds, Held, WorkerPlace,
       Alone, Undisturbed, WorkerQuiet, Busy, presenterVars, callVars,
       surfaceVars, planeVars, frameVars, choiceVars, jobVars, workerVars,
       overlayVars
  <1>6. CASE WorkerSettle
    BY <1>6 DEF WorkerSettle, Notified, Bases, Mine, MainHolds, Held,
       WorkerPlace, Alone, Undisturbed, WorkerQuiet, Busy, presenterVars,
       callVars, surfaceVars, planeVars, frameVars, choiceVars, jobVars,
       workerVars, overlayVars
  <1>7. CASE MainSleep
    BY <1>7 DEF MainSleep, Awake, HasSpace, Bases, Mine, MainHolds, Held,
       WorkerPlace, Alone, Undisturbed, WorkerQuiet, Busy, presenterVars,
       callVars, surfaceVars, planeVars, frameVars, choiceVars, jobVars,
       workerVars, overlayVars
  <1>8. CASE Callback
    BY <1>8 DEF Callback, Bases, Mine, MainHolds, Held, WorkerPlace, Alone,
       Undisturbed, WorkerQuiet, Busy, presenterVars, callVars, surfaceVars,
       planeVars, frameVars, choiceVars, jobVars, workerVars, overlayVars
  <1>9. CASE DirectDrain
    BY <1>9 DEF DirectDrain, Awake, Bases, Mine, MainHolds, Held,
       WorkerPlace, Alone, Undisturbed, WorkerQuiet, Busy, presenterVars,
       callVars, surfaceVars, planeVars, frameVars, choiceVars, jobVars,
       workerVars, overlayVars
  <1>10. CASE DirectSettle
    BY <1>10 DEF DirectSettle, LessScanout, Bases, Mine, MainHolds, Held,
       WorkerPlace, Alone, Undisturbed, WorkerQuiet, Busy, presenterVars,
       callVars, surfaceVars, planeVars, frameVars, choiceVars, jobVars,
       workerVars, overlayVars
  <1>11. CASE Fallback
    BY <1>11 DEF Fallback, Choose, Bases, Mine, MainHolds, Held, WorkerPlace,
       Alone, Undisturbed, WorkerQuiet, Busy, presenterVars, callVars,
       surfaceVars, planeVars, frameVars, choiceVars, jobVars, workerVars,
       overlayVars
  <1>12. CASE Submit
    BY <1>12 DEF Submit, Wake, Awake, HasSpace, Bases, Mine, MainHolds, Held,
       WorkerPlace, Alone, Undisturbed, WorkerQuiet, Busy, presenterVars,
       callVars, surfaceVars, planeVars, frameVars, choiceVars, jobVars,
       workerVars, overlayVars
  <1>13. CASE Plain
    BY <1>13 DEF Plain, Compose, Base, Awake, Bases, Mine, MainHolds, Held,
       WorkerPlace, Alone, Undisturbed, WorkerQuiet, Busy, presenterVars,
       callVars, surfaceVars, planeVars, frameVars, choiceVars, jobVars,
       workerVars, overlayVars
  <1>14. CASE MainUnlock
    BY <1>14 DEF MainUnlock, Bases, Mine, MainHolds, Held, WorkerPlace,
       Alone, Undisturbed, WorkerQuiet, Busy, presenterVars, callVars,
       surfaceVars, planeVars, frameVars, choiceVars, jobVars, workerVars,
       overlayVars
  <1>15. CASE Change
    BY <1>15 DEF Change, Bases, Mine, MainHolds, Held, WorkerPlace, Alone,
       Undisturbed, WorkerQuiet, Busy, presenterVars, callVars, surfaceVars,
       planeVars, frameVars, choiceVars, jobVars, workerVars, overlayVars
  <1>16. CASE SyncStart
    BY <1>16 DEF SyncStart, Bases, Mine, MainHolds, Held, WorkerPlace, Alone,
       Undisturbed, WorkerQuiet, Busy, presenterVars, callVars, surfaceVars,
       planeVars, frameVars, choiceVars, jobVars, workerVars, overlayVars
  <1>17. CASE SyncWorker
    BY <1>17 DEF SyncWorker, Awake, Bases, Mine, MainHolds, Held,
       WorkerPlace, Alone, Undisturbed, WorkerQuiet, Busy, presenterVars,
       callVars, surfaceVars, planeVars, frameVars, choiceVars, jobVars,
       workerVars, overlayVars
  <1>18. CASE Shutdown
    BY <1>18 DEF Shutdown, Bases, Mine, MainHolds, Held, WorkerPlace, Alone,
       Undisturbed, WorkerQuiet, Busy, presenterVars, callVars, surfaceVars,
       planeVars, frameVars, choiceVars, jobVars, workerVars, overlayVars
  <1>19. CASE StopWorker
    BY <1>19 DEF StopWorker, Wake, Awake, Bases, Mine, MainHolds, Held,
       WorkerPlace, Alone, Undisturbed, WorkerQuiet, Busy, presenterVars,
       callVars, surfaceVars, planeVars, frameVars, choiceVars, jobVars,
       workerVars, overlayVars
  <1>20. CASE JoinWorker
    BY <1>20 DEF JoinWorker, Bases, Mine, MainHolds, Held, WorkerPlace,
       Alone, Undisturbed, WorkerQuiet, Busy, presenterVars, callVars,
       surfaceVars, planeVars, frameVars, choiceVars, jobVars, workerVars,
       overlayVars
  <1>21. CASE Vblank
    BY <1>21 DEF Vblank, Bases, Mine, MainHolds, Held, WorkerPlace, Alone,
       Undisturbed, WorkerQuiet, Busy, presenterVars, callVars, surfaceVars,
       planeVars, frameVars, choiceVars, jobVars, workerVars, overlayVars
  <1>22. CASE DirectPresent
    BY <1>22 DEF DirectPresent, DrainDone, Bases, Mine, MainHolds, Held,
       WorkerPlace, Alone, Undisturbed, WorkerQuiet, Busy, presenterVars,
       callVars, surfaceVars, planeVars, frameVars, choiceVars, jobVars,
       workerVars, overlayVars
  <1>23. CASE DirectDisable
    BY <1>23 DEF DirectDisable, Choose, EndScanout, LessScanout, DrainDone,
       Bases, Mine, MainHolds, Held, WorkerPlace, Alone, Undisturbed,
       WorkerQuiet, Busy, presenterVars, callVars, surfaceVars, planeVars,
       frameVars, choiceVars, jobVars, workerVars, overlayVars
  <1>24. CASE SyncDone
    BY <1>24 DEF SyncDone, DrainDone, Drained, NothingPending, Bases, Mine,
       MainHolds, Held, WorkerPlace, Alone, Undisturbed, WorkerQuiet, Busy,
       presenterVars, callVars, surfaceVars, planeVars, frameVars,
       choiceVars, jobVars, workerVars, overlayVars
  <1>25. CASE Unload
    BY <1>25 DEF Unload, DrainDone, Bases, Mine, MainHolds, Held,
       WorkerPlace, Alone, Undisturbed, WorkerQuiet, Busy, presenterVars,
       callVars, surfaceVars, planeVars, frameVars, choiceVars, jobVars,
       workerVars, overlayVars
  <1>26. CASE DeinitRelease
    BY <1>26 DEF DeinitRelease, EndScanout, LessScanout, DrainDone, Bases,
       Mine, MainHolds, Held, WorkerPlace, Alone, Undisturbed, WorkerQuiet,
       Busy, presenterVars, callVars, surfaceVars, planeVars, frameVars,
       choiceVars, jobVars, workerVars, overlayVars
  <1>27. CASE WorkerPosting \/ WorkerPosted
    BY <1>27, PostTouches DEF WorkerPosting, WorkerPosted, Bases, Mine,
       MainHolds, Held, WorkerPlace, Alone, Undisturbed, WorkerQuiet, Busy,
       surfaceVars, planeVars, frameVars, choiceVars, jobVars, workerVars,
       overlayVars
  <1>28. CASE MainPosting \/ MainPosted
    BY <1>28, PostTouches DEF MainPosting, MainPosted, Bases, Mine, MainHolds,
       Held, WorkerPlace, Alone, Undisturbed, WorkerQuiet, Busy, surfaceVars,
       planeVars, frameVars, choiceVars, jobVars, workerVars, overlayVars
  <1>29. CASE MainDrain \/ RenderThread \/ Gone \/ UNCHANGED vars
    <2>1. UNCHANGED videoVars /\ cpc' = cpc /\ (pending = 0 => pending' = 0)
      BY <1>29 DEF MainDrain, DrainSleep, RenderThread, Render, RenderWait,
         RenderCheck, RenderPop, RenderFlip, RenderSettle, RenderRecycle,
         RenderPost, RenderQuit, Gone, vars, presenterVars, callVars
    <2> QED
      BY <2>1 DEF videoVars, Bases, Mine, MainHolds, Held, WorkerPlace,
         Alone, Undisturbed, WorkerQuiet, Busy, surfaceVars, planeVars,
         frameVars, choiceVars, jobVars, workerVars, overlayVars
  <1>30. CASE DeinitDestroy
    BY <1>30 DEF DeinitDestroy, Destroying, Terminate, WakeRender, Release,
       Goto, Bases, Mine, MainHolds, Held, WorkerPlace, Alone, Undisturbed,
       WorkerQuiet, Busy, surfaceVars, planeVars, frameVars, choiceVars,
       jobVars, workerVars, overlayVars
  <1> QED
    BY <1>1, <1>2, <1>3, <1>4, <1>5, <1>6, <1>7, <1>8, <1>9, <1>10, <1>11,
       <1>12, <1>13, <1>14, <1>15, <1>16, <1>17, <1>18, <1>19, <1>20, <1>21,
       <1>22, <1>23, <1>24, <1>25, <1>26, <1>27, <1>28, <1>29, <1>30
    DEF Next, Main, Worker, Refresh, Between

-----------------------------------------------------------------------------
(* The invariant, and what it gives.                                       *)

LEMMA SurfaceInvInit ==
  ASSUME VideoAssumption, PresenterAssumption, Init
  PROVE  SurfaceInv
  <1>1. VideoTypes
    BY TypeInit
  <1>2. NoneLost
    BY NoneLostInit DEF Init
  <1>3. Callers = {"main", "worker"}
    BY DEF VideoAssumption
  <1>4. WorkerPlace /\ Alone /\ Held /\ Bases
    BY <1>3 DEF WorkerPlace, Busy, Alone, Undisturbed, WorkerQuiet, Held, Mine,
       MainHolds, Bases, Init, PresenterInit
  <1> QED BY <1>1, <1>2, <1>4 DEF SurfaceInv

LEMMA SurfaceInvStep ==
  ASSUME VideoAssumption, PresenterAssumption, PresenterInv, PipelineInv,
         SurfaceInv, [Next]_vars
  PROVE  SurfaceInv'
  <1> USE DEF SurfaceInv
  <1>1. [PresenterNext]_presenterVars
    BY StepMaps
  <1>2. VideoTypes'
    BY <1>1, TypeStep DEF PresenterInv
  <1>3. NoneLost'
    BY <1>1, NoneLostStep
  <1>4. WorkerPlace' /\ Alone' /\ Held' /\ Bases'
    BY WorkerPlaceStep, AloneStep, HeldStep, BasesStep
  <1> QED BY <1>2, <1>3, <1>4

LEMMA SurfaceCorrect == Spec => [](PipelineInv /\ PresenterInv /\ SurfaceInv)
  <1>1. Init => SurfaceInv
    BY SurfaceInvInit, VideoAssumption, PresenterAssumption
  <1>2. PipelineInv /\ PresenterInv /\ SurfaceInv /\ [Next]_vars
          => SurfaceInv'
    BY SurfaceInvStep, VideoAssumption, PresenterAssumption
  <1> QED BY <1>1, <1>2, PipelineCorrect, PTL DEF Spec

\* Each holder holds a surface of its own, so there are as many.
LEMMA InvSurfacesOwned ==
  ASSUME VideoAssumption, SurfaceTypes, Held
  PROVE  SurfacesOwned
  <1>1. locked = {h[2] : h \in Holders}
    <2>1. \A h \in Holders : h[2] \in locked
      BY DEF Held, Holders, Mine
    <2>2. ASSUME NEW s \in locked PROVE \E h \in Holders : h[2] = s
      <3> DEFINE all == { <<"job", job>>, <<"worker", wjob>>,
                          <<"scanout", scanout>>, <<"main", Mine>> }
      <3>1. PICK h \in all : h[2] = s
        BY <2>2 DEF Held
      <3>2. s # None
        BY <2>2 DEF Held
      <3>3. Holders = {k \in all : k[2] # None}
        BY DEF Holders, Mine
      <3> HIDE DEF all
      <3> QED BY <3>1, <3>2, <3>3
    <2> QED BY <2>1, <2>2
  <1>2. \A h, k \in Holders : h[2] = k[2] => h = k
    BY DEF Held, Holders, Mine
  <1> DEFINE surface == [h \in Holders |-> h[2]]
  <1>3. surface \in Bijection(Holders, locked)
    BY <1>1, <1>2 DEF Bijection, Injection, Surjection, IsInjective
  <1>4. IsFiniteSet(locked)
    BY FS_Subset DEF SurfaceTypes, VideoAssumption
  <1>5. ExistsBijection(Holders, locked)
    BY <1>3 DEF ExistsBijection
  <1>6. ExistsBijection(locked, Holders)
    BY <1>5, Fun_ExistsBijSymmetric
  <1>7. Cardinality(locked) = Cardinality(Holders)
    BY <1>4, <1>6, FS_Bijection
  <1> QED BY <1>1, <1>7 DEF SurfacesOwned

\* Two are not three.
LEMMA LessOne ==
  ASSUME NEW S, NEW x, IsFiniteSet(S)
  PROVE  /\ IsFiniteSet(S \ {x}) /\ Cardinality(S \ {x}) \in Nat
         /\ Cardinality(S) \in Nat
         /\ Cardinality(S \ {x}) >= Cardinality(S) - 1
  <1>1. Cardinality(S) \in Nat
    BY FS_CardinalityType
  <1>2. /\ IsFiniteSet(S \ {x})
        /\ Cardinality(S \ {x}) =
             IF x \in S THEN Cardinality(S) - 1 ELSE Cardinality(S)
    BY FS_RemoveElement
  <1> DEFINE T == S \ {x}
  <1>3. IsFiniteSet(T) /\ Cardinality(T) >= Cardinality(S) - 1
    <2> DEFINE n == Cardinality(S)
               m == Cardinality(T)
    <2>1. n \in Nat /\ m = IF x \in S THEN n - 1 ELSE n
      BY <1>1, <1>2
    <2>2. IsFiniteSet(T)
      BY <1>2
    <2> HIDE DEF n, m
    <2>3. m >= n - 1
      BY <2>1
    <2> QED BY <2>2, <2>3 DEF n, m
  <1> HIDE DEF T
  <1>4. Cardinality(T) \in Nat
    BY <1>3, FS_CardinalityType
  <1> QED BY <1>1, <1>3, <1>4 DEF T

\* Between two frames at most two surfaces are held.
LEMMA InvPoolSuffices ==
  ASSUME VideoAssumption, SurfaceTypes, WorkerPlace, Alone, Held
  PROVE  PoolSuffices
  <1> SUFFICES ASSUME mpc = "idle", locked = Surfaces
               PROVE  FALSE
    BY DEF PoolSuffices
  <1>1. locked \subseteq {job, wjob} \/ locked \subseteq {scanout}
    BY DEF Alone, Undisturbed, WorkerQuiet, WorkerPlace, Busy, Held, Mine,
       MainHolds
  <1>2. PICK a, b : Surfaces \subseteq {a, b}
    BY <1>1
  <1> DEFINE rest == Surfaces \ {a}
             none == rest \ {b}
  <1>3. IsFiniteSet(Surfaces) /\ Cardinality(Surfaces) >= 3
    BY DEF VideoAssumption
  <1>4. /\ IsFiniteSet(rest) /\ Cardinality(rest) \in Nat
        /\ Cardinality(Surfaces) \in Nat
        /\ Cardinality(rest) >= Cardinality(Surfaces) - 1
    BY <1>3, LessOne
  <1>5. none = {}
    BY <1>2
  <1> HIDE DEF rest
  <1>6. /\ IsFiniteSet(none) /\ Cardinality(none) \in Nat
        /\ Cardinality(none) >= Cardinality(rest) - 1
    BY <1>4, LessOne
  <1> HIDE DEF none
  <1>7. Cardinality(none) = 0
    BY <1>5, FS_EmptySet
  <1> QED BY <1>3, <1>4, <1>6, <1>7

LEMMA InvBlitsLocked ==
  ASSUME VideoAssumption, PipelineInv, Alone, Held, Bases
  PROVE  BlitsLocked
  <1> SUFFICES ASSUME NEW t \in Callers, cpc[t] = "draw"
               PROVE  shot[t].base \in locked
    BY DEF BlitsLocked
  <1>1. CASE t = "worker"
    BY <1>1 DEF PipelineInv, Bases, Held
  <1>2. CASE t = "main"
    BY <1>2 DEF PipelineInv, VideoAssumption, Alone, Bases, Held, Mine,
       MainHolds
  <1> QED BY <1>1, <1>2 DEF VideoAssumption

\* Every locked surface has one holder that gives it back, there is always
\* one for the next swap, and none is read unlocked, for any pool of at least
\* BUFFER_MAX surfaces.
THEOREM SurfacesHold == Spec => []SurfacesAccounted
  <1>1. PipelineInv /\ PresenterInv /\ SurfaceInv => SurfacesAccounted
    BY TypesTogether, InvSurfacesOwned, InvPoolSuffices, InvBlitsLocked,
       VideoAssumption
    DEF SurfacesAccounted, SurfaceInv, VideoTypes, PresenterInv
  <1> QED BY <1>1, SurfaceCorrect, PTL

LEMMA InvSyncIsQuiet ==
  ASSUME VideoAssumption, PresenterAssumption, PipelineInv, PresenterInv,
         SurfaceInv
  PROVE  SyncIsQuiet
  <1> SUFFICES ASSUME mpc = "idle", synced
               PROVE  /\ job = None /\ ~inFlight
                      /\ \A t \in Callers : cpc[t] = "idle"
                      /\ usedQ = << >> /\ rpc \notin {"pop", "flip", "settle"}
    BY DEF SyncIsQuiet
  <1>1. job = None /\ ~inFlight /\ wpc # "post" /\ pending = 0
    BY DEF SurfaceInv, Alone, Undisturbed, WorkerQuiet, WorkerPlace, Busy
  <1>2. \A t \in Callers : cpc[t] = "idle"
    BY <1>1 DEF VideoAssumption, PipelineInv
  <1>3. ~terminating
    BY DEF PipelineInv
  <1>4. Len(usedQ) = 0 /\ rpc \notin {"flip", "settle"}
    BY <1>1, <1>3 DEF PresenterInv, Counts, One, PresenterTypes
  <1>5. usedQ = << >>
    BY <1>4 DEF PresenterInv, PresenterTypes
  <1>6. rpc # "pop"
    BY <1>5, InvNoMismatch DEF NoMismatch
  <1> QED BY <1>1, <1>2, <1>4, <1>5, <1>6

LEMMA InvNothingLeft ==
  ASSUME VideoAssumption, PipelineInv, SurfaceInv
  PROVE  NothingLeft
  <1> SUFFICES ASSUME mpc = "gone"
               PROVE  /\ locked = {} /\ released = Buffers
                      /\ rpc = "done" /\ wpc \in {"none", "dead"}
    BY DEF NothingLeft
  <1>1. job = None /\ wjob = None /\ scanout = None /\ Mine = None
    BY DEF SurfaceInv, Alone, Undisturbed, WorkerQuiet, WorkerPlace, Busy,
       Mine, MainHolds
  <1>2. locked = {}
    BY <1>1 DEF SurfaceInv, Held
  <1>3. released = Buffers /\ rpc = "done"
    BY DEF SurfaceInv, Alone, NoneLost, VideoAssumption
  <1> QED BY <1>2, <1>3 DEF PipelineInv

\* After a synchronisation nothing moves until the next frame, and a shutdown
\* leaves no surface locked, no buffer and no thread.
THEOREM QuietHolds == Spec => []QuietAfterwards
  <1>1. PipelineInv /\ PresenterInv /\ SurfaceInv => QuietAfterwards
    BY InvSyncIsQuiet, InvNothingLeft, VideoAssumption, PresenterAssumption
    DEF QuietAfterwards
  <1> QED BY <1>1, SurfaceCorrect, PTL

-----------------------------------------------------------------------------
(* The order of the frames.                                                *)

\* The buffers that are on the screen or on their way to it.
Shown == Elements(usedQ) \cup ({scan, dst} \ {None})
Above(n) == \A b \in Shown : drawn[b] < n

\* The presenter shows what it is given in the order it is given it ...
QueueOrder ==
  /\ \A i, j \in DOMAIN usedQ : i < j => drawn[usedQ[i]] < drawn[usedQ[j]]
  /\ \A b \in Elements(usedQ) : \A c \in {scan, dst} \ {None} :
       drawn[c] < drawn[b]
  /\ rpc = "flip" /\ scan # None => drawn[scan] < drawn[dst]

\* ... and is given the oldest frame first: main's is newer than the one that
\* waits, that one newer than the worker's, and this one than what is shown.
UnpostedMain == MainHolds /\ mpc # "unlock" /\ cpc["main"] # "signal"
UnpostedWorker ==
  \/ wpc = "refresh"
  \/ wpc = "post" /\ cpc["worker"] # "signal"
FrameOrder ==
  /\ Above(frame + 1)
  /\ MainHolds => content[gles] = frame
  /\ UnpostedMain => Above(frame)
  /\ UnpostedWorker => Above(content[wjob])
  /\ wjob # None =>
       content[wjob] <= frame /\ (MainHolds => content[wjob] < frame)
  /\ job # None =>
       /\ Above(content[job]) /\ content[job] <= frame
       /\ MainHolds => content[job] < frame
       /\ wjob # None => content[wjob] < content[job]
  /\ \A t \in Callers : cpc[t] = "push" => drawn[cbuf[t]] = Posted(t)

OrderInv == QueueOrder /\ FrameOrder

\* A caller between the blit and the push has something newer.
Newer == \A t \in Callers : cpc[t] = "push" => Above(drawn[cbuf[t]])

\* What a step leaves below a number ...
StaysBelow(n) == \A b \in Shown' : drawn'[b] < n

\* ... is what was below it, and what it adds.
LEMMA AboveStep ==
  ASSUME PresenterAssumption, PresenterInv, drawn \in [Buffers -> Nat],
         [PresenterNext]_presenterVars
  PROVE  \/ \A n : Above(n) => StaysBelow(n)
         \/ \E t \in Callers :
              /\ PushUsed(t)
              /\ \A n : Above(n) /\ drawn[cbuf[t]] < n => StaysBelow(n)
  <1> USE DEF PresenterInv, Above, StaysBelow
  <1>1. ASSUME Shown' \subseteq Shown, \A b \in Shown : drawn'[b] = drawn[b]
        PROVE  \A n : Above(n) => StaysBelow(n)
    BY <1>1
  <1>2. CASE UNCHANGED presenterVars
    BY <1>1, <1>2 DEF Shown, presenterVars, queueVars, renderVars
  <1>3. CASE RenderPop
    <2>1. /\ Head(usedQ) \in Elements(usedQ)
          /\ \A b : b \in Elements(Tail(usedQ)) => b \in Elements(usedQ)
      BY <1>3, PoppedQueue DEF RenderPop, PresenterTypes
    <2>2. Shown' \subseteq Shown /\ drawn' = drawn
      BY <1>3, <2>1 DEF RenderPop, Shown
    <2> QED BY <1>1, <2>2
  <1>4. CASE Render /\ ~RenderPop
    <2>1. usedQ' = usedQ /\ drawn' = drawn
          /\ {scan', dst'} \subseteq {scan, dst, None}
      BY <1>4 DEF Render, RenderWait, RenderCheck, RenderFlip, RenderSettle,
         RenderRecycle, RenderPost, RenderQuit, queueVars
    <2>2. Shown' \subseteq Shown
      BY <2>1 DEF Shown
    <2> QED BY <1>1, <2>1, <2>2
  <1>5. ASSUME NEW t \in Callers, PushUsed(t)
        PROVE  \A n : Above(n) /\ drawn[cbuf[t]] < n => StaysBelow(n)
    <2>1. cbuf[t] \in Buffers /\ usedQ \in Seq(Buffers)
      BY <1>5 DEF PushUsed, CallersApart, PresenterTypes
    <2>2. \A b : b \in Elements(usedQ') <=>
                  b \in Elements(usedQ) \/ b = cbuf[t]
      BY <1>5, <2>1, PushedQueue DEF PushUsed
    <2>3. drawn' = drawn /\ scan' = scan /\ dst' = dst
      BY <1>5 DEF PushUsed, renderVars
    <2> QED BY <2>2, <2>3 DEF Shown
  <1>6. ASSUME NEW t \in Callers, NEW picture, Draw(t, picture)
        PROVE  \A n : Above(n) => StaysBelow(n)
    <2>1. cbuf[t] \notin Shown
      BY <1>6, InvNoTearing DEF Draw, CallersApart, NoTearing, Shown
    <2>2. Shown' = Shown /\ \A b \in Shown : drawn'[b] = drawn[b]
      <3>1. UNCHANGED <<usedQ, scan, dst>>
        BY <1>6 DEF Draw, queueVars, renderVars
      <3>2. Shown \subseteq Buffers \/ \A b \in Shown : b # cbuf[t]
        BY <2>1
      <3>3. Shown' = Shown
        BY <3>1 DEF Shown
      <3>4. drawn' = [drawn EXCEPT ![cbuf[t]] = picture]
        BY <1>6 DEF Draw
      <3> QED BY <2>1, <3>3, <3>4
    <2> QED BY <1>1, <2>2
  <1>7. ASSUME NEW t \in Callers, Release(t)
        PROVE  \A n : Above(n) => StaysBelow(n)
    <2>1. Elements(usedQ') = {} /\ UNCHANGED <<drawn, scan, dst>>
      BY <1>7 DEF Release, Elements, renderVars
    <2>2. Shown' \subseteq Shown
      BY <2>1 DEF Shown
    <2> QED BY <1>1, <2>1, <2>2
  <1>8. ASSUME NEW t \in Callers,
               \/ PostWait(t) \/ PostGranted(t) \/ PostTry(t)
               \/ PostRejected(t) \/ PopFree(t) \/ PostDone(t)
               \/ DrainSleep(t) \/ DrainDone(t) \/ Terminate(t)
               \/ WakeRender(t)
        PROVE  \A n : Above(n) => StaysBelow(n)
    <2>1. UNCHANGED <<usedQ, drawn, scan, dst>>
      BY <1>8 DEF PostWait, PostTry, PostGranted, Reserve, PostRejected,
         PopFree, PostDone, DrainSleep, DrainDone, Terminate, WakeRender,
         presenterVars, queueVars, renderVars
    <2>2. Shown' = Shown
      BY <2>1 DEF Shown
    <2> QED BY <1>1, <2>1, <2>2
  <1> QED BY <1>2, <1>3, <1>4, <1>5, <1>6, <1>7, <1>8
          DEF PresenterNext, Posting, Destroying

LEMMA QueueOrderStep ==
  ASSUME PresenterAssumption, PresenterInv, drawn \in [Buffers -> Nat],
         QueueOrder, Newer, [PresenterNext]_presenterVars
  PROVE  QueueOrder'
  <1> USE DEF PresenterInv
  <1>0. /\ usedQ \in Seq(Buffers) /\ None \notin Buffers
        /\ Len(usedQ) \in Nat /\ DOMAIN usedQ = 1..Len(usedQ)
        /\ \A i \in 1..Len(usedQ) : usedQ[i] \in Buffers
        /\ \A b \in Buffers : drawn[b] \in Int
    BY DEF PresenterTypes, PresenterAssumption
  <1>1. ASSUME UNCHANGED <<usedQ, drawn>>,
               {scan', dst'} \subseteq {scan, dst, None},
               rpc' = "flip" => rpc = "flip" /\ scan' = scan /\ dst' = dst
        PROVE  QueueOrder'
    BY <1>1 DEF QueueOrder
  <1>2. CASE UNCHANGED presenterVars
    BY <1>1, <1>2 DEF presenterVars, queueVars, renderVars
  <1>3. CASE RenderPop
    <2>1. /\ usedQ # << >> /\ usedQ' = Tail(usedQ) /\ dst' = Head(usedQ)
          /\ UNCHANGED <<drawn, scan>>
      BY <1>3 DEF RenderPop
    <2>2. /\ Len(usedQ) > 0 /\ DOMAIN usedQ' = 1..(Len(usedQ) - 1)
          /\ \A i \in 1..(Len(usedQ) - 1) : usedQ'[i] = usedQ[i + 1]
          /\ dst' = usedQ[1]
      BY <1>0, <2>1
    <2>3. \A i, j \in DOMAIN usedQ' : i < j =>
            drawn'[usedQ'[i]] < drawn'[usedQ'[j]]
      BY <1>0, <2>1, <2>2 DEF QueueOrder
    <2>4. \A i \in DOMAIN usedQ' : drawn[usedQ[1]] < drawn[usedQ'[i]]
      <3> SUFFICES ASSUME NEW i \in 1..(Len(usedQ) - 1)
                   PROVE  drawn[usedQ[1]] < drawn[usedQ[i + 1]]
        BY <2>2
      <3>1. 1 \in 1..Len(usedQ) /\ i + 1 \in 1..Len(usedQ) /\ 1 < i + 1
        BY <1>0, <2>2
      <3> QED BY <1>0, <3>1 DEF QueueOrder
    <2>5. /\ usedQ[1] \in Elements(usedQ)
          /\ \A i \in DOMAIN usedQ' : usedQ'[i] \in Elements(usedQ)
      BY <1>0, <2>1, <2>2, PoppedQueue DEF Elements
    <2>6. scan # None =>
            /\ drawn[scan] < drawn[usedQ[1]]
            /\ \A i \in DOMAIN usedQ' : drawn[scan] < drawn[usedQ'[i]]
      BY <2>5 DEF QueueOrder
    <2> QED BY <2>1, <2>2, <2>3, <2>4, <2>6 DEF QueueOrder, Elements
  <1>4. CASE Render /\ ~RenderPop
    <2>1. /\ UNCHANGED <<usedQ, drawn>>
          /\ {scan', dst'} \subseteq {scan, dst, None}
          /\ rpc' # "flip"
      BY <1>4 DEF Render, RenderWait, RenderCheck, RenderFlip, RenderSettle,
         RenderRecycle, RenderPost, RenderQuit, queueVars
    <2> QED BY <1>1, <2>1
  <1>5. ASSUME NEW t \in Callers, PushUsed(t)
        PROVE  QueueOrder'
    <2> DEFINE x == cbuf[t]
    <2>1. /\ x \in Buffers /\ usedQ' = Append(usedQ, x)
          /\ UNCHANGED <<drawn, scan, dst, rpc>>
          /\ \A b \in Shown : drawn[b] < drawn[x]
      BY <1>5 DEF PushUsed, CallersApart, PresenterTypes, renderVars, Newer,
         Above
    <2> HIDE DEF x
    <2>2. /\ DOMAIN usedQ' = 1..(Len(usedQ) + 1)
          /\ \A i \in 1..Len(usedQ) : usedQ'[i] = usedQ[i]
          /\ usedQ'[Len(usedQ) + 1] = x
      BY <1>0, <2>1
    <2>3. \A b : b \in Elements(usedQ') <=> b \in Elements(usedQ) \/ b = x
      BY <1>0, <2>1, PushedQueue
    <2>4. ASSUME NEW i \in DOMAIN usedQ', NEW j \in DOMAIN usedQ', i < j
          PROVE  drawn[usedQ'[i]] < drawn[usedQ'[j]]
      <3>1. i \in 1..Len(usedQ) /\ usedQ'[i] = usedQ[i]
        BY <1>0, <2>2, <2>4
      <3>2. CASE j = Len(usedQ) + 1
        <4>1. usedQ[i] \in Shown
          BY <1>0, <3>1 DEF Shown, Elements
        <4> QED BY <2>1, <2>2, <3>1, <3>2, <4>1
      <3>3. CASE j # Len(usedQ) + 1
        <4>1. j \in 1..Len(usedQ) /\ usedQ'[j] = usedQ[j]
          BY <1>0, <2>2, <3>3
        <4> QED BY <1>0, <2>4, <3>1, <4>1 DEF QueueOrder
      <3> QED BY <3>2, <3>3
    <2>5. ASSUME NEW b \in Elements(usedQ'), NEW c \in {scan, dst} \ {None}
          PROVE  drawn[c] < drawn[b]
      BY <2>1, <2>3, <2>5 DEF QueueOrder, Shown
    <2> QED BY <2>1, <2>4, <2>5 DEF QueueOrder
  <1>6. ASSUME NEW t \in Callers, NEW picture, Draw(t, picture)
        PROVE  QueueOrder'
    <2>1. cbuf[t] \notin Shown
      BY <1>6, InvNoTearing DEF Draw, CallersApart, NoTearing, Shown
    <2>2. \A b : b # cbuf[t] => drawn'[b] = drawn[b]
      BY <1>6 DEF Draw
    <2>3. /\ UNCHANGED <<usedQ, scan, dst, rpc>>
          /\ rpc = "flip" => dst # None
      BY <1>6 DEF Draw, queueVars, renderVars, RenderApart
    <2>4. \A i \in DOMAIN usedQ : drawn'[usedQ[i]] = drawn[usedQ[i]]
      BY <2>1, <2>2 DEF Shown, Elements
    <2>5. \A b \in Elements(usedQ) : drawn'[b] = drawn[b]
      BY <2>1, <2>2 DEF Shown
    <2>6. \A c \in {scan, dst} \ {None} : drawn'[c] = drawn[c]
      BY <2>1, <2>2 DEF Shown
    <2> QED BY <2>3, <2>4, <2>5, <2>6 DEF QueueOrder
  <1>7. ASSUME NEW t \in Callers, Release(t)
        PROVE  QueueOrder'
    <2>1. /\ DOMAIN usedQ' = {} /\ Elements(usedQ') = {}
          /\ rpc' # "flip"
      BY <1>7 DEF Release, Elements, renderVars
    <2> QED BY <2>1 DEF QueueOrder
  <1>8. ASSUME NEW t \in Callers,
               \/ PostWait(t) \/ PostGranted(t) \/ PostTry(t)
               \/ PostRejected(t) \/ PopFree(t) \/ PostDone(t)
               \/ DrainSleep(t) \/ DrainDone(t) \/ Terminate(t)
               \/ WakeRender(t)
        PROVE  QueueOrder'
    <2>1. UNCHANGED <<usedQ, drawn, scan, dst, rpc>>
      BY <1>8 DEF PostWait, PostTry, PostGranted, Reserve, PostRejected,
         PopFree, PostDone, DrainSleep, DrainDone, Terminate, WakeRender,
         presenterVars, queueVars, renderVars
    <2> QED BY <1>1, <2>1
  <1> QED BY <1>2, <1>3, <1>4, <1>5, <1>6, <1>7, <1>8
          DEF PresenterNext, Posting, Destroying

\* What a post does to the order: its push is the only step that shows more.
LEMMA PostOrder ==
  ASSUME PresenterAssumption, PresenterInv, drawn \in [Buffers -> Nat],
         NEW t \in Callers, PostStep(t) \/ PostEnd(t),
         [PresenterNext]_presenterVars,
         \A u \in Callers : cpc[u] = "push" => drawn[cbuf[u]] = Posted(u)
  PROVE  /\ \/ \A n : Above(n) => StaysBelow(n)
            \/ /\ cpc[t] = "push" /\ cpc'[t] = "signal"
               /\ \A n : Above(n) /\ Posted(t) < n => StaysBelow(n)
         /\ PostStep(t) => cpc[t] # "signal"
         /\ \A u \in Callers : cpc'[u] = "push" => drawn'[cbuf'[u]] = Posted(u)
  <1>1. DOMAIN cpc = Callers /\ DOMAIN cbuf = Callers
    BY DEF PresenterInv, PresenterTypes
  <1>2. \A u \in Callers \ {t} : cpc'[u] = cpc[u]
    BY <1>1, PostTouches
  <1>3. \A u \in Callers : PushUsed(u) => cpc[u] = "push" /\ cpc'[u] = "signal"
    BY <1>1 DEF PushUsed, Goto
  <1>4. \A u \in Callers : PushUsed(u) => u = t
    BY <1>2, <1>3
  <1>5. \/ \A n : Above(n) => StaysBelow(n)
        \/ /\ cpc[t] = "push" /\ cpc'[t] = "signal"
           /\ \A n : Above(n) /\ Posted(t) < n => StaysBelow(n)
    BY <1>3, <1>4, AboveStep
  <1>6. PostStep(t) => cpc[t] # "signal"
    BY DEF PostStep, PostWait, PostTry, PostGranted, Reserve, PopFree, Draw,
       PushUsed
  <1>7. ASSUME NEW u \in Callers, cpc'[u] = "push"
        PROVE  drawn'[cbuf'[u]] = Posted(u)
    <2>1. CASE Draw(t, Posted(t))
      <3>1. /\ drawn' = [drawn EXCEPT ![cbuf[t]] = Posted(t)]
            /\ cbuf' = cbuf /\ cbuf[t] \in Buffers /\ DOMAIN drawn = Buffers
        BY <2>1 DEF Draw, PresenterInv, PresenterTypes, CallersApart
      <3>2. CASE u = t
        BY <3>1, <3>2
      <3>3. CASE u # t
        <4>1. cpc[u] = "push" /\ cbuf[u] # cbuf[t]
          BY <1>2, <1>7, <3>1, <3>3, PresenterAssumption
          DEF PresenterInv, CallersApart, PresenterAssumption
        <4> QED BY <3>1, <4>1
      <3> QED BY <3>2, <3>3
    <2>2. CASE ~Draw(t, Posted(t))
      <3>1. drawn' = drawn /\ \A v \in Callers \ {t} : cbuf'[v] = cbuf[v]
        BY <1>1, <2>2 DEF PostStep, PostEnd, PostWait, PostTry, PostGranted,
           Reserve, PopFree, PushUsed, PostDone, PostRejected, presenterVars,
           callVars
      <3>2. cpc'[t] # "push"
        BY <1>1, <2>2 DEF PostStep, PostEnd, PostWait, PostTry, PostGranted,
           Reserve, PopFree, PushUsed, PostDone, PostRejected, Goto,
           presenterVars, callVars
      <3> QED BY <1>2, <1>7, <3>1, <3>2
    <2> QED BY <2>1, <2>2
  <1> QED BY <1>5, <1>6, <1>7

LEMMA FrameOrderNewer ==
  ASSUME VideoAssumption, PipelineInv, PresenterInv, WorkerPlace, Alone,
         FrameOrder
  PROVE  Newer
  <1> SUFFICES ASSUME NEW t \in Callers, cpc[t] = "push"
               PROVE  Above(drawn[cbuf[t]])
    BY DEF Newer
  <1>1. drawn[cbuf[t]] = Posted(t)
    BY DEF FrameOrder
  <1>2. CASE t = "worker"
    BY <1>1, <1>2 DEF FrameOrder, PipelineInv, UnpostedWorker, Posted
  <1>3. CASE t = "main"
    BY <1>1, <1>3 DEF FrameOrder, PipelineInv, UnpostedMain, MainHolds,
       Posted, VideoAssumption, Alone
  <1> QED BY <1>2, <1>3 DEF VideoAssumption

LEMMA FrameOrderStep ==
  ASSUME VideoAssumption, PresenterAssumption, PresenterInv, PipelineInv,
         VideoTypes, WorkerPlace, Alone, Held, FrameOrder, [Next]_vars
  PROVE  FrameOrder'
  <1>1. /\ {"main", "worker"} = Callers /\ None \notin Surfaces
        /\ DOMAIN cpc = Callers /\ DOMAIN content = Surfaces
        /\ \A s \in Surfaces : content[s] \in Int
        /\ frame \in Int /\ MaxFrames \in Int
        /\ gles \in Surfaces \cup {None} /\ job \in Surfaces \cup {None}
        /\ wjob \in Surfaces \cup {None} /\ scanout \in Surfaces \cup {None}
        /\ MainHolds => gles # None
        /\ cpc["worker"] # "idle" => wpc = "post"
        /\ cpc["main"] # "idle" => mpc \in {"post", "destroy", "gone"}
    BY DEF VideoAssumption, PipelineInv, VideoTypes, SurfaceTypes
  <1>2. \A b \in Shown : drawn[b] \in Int
    BY DEF Shown, VideoTypes, OverlayTypes, SurfaceTypes, VideoAssumption,
       PresenterInv, PresenterTypes, Elements
  <1> USE <1>1
  <1>3. CASE \/ WorkerSleep \/ WorkerTake \/ WorkerExit \/ WorkerRefresh
             \/ WorkerUnlock \/ WorkerSettle \/ MainSleep \/ Callback
             \/ DirectDrain \/ DirectSettle \/ Fallback \/ Submit
             \/ Plain \/ MainUnlock \/ Change \/ SyncStart
             \/ SyncWorker \/ Shutdown \/ StopWorker \/ JoinWorker
             \/ Vblank \/ DirectPresent \/ DirectDisable \/ SyncDone
             \/ Unload \/ DeinitRelease
    <2>0. UNCHANGED presenterVars
      <3>1. CASE \/ WorkerSleep \/ WorkerTake \/ WorkerExit \/ WorkerRefresh
                 \/ WorkerUnlock \/ WorkerSettle \/ MainSleep \/ Callback
                 \/ DirectDrain
        BY <3>1 DEF WorkerSleep, WorkerTake, WorkerExit, WorkerRefresh,
           WorkerUnlock, WorkerSettle, MainSleep, Callback, DirectDrain,
           DrainDone
      <3>2. CASE \/ DirectSettle \/ Fallback \/ Submit \/ Plain
                 \/ MainUnlock \/ Change \/ SyncStart \/ SyncWorker
                 \/ Shutdown
        BY <3>2 DEF DirectSettle, Fallback, Submit, Plain, MainUnlock,
           Change, SyncStart, SyncWorker, Shutdown, DrainDone
      <3>3. CASE \/ StopWorker \/ JoinWorker \/ Vblank \/ DirectPresent
                 \/ DirectDisable \/ SyncDone \/ Unload \/ DeinitRelease
        BY <3>3 DEF StopWorker, JoinWorker, Vblank, DirectPresent,
           DirectDisable, SyncDone, Unload, DeinitRelease, DrainDone
      <3> QED BY <1>3, <3>1, <3>2, <3>3
    <2> /\ Shown' = Shown /\ drawn' = drawn /\ cpc' = cpc /\ cbuf' = cbuf
      BY <2>0 DEF Shown, presenterVars, queueVars, renderVars, callVars
    <2> /\ \A m : Above(m) => \A b \in Shown' : drawn'[b] < m
        /\ \A m, k \in Int : Above(m) /\ m <= k =>
             \A b \in Shown' : drawn'[b] < k
      BY <1>2 DEF Above
    <2> USE DEF Above
    <2>1. CASE WorkerSleep
      BY <2>1 DEF WorkerSleep, Awake, FrameOrder, UnpostedMain,
         UnpostedWorker, MainHolds, Posted, Busy, WorkerPlace, Alone,
         Undisturbed, WorkerQuiet, Held, Mine, surfaceVars, planeVars,
         frameVars, choiceVars, jobVars, workerVars, overlayVars
    <2>2. CASE WorkerTake
      BY <2>2 DEF WorkerTake, Wake, Awake, FrameOrder, UnpostedMain,
         UnpostedWorker, MainHolds, Posted, Busy, WorkerPlace, Alone,
         Undisturbed, WorkerQuiet, Held, Mine, surfaceVars, planeVars,
         frameVars, choiceVars, jobVars, workerVars, overlayVars
    <2>3. CASE WorkerExit
      BY <2>3 DEF WorkerExit, Awake, FrameOrder, UnpostedMain,
         UnpostedWorker, MainHolds, Posted, Busy, WorkerPlace, Alone,
         Undisturbed, WorkerQuiet, Held, Mine, surfaceVars, planeVars,
         frameVars, choiceVars, jobVars, workerVars, overlayVars
    <2>4. CASE WorkerRefresh
      BY <2>4 DEF WorkerRefresh, Compose, Base, FrameOrder, UnpostedMain,
         UnpostedWorker, MainHolds, Posted, Busy, WorkerPlace, Alone,
         Undisturbed, WorkerQuiet, Held, Mine, surfaceVars, planeVars,
         frameVars, choiceVars, jobVars, workerVars, overlayVars
    <2>5. CASE WorkerUnlock
      BY <2>5 DEF WorkerUnlock, FrameOrder, UnpostedMain, UnpostedWorker,
         MainHolds, Posted, Busy, WorkerPlace, Alone, Undisturbed,
         WorkerQuiet, Held, Mine, surfaceVars, planeVars, frameVars,
         choiceVars, jobVars, workerVars, overlayVars
    <2>6. CASE WorkerSettle
      BY <2>6 DEF WorkerSettle, Notified, FrameOrder, UnpostedMain,
         UnpostedWorker, MainHolds, Posted, Busy, WorkerPlace, Alone,
         Undisturbed, WorkerQuiet, Held, Mine, surfaceVars, planeVars,
         frameVars, choiceVars, jobVars, workerVars, overlayVars
    <2>7. CASE MainSleep
      BY <2>7 DEF MainSleep, Awake, HasSpace, FrameOrder, UnpostedMain,
         UnpostedWorker, MainHolds, Posted, Busy, WorkerPlace, Alone,
         Undisturbed, WorkerQuiet, Held, Mine, surfaceVars, planeVars,
         frameVars, choiceVars, jobVars, workerVars, overlayVars
    <2>8. CASE Callback
      BY <2>8 DEF Callback, FrameOrder, UnpostedMain, UnpostedWorker,
         MainHolds, Posted, Busy, WorkerPlace, Alone, Undisturbed,
         WorkerQuiet, Held, Mine, surfaceVars, planeVars, frameVars,
         choiceVars, jobVars, workerVars, overlayVars
    <2>9. CASE DirectDrain
      BY <2>9 DEF DirectDrain, Awake, FrameOrder, UnpostedMain,
         UnpostedWorker, MainHolds, Posted, Busy, WorkerPlace, Alone,
         Undisturbed, WorkerQuiet, Held, Mine, surfaceVars, planeVars,
         frameVars, choiceVars, jobVars, workerVars, overlayVars
    <2>10. CASE DirectSettle
      BY <2>10 DEF DirectSettle, LessScanout, FrameOrder, UnpostedMain,
         UnpostedWorker, MainHolds, Posted, Busy, WorkerPlace, Alone,
         Undisturbed, WorkerQuiet, Held, Mine, surfaceVars, planeVars,
         frameVars, choiceVars, jobVars, workerVars, overlayVars
    <2>11. CASE Fallback
      BY <2>11 DEF Fallback, Choose, FrameOrder, UnpostedMain,
         UnpostedWorker, MainHolds, Posted, Busy, WorkerPlace, Alone,
         Undisturbed, WorkerQuiet, Held, Mine, surfaceVars, planeVars,
         frameVars, choiceVars, jobVars, workerVars, overlayVars
    <2>12. CASE Submit
      BY <2>12 DEF Submit, Wake, Awake, HasSpace, FrameOrder, UnpostedMain,
         UnpostedWorker, MainHolds, Posted, Busy, WorkerPlace, Alone,
         Undisturbed, WorkerQuiet, Held, Mine, surfaceVars, planeVars,
         frameVars, choiceVars, jobVars, workerVars, overlayVars
    <2>13. CASE Plain
      BY <2>13 DEF Plain, Compose, Base, Awake, FrameOrder, UnpostedMain,
         UnpostedWorker, MainHolds, Posted, Busy, WorkerPlace, Alone,
         Undisturbed, WorkerQuiet, Held, Mine, surfaceVars, planeVars,
         frameVars, choiceVars, jobVars, workerVars, overlayVars
    <2>14. CASE MainUnlock
      BY <2>14 DEF MainUnlock, FrameOrder, UnpostedMain, UnpostedWorker,
         MainHolds, Posted, Busy, WorkerPlace, Alone, Undisturbed,
         WorkerQuiet, Held, Mine, surfaceVars, planeVars, frameVars,
         choiceVars, jobVars, workerVars, overlayVars
    <2>15. CASE Change
      BY <2>15 DEF Change, FrameOrder, UnpostedMain, UnpostedWorker,
         MainHolds, Posted, Busy, WorkerPlace, Alone, Undisturbed,
         WorkerQuiet, Held, Mine, surfaceVars, planeVars, frameVars,
         choiceVars, jobVars, workerVars, overlayVars
    <2>16. CASE SyncStart
      BY <2>16 DEF SyncStart, FrameOrder, UnpostedMain, UnpostedWorker,
         MainHolds, Posted, Busy, WorkerPlace, Alone, Undisturbed,
         WorkerQuiet, Held, Mine, surfaceVars, planeVars, frameVars,
         choiceVars, jobVars, workerVars, overlayVars
    <2>17. CASE SyncWorker
      BY <2>17 DEF SyncWorker, Awake, FrameOrder, UnpostedMain,
         UnpostedWorker, MainHolds, Posted, Busy, WorkerPlace, Alone,
         Undisturbed, WorkerQuiet, Held, Mine, surfaceVars, planeVars,
         frameVars, choiceVars, jobVars, workerVars, overlayVars
    <2>18. CASE Shutdown
      BY <2>18 DEF Shutdown, FrameOrder, UnpostedMain, UnpostedWorker,
         MainHolds, Posted, Busy, WorkerPlace, Alone, Undisturbed,
         WorkerQuiet, Held, Mine, surfaceVars, planeVars, frameVars,
         choiceVars, jobVars, workerVars, overlayVars
    <2>19. CASE StopWorker
      BY <2>19 DEF StopWorker, Wake, Awake, FrameOrder, UnpostedMain,
         UnpostedWorker, MainHolds, Posted, Busy, WorkerPlace, Alone,
         Undisturbed, WorkerQuiet, Held, Mine, surfaceVars, planeVars,
         frameVars, choiceVars, jobVars, workerVars, overlayVars
    <2>20. CASE JoinWorker
      BY <2>20 DEF JoinWorker, FrameOrder, UnpostedMain, UnpostedWorker,
         MainHolds, Posted, Busy, WorkerPlace, Alone, Undisturbed,
         WorkerQuiet, Held, Mine, surfaceVars, planeVars, frameVars,
         choiceVars, jobVars, workerVars, overlayVars
    <2>21. CASE Vblank
      BY <2>21 DEF Vblank, FrameOrder, UnpostedMain, UnpostedWorker,
         MainHolds, Posted, Busy, WorkerPlace, Alone, Undisturbed,
         WorkerQuiet, Held, Mine, surfaceVars, planeVars, frameVars,
         choiceVars, jobVars, workerVars, overlayVars
    <2>22. CASE DirectPresent
      BY <2>22 DEF DirectPresent, DrainDone, FrameOrder, UnpostedMain,
         UnpostedWorker, MainHolds, Posted, Busy, WorkerPlace, Alone,
         Undisturbed, WorkerQuiet, Held, Mine, surfaceVars, planeVars,
         frameVars, choiceVars, jobVars, workerVars, overlayVars
    <2>23. CASE DirectDisable
      BY <2>23 DEF DirectDisable, Choose, EndScanout, LessScanout, DrainDone,
         FrameOrder, UnpostedMain, UnpostedWorker, MainHolds, Posted, Busy,
         WorkerPlace, Alone, Undisturbed, WorkerQuiet, Held, Mine,
         surfaceVars, planeVars, frameVars, choiceVars, jobVars, workerVars,
         overlayVars
    <2>24. CASE SyncDone
      BY <2>24 DEF SyncDone, DrainDone, Drained, NothingPending, FrameOrder,
         UnpostedMain, UnpostedWorker, MainHolds, Posted, Busy, WorkerPlace,
         Alone, Undisturbed, WorkerQuiet, Held, Mine, surfaceVars, planeVars,
         frameVars, choiceVars, jobVars, workerVars, overlayVars
    <2>25. CASE Unload
      BY <2>25 DEF Unload, DrainDone, FrameOrder, UnpostedMain,
         UnpostedWorker, MainHolds, Posted, Busy, WorkerPlace, Alone,
         Undisturbed, WorkerQuiet, Held, Mine, surfaceVars, planeVars,
         frameVars, choiceVars, jobVars, workerVars, overlayVars
    <2>26. CASE DeinitRelease
      BY <2>26 DEF DeinitRelease, EndScanout, LessScanout, DrainDone,
         FrameOrder, UnpostedMain, UnpostedWorker, MainHolds, Posted, Busy,
         WorkerPlace, Alone, Undisturbed, WorkerQuiet, Held, Mine,
         surfaceVars, planeVars, frameVars, choiceVars, jobVars, workerVars,
         overlayVars
    <2> QED BY <1>3, <2>1, <2>2, <2>3, <2>4, <2>5, <2>6, <2>7, <2>8, <2>9,
       <2>10, <2>11, <2>12, <2>13, <2>14, <2>15, <2>16, <2>17, <2>18, <2>19,
       <2>20, <2>21, <2>22, <2>23, <2>24, <2>25, <2>26
  <1> USE DEF PresenterInv
  <1>4. [PresenterNext]_presenterVars /\ drawn \in [Buffers -> Nat]
    BY StepMaps DEF VideoTypes, OverlayTypes, VideoAssumption
  <1>5. \/ \A m : Above(m) => StaysBelow(m)
        \/ \E t \in Callers :
             /\ PushUsed(t)
             /\ \A m : Above(m) /\ drawn[cbuf[t]] < m => StaysBelow(m)
    BY <1>4, AboveStep
  <1>6. Above(frame + 1) /\ (job # None => Above(content[job]))
    BY DEF FrameOrder
  <1>7. CASE WorkerPosting \/ WorkerPosted
    <2>1. /\ UNCHANGED <<content, frame, gles, job, wjob, mpc>>
          /\ wpc = "post" /\ wpc' \in {"post", "unlock"}
          /\ wjob \in Surfaces
      BY <1>7 DEF WorkerPosting, WorkerPosted, surfaceVars, frameVars, jobVars,
         workerVars, PipelineInv
    <2>2. cpc'["main"] = cpc["main"]
      BY <1>7, PostTouches DEF WorkerPosting, WorkerPosted
    <2>3. WorkerPosted => wpc' = "unlock" /\ cpc'["worker"] = "idle"
      BY PostTouches DEF WorkerPosted
    <2>4. /\ \/ \A m : Above(m) => StaysBelow(m)
             \/ /\ cpc'["worker"] = "signal"
                /\ \A m : Above(m) /\ content[wjob] < m => StaysBelow(m)
          /\ WorkerPosting => cpc["worker"] # "signal"
          /\ \A u \in Callers :
               cpc'[u] = "push" => drawn'[cbuf'[u]] = Posted(u)
      BY <1>4, <1>7, PostOrder DEF WorkerPosting, WorkerPosted, FrameOrder,
         Posted
    <2>5. StaysBelow(frame + 1) /\ (UnpostedMain => StaysBelow(frame))
      BY <2>1, <2>4 DEF FrameOrder, UnpostedMain
    <2>6. job # None => StaysBelow(content[job])
      BY <2>1, <2>4 DEF FrameOrder
    <2>7. UnpostedWorker' => StaysBelow(content[wjob])
      BY <1>7, <2>1, <2>3, <2>4 DEF FrameOrder, UnpostedWorker
    <2> QED
      BY <2>1, <2>2, <2>4, <2>5, <2>6, <2>7
      DEF FrameOrder, Above, StaysBelow, UnpostedMain, MainHolds, Posted
  <1>8. CASE MainPosting \/ MainPosted
    <2>1. /\ UNCHANGED <<content, frame, gles, job, wjob, wpc>>
          /\ mpc = "post" /\ mpc' \in {"post", "unlock"}
          /\ gles \in Surfaces
      BY <1>8 DEF MainPosting, MainPosted, surfaceVars, frameVars, jobVars,
         workerVars, PipelineInv, MainHolds
    <2>2. job = None /\ wjob = None /\ wpc \notin {"refresh", "post"}
      BY <2>1 DEF Alone, Undisturbed, WorkerQuiet, WorkerPlace, Busy
    <2>3. MainPosted => mpc' = "unlock" /\ cpc'["main"] = "idle"
      BY PostTouches DEF MainPosted
    <2>4. /\ \/ \A m : Above(m) => StaysBelow(m)
             \/ /\ cpc'["main"] = "signal"
                /\ \A m : Above(m) /\ content[gles] < m => StaysBelow(m)
          /\ MainPosting => cpc["main"] # "signal"
          /\ \A u \in Callers :
               cpc'[u] = "push" => drawn'[cbuf'[u]] = Posted(u)
      BY <1>4, <1>8, PostOrder DEF MainPosting, MainPosted, FrameOrder, Posted
    <2>5. content[gles] = frame
      BY <2>1 DEF FrameOrder, MainHolds
    <2>6. StaysBelow(frame + 1)
      BY <1>6, <2>4, <2>5
    <2>7. UnpostedMain' => StaysBelow(frame)
      BY <1>8, <2>1, <2>3, <2>4 DEF FrameOrder, UnpostedMain, MainHolds
    <2> QED
      BY <2>1, <2>2, <2>4, <2>5, <2>6, <2>7
      DEF FrameOrder, Above, StaysBelow, UnpostedWorker, Posted
  <1>9. CASE MainDrain \/ RenderThread \/ Gone \/ UNCHANGED vars
    <2>1. UNCHANGED <<videoVars, cpc, cbuf, drawn>>
      BY <1>9 DEF MainDrain, DrainSleep, RenderThread, Render, RenderWait,
         RenderCheck, RenderPop, RenderFlip, RenderSettle, RenderRecycle,
         RenderPost, RenderQuit, Gone, vars, presenterVars, callVars
    <2>2. UNCHANGED <<content, frame, gles, job, wjob, wpc, mpc>>
      BY <2>1 DEF videoVars, surfaceVars, frameVars, jobVars, workerVars
    <2>3. \A m : Above(m) => StaysBelow(m)
      BY <1>5, <2>1 DEF PushUsed, Goto
    <2> QED
      BY <2>1, <2>2, <2>3 DEF FrameOrder, Above, StaysBelow, UnpostedMain,
         UnpostedWorker, MainHolds, Posted
  <1>10. CASE DeinitDestroy
    <2>1. /\ UNCHANGED <<content, frame, gles, job, wjob, wpc, drawn, cbuf>>
          /\ mpc = "destroy" /\ mpc' \in {"destroy", "gone"}
      BY <1>10 DEF DeinitDestroy, Destroying, Terminate, WakeRender, Release,
         surfaceVars, frameVars, jobVars, workerVars
    <2>2. job = None /\ wjob = None /\ wpc \notin {"refresh", "post"}
      BY <2>1 DEF Alone, Undisturbed, WorkerQuiet, WorkerPlace, Busy
    <2>3. \A u \in Callers : cpc'[u] # "push"
      BY <1>10, <2>2 DEF DeinitDestroy, Destroying, Terminate, WakeRender,
         Release, Goto
    <2>4. \A m : Above(m) => StaysBelow(m)
      <3>1. \A u \in Callers : cpc[u] # "push"
        BY <1>10, <2>2 DEF DeinitDestroy, Destroying, Terminate,
           WakeRender, Release
      <3> QED BY <1>5, <3>1 DEF PushUsed
    <2> QED
      BY <2>1, <2>2, <2>3, <2>4, <1>6 DEF FrameOrder, Above, StaysBelow,
         UnpostedMain, UnpostedWorker, MainHolds
  <1> QED
    BY <1>3, <1>7, <1>8, <1>9, <1>10
    DEF Next, Main, Worker, Refresh, Between

LEMMA OrderCorrect == Spec => []OrderInv
  <1>1. Init => OrderInv
    <2> SUFFICES ASSUME Init PROVE OrderInv
      OBVIOUS
    <2>1. Callers = {"main", "worker"}
      BY VideoAssumption DEF VideoAssumption
    <2>2. Shown = {}
      BY DEF Init, PresenterInit, Shown, Elements
    <2> QED
      BY <2>1, <2>2, VideoAssumption DEF OrderInv, QueueOrder, FrameOrder,
         Above, UnpostedMain, UnpostedWorker, MainHolds, Init, PresenterInit,
         Elements
  <1>2. PipelineInv /\ PresenterInv /\ SurfaceInv /\ OrderInv /\ [Next]_vars
          => OrderInv'
    <2> SUFFICES ASSUME PipelineInv, PresenterInv, SurfaceInv, OrderInv,
                        [Next]_vars
                 PROVE  OrderInv'
      OBVIOUS
    <2>1. [PresenterNext]_presenterVars /\ drawn \in [Buffers -> Nat]
      BY StepMaps, VideoAssumption, PresenterAssumption
      DEF SurfaceInv, VideoTypes, OverlayTypes, VideoAssumption
    <2>2. Newer
      BY FrameOrderNewer, VideoAssumption DEF OrderInv, SurfaceInv
    <2>3. QueueOrder'
      BY <2>1, <2>2, QueueOrderStep, PresenterAssumption DEF OrderInv
    <2>4. FrameOrder'
      BY FrameOrderStep, VideoAssumption, PresenterAssumption
      DEF OrderInv, SurfaceInv
    <2> QED BY <2>3, <2>4 DEF OrderInv
  <1> QED BY <1>1, <1>2, SurfaceCorrect, PTL DEF Spec

\* The screen changes by a flip alone, and the flip shows a newer frame.
LEMMA FlipIsNewer ==
  ASSUME QueueOrder, [PresenterNext]_presenterVars, scan # None, scan' # scan
  PROVE  drawn'[scan'] > drawn[scan]
  <1>1. RenderFlip
    BY DEF PresenterNext, Render, RenderWait, RenderCheck, RenderPop,
       RenderSettle, RenderRecycle, RenderPost, RenderQuit, Posting, PostWait,
       PostTry, PostGranted, Reserve, PostRejected, PopFree, Draw, PushUsed,
       PostDone, DrainSleep, DrainDone, Destroying, Terminate, WakeRender,
       Release, renderVars, presenterVars
  <1> QED BY <1>1 DEF RenderFlip, QueueOrder

\* Frames reach the screen in the order of their callbacks and none twice,
\* for any number of buffers, surfaces and frames: none overtakes one that
\* waits in the worker.
THEOREM OrderHolds == Spec => ScanInOrder
  <1>1. PipelineInv /\ OrderInv /\ [Next]_vars
          => [scan # None /\ scan' # scan => drawn'[scan'] > drawn[scan]]_vars
    BY StepMaps, FlipIsNewer, VideoAssumption, PresenterAssumption
    DEF OrderInv
  <1> QED BY <1>1, PipelineCorrect, OrderCorrect, PTL DEF Spec, ScanInOrder
=============================================================================
