---------------------------- MODULE Go2Resources ----------------------------
(***************************************************************************)
(* What the GO2 display owns (src/go2/display.cpp,                         *)
(* src/platform/platform_go2.cpp and the part of src/video/video.cpp that  *)
(* opens and closes it): the card, the dumb buffers and what is registered *)
(* for them, the presenter with its thread, the loading screen with its    *)
(* own, and for a hardware core the GBM device, the EGL context on it, the *)
(* post-processing pipeline and the buffers the core has drawn.            *)
(*                                                                         *)
(* Every object needs others: whatever destroys one must have destroyed    *)
(* first what needs it, in the order of the normal end, of a failure half  *)
(* way and of a resize.  One action is one call that creates or destroys,  *)
(* and each may fail that the code expects to fail.  What is drawn, who    *)
(* waits for whom and which buffer may be reused are Presenter and         *)
(* VideoPipeline.                                                          *)
(*                                                                         *)
(* Left out: sizes, formats and modes; a display or a presenter that       *)
(* cannot be made when the video is configured, for which the code has no  *)
(* answer; mappings, which one frame makes and undoes.  EGL may defer the  *)
(* end of a context that is current: here it ends when it is asked to.     *)
(***************************************************************************)
EXTENDS Integers, Sequences, FiniteSets

CONSTANTS
  Bos,       \* the buffers of the GBM surface, numbers above the surfaces'
  BufferMax, \* BUFFER_MAX
  MaxResizes \* bound on the new geometries and overlays

ASSUME Go2ResAssumption ==
  /\ Bos \subseteq Nat /\ \A b \in Bos : b > 5
  /\ BufferMax \in Nat /\ MaxResizes \in Nat

\* An object is its kind and a number.
Card == <<"card", 1>>
Surface(i) == <<"surface", i>>
FrameBuffer(i) == <<"framebuffer", i>>
Prime(i) == <<"prime", i>>
RenderThread == <<"render", 1>>
Animator == <<"animator", 1>>
Device == <<"gbmDevice", 1>>
Egl == <<"eglDisplay", 1>>
Window == <<"gbmSurface", 1>>
EglSurface == <<"eglSurface", 1>>
Context == <<"eglContext", 1>>
Pipeline == <<"pipeline", 1>>
Record(b) == <<"record", b>>
Scanout(b) == <<"scanout", b>>

\* The dumb buffers: the presenter's two, the loading screen, the software
\* core's picture, and the overlays, which are alike.
Pool == {1, 2}
Loading == 3
Picture == 4
Overlay == 5

\* What an object needs, of DRM, GBM and EGL.
NeedsOf(o) ==
  LET i == o[2]
  IN  CASE o[1] = "card" -> {}
        [] o[1] \in {"surface", "gbmDevice"} -> {Card}
        [] o[1] = "framebuffer" -> {Surface(i)}
        [] o[1] = "prime" -> IF i \in Bos THEN {Record(i)} ELSE {Surface(i)}
        [] o[1] = "render" -> {FrameBuffer(p) : p \in Pool}
        [] o[1] = "animator" -> {Surface(Loading), RenderThread}
        [] o[1] \in {"eglDisplay", "gbmSurface"} -> {Device}
        [] o[1] = "eglSurface" -> {Egl, Window}
        [] o[1] = "eglContext" -> {Egl, EglSurface}
        [] o[1] = "pipeline" -> {Context}
        [] o[1] = "record" -> {Window}
        [] o[1] = "scanout" -> {Record(i)}

VARIABLES
  live,     \* the objects there are
  todo,     \* the objects to be destroyed, in this order
  stage,    \* where the program is
  isOpenGL, \* whether the core draws with OpenGL
  hand,     \* the buffer the picture callback has locked, 0 for none
  locked,   \* the buffers it has not given back
  scanned,  \* directScanoutSurface
  plane,    \* the buffer the direct plane shows
  refused,  \* direct_plane_disabled
  broken,   \* post_framebuffer_failed
  resizes

flowVars == <<hand, locked, scanned, plane, refused, broken>>
resVars == <<live, todo, stage, isOpenGL, flowVars, resizes>>

Go2ResInit ==
  /\ live = {} /\ todo = << >> /\ stage = "start"
  /\ isOpenGL \in BOOLEAN
  /\ hand = 0 /\ locked = {} /\ scanned = 0 /\ plane = 0
  /\ refused = FALSE /\ broken = FALSE /\ resizes = 0

-----------------------------------------------------------------------------
(* What the functions that create and destroy do: one set of objects after *)
(* another.                                                                *)

display_create == {Card}
surface_create(i) == {Surface(i)}
frame_buffer_create(i) == {FrameBuffer(i)}
presenter_create ==
  {RenderThread}
    \cup UNION {surface_create(i) \cup frame_buffer_create(i) : i \in Pool}
create_go2_post_pipeline == {Pipeline}

\* go2_surface_prime_fd, the first time; go2_surface_map, and a blit that
\* draws one surface onto another, need it.
surface_prime_fd(i) == {Prime(i)}
surface_map(i) == surface_prime_fd(i)
surface_blit(i, onto) == UNION {surface_prime_fd(j) : j \in {i} \cup onto}

display_destroy == << {Card} >>

\* go2_surface_destroy: the descriptor, then the buffer.
surface_destroy(i) == << {Prime(i)}, {Surface(i)} >>
frame_buffer_destroy(i) == << {FrameBuffer(i)} >>
destroy_go2_post_pipeline == << {Pipeline} >>

\* go2_presenter_destroy, once drained: the thread is joined, then each frame
\* buffer goes before its surface.
presenter_destroy ==
  << {RenderThread} >> \o frame_buffer_destroy(1) \o surface_destroy(1)
    \o frame_buffer_destroy(2) \o surface_destroy(2)

\* video_stop_startup_loading: the animator is joined.
stop_startup_loading == << {Animator} >> \o surface_destroy(Loading)

\* go2_context_destroy: what DRM knows of the buffers goes while their GBM
\* objects are alive.  Mutant: the GBM surface goes first.
BuffersRemoved ==
  << {Scanout(b) : b \in Bos}, {Prime(b) : b \in Bos},
     {Record(b) : b \in Bos} >>
ContextParts == << {Context}, {EglSurface}, {Window}, {Egl}, {Device} >>
GbmFirst == ContextParts \o BuffersRemoved
context_destroy == BuffersRemoved \o ContextParts

\* rr_context_destroy: the pipeline needs the context.
rr_context_destroy == destroy_go2_post_pipeline \o context_destroy

\* video_deinit, after the direct plane's buffer is given back.
DeinitOrder ==
  surface_destroy(Overlay) \o surface_destroy(Picture)
    \o rr_context_destroy \o presenter_destroy \o display_destroy

-----------------------------------------------------------------------------
(* The steps.                                                              *)

At(s) == stage = s /\ todo = << >>

\* The program goes on at s, once what is listed is destroyed.
Then(s, list) == stage' = s /\ todo' = list

Release ==
  /\ todo # << >>
  /\ live' = live \ Head(todo) /\ todo' = Tail(todo)
  /\ UNCHANGED <<stage, isOpenGL, flowVars, resizes>>

Make(objects, s) ==
  /\ live' = live \cup objects /\ Then(s, << >>)
  /\ UNCHANGED <<isOpenGL, flowVars, resizes>>

Unwind(s, list) ==
  /\ Then(s, list)
  /\ UNCHANGED <<live, isOpenGL, flowVars, resizes>>

\* go2_display_create, and go2_presenter_create with its two buffers.
OpenCard(from, to) == At(from) /\ Card \notin live /\ Make(display_create, to)
KeepCard(from, to) == At(from) /\ Card \in live /\ Unwind(to, << >>)
MakeBuffers(from, to) ==
  /\ At(from) /\ RenderThread \notin live
  /\ Make(presenter_create, to)
KeepBuffers(from, to) ==
  At(from) /\ RenderThread \in live /\ Unwind(to, << >>)

-----------------------------------------------------------------------------
(* video_show_startup_loading, which gives up everything there is when it  *)
(* fails.                                                                  *)

NoLoading == At("start") /\ Unwind("configure", << >>)
LoadingStarts == At("start") /\ Unwind("loadingCard", << >>)

LoadingCard ==
  \/ OpenCard("loadingCard", "loadingPresenter")
  \/ At("loadingCard") /\ Unwind("configure", << >>)
LoadingPresenter ==
  \/ MakeBuffers("loadingPresenter", "loadingSurface")
  \/ /\ At("loadingPresenter")  \* no memory for the presenter
     /\ Unwind("configure", presenter_destroy \o display_destroy)

LoadingSurface ==
  /\ At("loadingSurface")
  /\ \/ Make(surface_create(Loading), "loadingMap")
     \/ Unwind("configure", presenter_destroy \o display_destroy)

\* The surface is mapped, drawn and posted: the blit needs descriptors.
LoadingShown ==
  /\ At("loadingMap")
  /\ \/ Make(surface_map(Loading) \cup surface_blit(Loading, {1}), "animate")
     \/ Unwind("configure", surface_destroy(Loading) \o presenter_destroy
                              \o display_destroy)

Animate ==
  /\ At("animate")
  /\ \/ Make({Animator}, "configure")
     \/ Unwind("configure", stop_startup_loading \o presenter_destroy
                              \o display_destroy)

-----------------------------------------------------------------------------
(* video_configure, and the context of a hardware core.                    *)

Configure == At("configure") /\ Unwind("card", stop_startup_loading)
ConfigureCard == OpenCard("card", "presenter") \/ KeepCard("card", "presenter")
AfterPresenter == IF isOpenGL THEN "device" ELSE "picture"
ConfigurePresenter ==
  \/ MakeBuffers("presenter", AfterPresenter)
  \/ KeepBuffers("presenter", AfterPresenter)

\* A context that cannot be made ends the program by an exception, after what
\* there was of it is destroyed, or by exit at once.
CreateDevice ==
  At("device") /\ (Make({Device}, "egl") \/ Unwind("exited", << >>))
InitializeEgl ==
  /\ At("egl")
  /\ Make({Egl}, "config") \/ Unwind("exited", << {Device} >>)
FindConfig ==
  /\ At("config")
  /\ \/ Unwind("window", << >>)
     \/ Unwind("exited", << {Egl}, {Device} >>)
     \/ Unwind("aborted", << >>)
CreateWindow ==
  At("window") /\ (Make({Window}, "target") \/ Unwind("aborted", << >>))
CreateTarget ==
  At("target") /\ (Make({EglSurface}, "context") \/ Unwind("aborted", << >>))
CreateContext ==
  At("context") /\ (Make({Context}, "post") \/ Unwind("aborted", << >>))

\* rr_context_create with a shader that is on, or off.
CreatePipeline ==
  /\ At("post")
  /\ \/ Make(create_go2_post_pipeline, "running")
     \/ Unwind("running", << >>)
     \/ /\ Then("running", << >>) /\ broken' = TRUE
        /\ UNCHANGED <<live, isOpenGL, hand, locked, scanned, plane, refused,
                       resizes>>

CreatePicture ==
  At("picture") /\ (Make(surface_create(Picture), "running")
                      \/ Unwind("aborted", << >>))

Startup ==
  \/ NoLoading \/ LoadingStarts \/ LoadingCard \/ LoadingPresenter
  \/ LoadingSurface \/ LoadingShown \/ Animate
Configuring ==
  \/ Configure \/ ConfigureCard \/ ConfigurePresenter \/ CreateDevice
  \/ InitializeEgl \/ FindConfig \/ CreateWindow \/ CreateTarget
  \/ CreateContext \/ CreatePipeline \/ CreatePicture

-----------------------------------------------------------------------------
(* Running: a software core's picture and the overlays.                    *)

\* The picture is mapped, drawn and blitted.
SoftwareFrame ==
  /\ At("running") /\ ~isOpenGL
  /\ Make(surface_map(Picture) \cup surface_blit(Picture, Pool), "running")

\* video_reconfigure_geometry, when the picture has to grow; the loop ends if
\* it cannot.
Grow ==
  /\ At("running") /\ ~isOpenGL /\ resizes < MaxResizes
  /\ Then("grown", surface_destroy(Picture)) /\ resizes' = resizes + 1
  /\ UNCHANGED <<live, isOpenGL, flowVars>>
Regrow ==
  /\ At("grown")
  /\ Make(surface_create(Picture), "running") \/ Unwind("stop", << >>)

\* An overlay is made when it is first drawn, and again in another size; one
\* that cannot be made is not shown.
DrawOverlay ==
  /\ At("running") /\ Surface(Overlay) \notin live
  /\ Make(surface_create(Overlay) \cup surface_blit(Overlay, Pool),
          "running")
ResizeOverlay ==
  /\ At("running") /\ Surface(Overlay) \in live /\ resizes < MaxResizes
  /\ Then("running", surface_destroy(Overlay)) /\ resizes' = resizes + 1
  /\ UNCHANGED <<live, isOpenGL, flowVars>>

-----------------------------------------------------------------------------
(* Running: a hardware core's picture.                                     *)

\* rr_context_swap_buffers makes the pipeline when a shader is first wanted.
LatePipeline ==
  /\ At("running") /\ isOpenGL /\ Pipeline \notin live /\ ~broken
  /\ Then("running", << >>)
  /\ \/ live' = live \cup create_go2_post_pipeline /\ UNCHANGED broken
     \/ broken' = TRUE /\ UNCHANGED live
  /\ UNCHANGED <<isOpenGL, hand, locked, scanned, plane, refused, resizes>>

Recorded == {b \in Bos : Record(b) \in live}

\* go2_context_surface_lock: the buffer that was drawn is one the program has
\* a record of, or one more, of which there may be too many.
LockFront(b) ==
  /\ At("running") /\ isOpenGL /\ b \notin locked
  /\ hand' = b /\ locked' = locked \cup {b}
  /\ live' = IF Cardinality(Recorded) < BufferMax
             THEN live \cup {Record(b)} ELSE live
  /\ Then(IF b \in Recorded \/ Cardinality(Recorded) < BufferMax
          THEN "swapped" ELSE "aborted", << >>)
  /\ UNCHANGED <<isOpenGL, scanned, plane, refused, broken, resizes>>

\* go2_display_present_surface registers the buffer once.
ShowDirect ==
  /\ At("swapped") /\ ~refused
  /\ live' = live \cup {Scanout(hand)} /\ plane' = hand
  /\ Then("settle", << >>)
  /\ UNCHANGED <<isOpenGL, hand, locked, scanned, refused, broken, resizes>>

\* Nothing was tried, or it could not be registered; or it was, but the plane
\* could not be turned or refuses it, the latter for good.
NotDirect ==
  /\ At("swapped") /\ Then("fallback", << >>)
  /\ \/ UNCHANGED <<live, refused>>
     \/ /\ ~refused /\ refused' \in BOOLEAN
        /\ live' = live \cup {Scanout(hand)}
  /\ UNCHANGED <<isOpenGL, hand, locked, scanned, plane, broken, resizes>>

\* The buffer the plane showed before is given back.
Settle ==
  /\ At("settle") /\ Then("running", << >>)
  /\ locked' = locked \ {scanned} /\ scanned' = hand /\ hand' = 0
  /\ UNCHANGED <<live, isOpenGL, plane, refused, broken, resizes>>

\* go2_display_direct_disable, and the buffer it showed is given back.
ReleaseScanned == plane' = 0 /\ scanned' = 0 /\ locked' = locked \ {scanned}
DirectDisabled ==
  IF scanned # 0 THEN ReleaseScanned ELSE UNCHANGED <<plane, scanned, locked>>

FallBack ==
  /\ At("fallback") /\ Then("compose", << >>)
  /\ DirectDisabled
  /\ UNCHANGED <<live, isOpenGL, hand, refused, broken, resizes>>

\* The picture is blitted into the presenter's buffer, and given back.
ComposeFrame ==
  /\ At("compose") /\ Then("running", << >>)
  /\ live' = live \cup surface_blit(hand, Pool)
  /\ locked' = locked \ {hand} /\ hand' = 0
  /\ UNCHANGED <<isOpenGL, scanned, plane, refused, broken, resizes>>

Running ==
  \/ SoftwareFrame \/ Grow \/ Regrow \/ DrawOverlay \/ ResizeOverlay
  \/ LatePipeline \/ (\E b \in Bos : LockFront(b)) \/ ShowDirect \/ NotDirect
  \/ Settle \/ FallBack \/ ComposeFrame

-----------------------------------------------------------------------------
(* The end.                                                                *)

Leave == At("running") /\ Unwind("stop", << >>)

\* video_deinit.
Deinit ==
  /\ At("stop") /\ Then("down", DeinitOrder)
  /\ DirectDisabled
  /\ UNCHANGED <<live, isOpenGL, hand, refused, broken, resizes>>

Go2ResNext ==
  Release \/ Startup \/ Configuring \/ Running \/ Leave \/ Deinit

Go2ResSpec == Go2ResInit /\ [][Go2ResNext]_resVars

-----------------------------------------------------------------------------

\* What the plane shows is registered, and locked.
PlaneAlive ==
  plane # 0 => Scanout(plane) \in live /\ plane \in locked

\* Nothing is left of a loading screen or a context that failed, nor at the
\* normal end; and what aborts does so without an object half made.
NothingLeftOver ==
  /\ At("exited") => {Device, Egl} \cap live = {}
  /\ At("card") =>
       \/ live = {}
       \/ {Card, RenderThread} \subseteq live /\ Surface(Loading) \notin live
  /\ At("down") => live = {} /\ locked = {}

\* No object outlives what it needs, on any way out; what the plane shows is
\* alive, and nothing is left over (the comment at
\* src/go2/display.cpp:2405 says it of the DRM framebuffers).
OwnersLast ==
  /\ \A o \in live : NeedsOf(o) \subseteq live
  /\ PlaneAlive /\ NothingLeftOver
=============================================================================
