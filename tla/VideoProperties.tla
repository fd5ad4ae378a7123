-------------------------- MODULE VideoProperties ---------------------------
(***************************************************************************)
(* What the video pipeline and its presenter promise.                      *)
(***************************************************************************)
EXTENDS VideoPipeline

MainStages ==
  {"idle", "direct", "present", "vblank", "fallback", "disable", "submit",
   "plain", "post", "unlock", "sync", "synced", "stop", "join", "drain",
   "release", "destroy", "gone"}

\* Every variable keeps its type.
TypeOK ==
  /\ freeQ \in Seq(Buffers) /\ usedQ \in Seq(Buffers)
  /\ freeSem \in Nat /\ usedSem \in Nat /\ pending \in Nat
  /\ terminating \in BOOLEAN /\ released \subseteq Buffers
  /\ drawn \in [Buffers -> Pictures]
  /\ rpc \in {"wait", "check", "pop", "flip", "settle", "recycle", "post",
              "quit", "done"}
  /\ {dst, prev, scan} \subseteq Buffers \cup {None}
  /\ cpc \in [Callers -> {"idle", "wait", "pop", "draw", "push", "signal",
                          "wake", "join", "gone"}]
  /\ cbuf \in [Callers -> Buffers \cup {None}]
  /\ drainers \subseteq Callers
  /\ locked \subseteq Surfaces /\ content \in [Surfaces -> Pictures]
  /\ {gles, scanout, plane, onPlane, job, wjob} \subseteq Surfaces \cup {None}
  /\ mpc \in MainStages /\ frame \in Pictures /\ synced \in BOOLEAN
  /\ ffwd \in BOOLEAN /\ layout \in Layouts /\ changes \in 0..MaxChanges
  /\ started \in BOOLEAN /\ stopping \in BOOLEAN /\ inFlight \in BOOLEAN
  /\ wpc \in {"none", "wait", "refresh", "post", "unlock", "settle", "dead"}
  /\ asleep \subseteq Callers
  /\ seen \in Layouts \cup {Unset} /\ cleanup \in 0..CleanFrames
  /\ shot \in [Callers -> Shot]
  /\ cleaned \in [Buffers -> Layouts \cup {Unset}]

-----------------------------------------------------------------------------
(* The presenter.                                                          *)

\* A semaphore never promises a buffer its queue does not have: neither the
\* "semaphore/queue mismatch" of a post nor the exit(1) of the render thread
\* ("no framebuffer available") or of a post ("queue push failed": the queue
\* is full) can be reached.
NoMismatch ==
  /\ \A t \in Callers :
       /\ cpc[t] = "pop" => freeQ # << >>
       /\ cpc[t] = "push" => Len(usedQ) < Cardinality(Buffers)
  /\ rpc = "pop" => usedQ # << >>

\* Nobody draws into a buffer that is on the screen, on its way there, or
\* that another caller or a queue holds: no tearing.
NoTearing ==
  \A t \in Callers : cbuf[t] # None =>
    /\ cbuf[t] \notin {scan, dst, prev}
    /\ cbuf[t] \notin Elements(freeQ) \cup Elements(usedQ)
    /\ \A u \in Callers \ {t} : cbuf[u] # cbuf[t]

\* Frames reach the screen in the order of their callbacks and none twice,
\* through fast-forward, overlays and changes between the threaded and the
\* plain path: none overtakes one that waits in the worker.
ScanInOrder ==
  [][scan # None /\ scan' # scan => drawn'[scan'] > drawn[scan]]_vars

-----------------------------------------------------------------------------
(* The surfaces of the GBM pool.                                           *)

MainHolds ==
  mpc \in {"direct", "present", "vblank", "fallback", "disable", "submit",
           "plain", "post", "unlock"}

\* Who has to unlock which surface.
Holders ==
  {h \in { <<"job", job>>, <<"worker", wjob>>, <<"scanout", scanout>>,
           <<"main", IF MainHolds THEN gles ELSE None>> } : h[2] # None}

\* Each locked surface has exactly one holder and each holder's surface is
\* locked: none leaks, none is unlocked twice, through back-pressure, direct
\* scanout, fallback and shutdown.
SurfacesOwned ==
  /\ locked = {h[2] : h \in Holders}
  /\ Cardinality(locked) = Cardinality(Holders)

\* There is a surface left for every swap: the exit(1) of
\* go2_context_surface_lock is never reached.
PoolSuffices == mpc = "idle" => locked # Surfaces

\* A surface is read only while it is locked; an unlocked one belongs to the
\* GPU, which may be rendering the next frame into it.
BlitsLocked == \A t \in Callers : cpc[t] = "draw" => shot[t].base \in locked

\* The surfaces are accounted for, there are enough of them, and none is read
\* after it was given back; every variable keeps its type.
SurfacesAccounted == TypeOK /\ SurfacesOwned /\ PoolSuffices /\ BlitsLocked

-----------------------------------------------------------------------------
(* Synchronisation.                                                        *)

\* After video_synchronize nothing moves until the next frame: no frame
\* waits or is composed, and none is on its way to the screen.  Saving and
\* loading a state, a reset and a disk change rely on it.
SyncIsQuiet ==
  mpc = "idle" /\ synced =>
    /\ job = None /\ ~inFlight
    /\ \A t \in Callers : cpc[t] = "idle"
    /\ usedQ = << >> /\ rpc \notin {"pop", "flip", "settle"}

\* The shutdown leaves nothing behind: every surface is unlocked, every
\* buffer released, both threads have ended.
NothingLeft ==
  mpc = "gone" =>
    /\ locked = {} /\ released = Buffers
    /\ rpc = "done" /\ wpc \in {"none", "dead"}

\* What main relies on when a synchronisation, or the shutdown, is over.
QuietAfterwards == SyncIsQuiet /\ NothingLeft

\* The pipeline uses the presenter as its contract says: it never posts to a
\* terminating presenter and destroys it only when no call is in progress.
KeepsContract == PresenterSpec

\* Every callback, synchronisation and shutdown comes to its end.
VideoReturns == (mpc # "idle") ~> (mpc \in {"idle", "gone"})

-----------------------------------------------------------------------------
(* What the comments of the code say.                                      *)

\* "The worker owns this specific locked surface [...]; it never reads the
\* mutable global gles_surface from the detached thread" (core_video_refresh).
OwnFrame == cpc["worker"] = "draw" => shot["worker"].base = wjob

\* "A GBM front buffer used by a DRM plane must remain locked for as long as
\* the display controller scans it out" (directScanoutSurface).
ScanoutLocked == onPlane # None => onPlane \in locked

\* Each buffer is cleared when the overlay layout changes: none is shown with
\* what another layout left in it (uiRenderOverlays).
NoStaleOverlay ==
  \A t \in Callers : cpc[t] = "draw" =>
    shot[t].clean \/ cleaned[cbuf[t]] = shot[t].layout
=============================================================================
