----------------------------- MODULE Presenter ------------------------------
(***************************************************************************)
(* The GO2 presenter (src/go2/display.cpp, go2_presenter): a fixed pool    *)
(* of frame buffers that circulates between callers, which draw into them, *)
(* and a render thread, which puts them on the screen.                     *)
(*                                                                         *)
(* Two queues guarded by queueMutex hold the free and the used buffers; a  *)
(* semaphore beside each counts what may be popped.  The pair is updated   *)
(* in two steps: the protocol has to keep each count at or below what its  *)
(* queue holds, or somebody pops an empty queue.                           *)
(*                                                                         *)
(* One action is one semaphore operation, one critical section of          *)
(* queueMutex, the drawing, or the page flip.  Modelled: _create, _post,   *)
(* _post_multiple (the same protocol), _drain, _destroy and the render     *)
(* thread.  Left out: pixels, and a mode setting or page flip that fails.  *)
(***************************************************************************)
EXTENDS Integers, Sequences, FiniteSets

CONSTANTS
  Buffers,  \* the frame buffers: BUFFER_COUNT of them
  Callers,  \* the threads that post
  Pictures, \* what they post: frame numbers, 0 for nothing yet
  None      \* no buffer

ASSUME PresenterAssumption ==
  /\ IsFiniteSet(Buffers) /\ Buffers # {} /\ None \notin Buffers
  /\ IsFiniteSet(Callers)
  /\ 0 \in Pictures

VARIABLES
  freeQ, usedQ,     \* freeFrameBuffers and usedFrameBuffers, oldest first
  freeSem, usedSem, \* the semaphores
  pending,          \* pendingPresentations
  terminating,
  released,         \* buffers _destroy has released
  drawn,            \* the frame each buffer was last composed for
  rpc, dst, prev,   \* the render thread: its pc and its two buffers
  scan,             \* the buffer on the screen
  cpc, cbuf,        \* a caller's pc, and the buffer it owns
  drainers          \* callers blocked on drainCond

queueVars == <<freeQ, usedQ>>
semVars == <<freeSem, usedSem>>
endVars == <<terminating, released>>
renderVars == <<rpc, dst, prev, scan>>
callVars == <<cpc, cbuf>>
presenterVars == <<queueVars, semVars, pending, endVars, drawn, renderVars,
                   callVars, drainers>>

Elements(q) == {q[i] : i \in DOMAIN q}

\* The order in which go2_presenter_create makes the buffers.
CreationOrder == CHOOSE q \in [1..Cardinality(Buffers) -> Buffers] :
  Elements(q) = Buffers

\* The initial value of freeSem.  Mutant: of the "three framebuffers" the
\* documentation speaks of.
ThreeFree == 3
BufferCount == Cardinality(Buffers)

\* go2_presenter_create: every buffer is free.
PresenterInit ==
  /\ freeQ = CreationOrder
  /\ usedQ = << >>
  /\ freeSem = BufferCount /\ usedSem = 0 /\ pending = 0
  /\ terminating = FALSE /\ released = {}
  /\ drawn = [b \in Buffers |-> 0]
  /\ rpc = "wait" /\ dst = None /\ prev = None /\ scan = None
  /\ cpc = [t \in Callers |-> "idle"] /\ cbuf = [t \in Callers |-> None]
  /\ drainers = {}

Goto(t, stage) == cpc' = [cpc EXCEPT ![t] = stage]

-----------------------------------------------------------------------------
(* go2_presenter_post.                                                     *)

\* sem_wait(freeSem); while fast-forwarding sem_trywait, which gives up.
PostWait(t) ==
  /\ cpc[t] = "idle" /\ Goto(t, "wait")
  /\ UNCHANGED <<queueVars, semVars, pending, endVars, drawn, renderVars, cbuf,
                 drainers>>

Reserve(t, stage) ==
  /\ cpc[t] = stage /\ freeSem > 0
  /\ freeSem' = freeSem - 1 /\ Goto(t, "pop")
  /\ UNCHANGED <<queueVars, usedSem, pending, endVars, drawn, renderVars, cbuf,
                 drainers>>

PostGranted(t) == Reserve(t, "wait")
PostTry(t) == Reserve(t, "idle")

PostRejected(t) ==
  cpc[t] = "idle" /\ freeSem = 0 /\ UNCHANGED presenterVars

PopFree(t) ==
  /\ cpc[t] = "pop" /\ freeQ # << >>
  /\ cbuf' = [cbuf EXCEPT ![t] = Head(freeQ)] /\ freeQ' = Tail(freeQ)
  /\ Goto(t, "draw")
  /\ UNCHANGED <<usedQ, semVars, pending, endVars, drawn, renderVars,
                 drainers>>

\* The blit takes as long as the caller stays at this stage.
Draw(t, picture) ==
  /\ cpc[t] = "draw"
  /\ drawn' = [drawn EXCEPT ![cbuf[t]] = picture]
  /\ Goto(t, "push")
  /\ UNCHANGED <<queueVars, semVars, pending, endVars, renderVars, cbuf,
                 drainers>>

PushUsed(t) ==
  /\ cpc[t] = "push"
  /\ usedQ' = Append(usedQ, cbuf[t]) /\ cbuf' = [cbuf EXCEPT ![t] = None]
  /\ pending' = pending + 1
  /\ Goto(t, "signal")
  /\ UNCHANGED <<freeQ, semVars, endVars, drawn, renderVars, drainers>>

\* sem_post(usedSem); the post returns.
PostDone(t) ==
  /\ cpc[t] = "signal"
  /\ usedSem' = usedSem + 1 /\ Goto(t, "idle")
  /\ UNCHANGED <<queueVars, freeSem, pending, endVars, drawn, renderVars, cbuf,
                 drainers>>

-----------------------------------------------------------------------------
(* go2_presenter_drain.                                                    *)

\* The wait predicate.  Mutant: the queue instead of the count, which is
\* empty already while its last frame is flipped.
QueueEmpty == usedQ = << >>
NothingPending == pending = 0
Drained == NothingPending \/ terminating

DrainSleep(t) ==
  /\ cpc[t] = "idle" /\ t \notin drainers /\ ~Drained
  /\ drainers' = drainers \cup {t}
  /\ UNCHANGED <<queueVars, semVars, pending, endVars, drawn, renderVars,
                 callVars>>

\* The drain returns; the state is the caller's business.
DrainDone(t) ==
  cpc[t] = "idle" /\ t \notin drainers /\ Drained /\ UNCHANGED presenterVars

-----------------------------------------------------------------------------
(* go2_presenter_destroy, once its own drain has returned.                 *)

Terminate(t) ==
  /\ cpc[t] = "idle" /\ t \notin drainers /\ ~terminating /\ Drained
  /\ terminating' = TRUE /\ Goto(t, "wake")
  /\ UNCHANGED <<queueVars, semVars, pending, released, drawn, renderVars,
                 cbuf, drainers>>

WakeRender(t) ==
  /\ cpc[t] = "wake"
  /\ usedSem' = usedSem + 1 /\ Goto(t, "join")
  /\ UNCHANGED <<queueVars, freeSem, pending, endVars, drawn, renderVars, cbuf,
                 drainers>>

\* pthread_join, then both queues are emptied and their buffers released.
Release(t) ==
  /\ cpc[t] = "join" /\ rpc = "done"
  /\ released' = Elements(usedQ) \cup Elements(freeQ)
  /\ usedQ' = << >> /\ freeQ' = << >>
  /\ Goto(t, "gone")
  /\ UNCHANGED <<semVars, pending, terminating, drawn, renderVars, cbuf,
                 drainers>>

-----------------------------------------------------------------------------
(* The render thread.                                                      *)

RenderWait ==
  /\ rpc = "wait" /\ usedSem > 0
  /\ usedSem' = usedSem - 1 /\ rpc' = "check"
  /\ UNCHANGED <<queueVars, freeSem, pending, endVars, drawn, dst, prev, scan,
                 callVars, drainers>>

RenderCheck ==
  /\ rpc = "check"
  /\ rpc' = IF terminating THEN "quit" ELSE "pop"
  /\ UNCHANGED <<queueVars, semVars, pending, endVars, drawn, dst, prev, scan,
                 callVars, drainers>>

\* An empty queue here is exit(1).
RenderPop ==
  /\ rpc = "pop" /\ usedQ # << >>
  /\ dst' = Head(usedQ) /\ usedQ' = Tail(usedQ) /\ rpc' = "flip"
  /\ UNCHANGED <<freeQ, semVars, pending, endVars, drawn, prev, scan, callVars,
                 drainers>>

\* go2_display_present returns when the kernel has confirmed the flip.
RenderFlip ==
  /\ rpc = "flip"
  /\ scan' = dst /\ rpc' = "settle"
  /\ UNCHANGED <<queueVars, semVars, pending, endVars, drawn, dst, prev,
                 callVars, drainers>>

\* The buffer returned to the pool.  Mutant: the one just presented.
RecycledPresented == dst
Recycled == prev

RenderSettle ==
  /\ rpc = "settle"
  /\ pending' = IF pending > 0 THEN pending - 1 ELSE 0
  /\ drainers' = {}
  /\ IF prev = None THEN rpc' = "wait" /\ prev' = dst
                    ELSE rpc' = "recycle" /\ UNCHANGED prev
  /\ dst' = IF prev = None THEN None ELSE dst
  /\ UNCHANGED <<queueVars, semVars, endVars, drawn, scan, callVars>>

RenderRecycle ==
  /\ rpc = "recycle"
  /\ freeQ' = Append(freeQ, Recycled)
  /\ prev' = dst /\ dst' = None /\ rpc' = "post"
  /\ UNCHANGED <<usedQ, semVars, pending, endVars, drawn, scan, callVars,
                 drainers>>

RenderPost ==
  /\ rpc = "post"
  /\ freeSem' = freeSem + 1 /\ rpc' = "wait"
  /\ UNCHANGED <<queueVars, usedSem, pending, endVars, drawn, dst, prev, scan,
                 callVars, drainers>>

\* The buffer on the screen goes back before the thread ends.
RenderQuit ==
  /\ rpc = "quit"
  /\ IF prev = None
     THEN UNCHANGED <<freeQ, freeSem>>
     ELSE freeQ' = Append(freeQ, prev) /\ freeSem' = freeSem + 1
  /\ prev' = None /\ rpc' = "done"
  /\ UNCHANGED <<usedQ, usedSem, pending, endVars, drawn, dst, scan, callVars,
                 drainers>>

Render == \/ RenderWait \/ RenderCheck \/ RenderPop \/ RenderFlip
          \/ RenderSettle \/ RenderRecycle \/ RenderPost \/ RenderQuit

-----------------------------------------------------------------------------
(* The presenter under any callers that keep to its contract: they post    *)
(* before the presenter is destroyed, and are done when it is.             *)

Posting(t, picture) ==
  \/ PostWait(t) \/ PostGranted(t) \/ PostTry(t) \/ PostRejected(t)
  \/ PopFree(t) \/ Draw(t, picture) \/ PushUsed(t) \/ PostDone(t)

Quiet == drainers = {} /\ \A t \in Callers : cpc[t] = "idle"

Destroying(t) == Terminate(t) \/ WakeRender(t) \/ Release(t)

PresenterNext ==
  \/ Render
  \/ \E t \in Callers :
       \/ ~terminating /\ \E picture \in Pictures : Posting(t, picture)
       \/ DrainSleep(t) \/ DrainDone(t)
       \/ (cpc[t] = "idle" => Quiet) /\ Destroying(t)

PresenterSpec == PresenterInit /\ [][PresenterNext]_presenterVars
=============================================================================
