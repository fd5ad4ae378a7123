----------------------------- MODULE AvUpdates -----------------------------
(***************************************************************************)
(* Changes of the geometry and the timing a core asks for while it runs:   *)
(* core/pending_video_updates.h, which a thread of the core may call at    *)
(* any time, and the part of the loop in main.cpp that applies them.  A    *)
(* value stands for the number of the call that set it.                    *)
(***************************************************************************)
EXTENDS Integers

CONSTANT MaxPosts  \* bound: calls of the core

ASSUME AvAssumption == MaxPosts \in Nat

VARIABLES
  avPc,     \* main: loading, between frames, after takeAv, stopped
  pending,  \* PendingVideoUpdates
  applied,  \* the geometry and the timing in use
  latest,   \* what the core last asked for
  refused,  \* the last base geometry that did not fit
  posts     \* bound

avVars == <<avPc, pending, applied, latest, refused, posts>>

NoInfo == [base |-> 0, timing |-> 0]
NoUpdates == [hasAv |-> FALSE, av |-> NoInfo, hasGeometry |-> FALSE,
              geometry |-> 0]

AvInit ==
  /\ avPc = "load" /\ pending = NoUpdates
  /\ applied = NoInfo /\ latest = NoInfo /\ refused = 0 /\ posts = 0

\* stageAv takes the place of everything posted before.  Mutant: an older
\* geometry stays and is applied after it.
GeometryKept == pending.hasGeometry
GeometryLeft == FALSE

Post == avPc # "stopped" /\ posts < MaxPosts /\ posts' = posts + 1

StageAv ==
  /\ Post /\ latest' = [base |-> posts', timing |-> posts']
  /\ pending' = [pending EXCEPT !.av = latest', !.hasAv = TRUE,
                                !.hasGeometry = GeometryLeft]
  /\ UNCHANGED <<avPc, applied, refused>>

\* stageGeometry: into the pending update, if there is one.
StageGeometry ==
  /\ Post /\ latest' = [latest EXCEPT !.base = posts']
  /\ pending' = IF pending.hasAv THEN [pending EXCEPT !.av.base = posts']
                ELSE [pending EXCEPT !.geometry = posts',
                                     !.hasGeometry = TRUE]
  /\ UNCHANGED <<avPc, applied, refused>>

\* core_load_game asks the core for its geometry and timing and forgets what
\* it posted while it loaded.
Configure ==
  /\ avPc = "load" /\ avPc' = "run"
  /\ applied' = latest /\ pending' = NoUpdates
  /\ UNCHANGED <<latest, refused, posts>>

\* After retro_run: the timing must be valid and the surfaces and the device
\* must take it, else the loop ends.
TakeAv ==
  /\ avPc = "run"
  /\ IF ~pending.hasAv
     THEN avPc' = "geometry" /\ UNCHANGED <<pending, applied>>
     ELSE /\ pending' = [pending EXCEPT !.hasAv = FALSE]
          /\ \/ avPc' = "geometry" /\ applied' = pending.av
             \/ avPc' = "stopped" /\ UNCHANGED applied
  /\ UNCHANGED <<latest, refused, posts>>

\* A geometry beyond the allocation is left out.
TakeGeometry ==
  /\ avPc = "geometry" /\ avPc' = "run"
  /\ IF ~pending.hasGeometry THEN UNCHANGED <<pending, applied, refused>>
     ELSE /\ pending' = [pending EXCEPT !.hasGeometry = FALSE]
          /\ \/ /\ applied' = [applied EXCEPT !.base = pending.geometry]
                /\ UNCHANGED refused
             \/ refused' = pending.geometry /\ UNCHANGED applied
  /\ UNCHANGED <<latest, posts>>

AvNext == StageAv \/ StageGeometry \/ Configure \/ TakeAv \/ TakeGeometry
AvSpec == AvInit /\ [][AvNext]_avVars

-----------------------------------------------------------------------------
(* Properties.                                                             *)

\* With nothing pending, the picture and the sound have the geometry and the
\* timing the core asked for last: no update is lost between two frames, and
\* none overtakes a later one.  A geometry that was refused is the exception.
LatestApplied ==
  avPc = "run" /\ ~pending.hasAv /\ ~pending.hasGeometry
    => /\ applied.timing = latest.timing
       /\ applied.base = latest.base \/ refused = latest.base
=============================================================================
