----------------------------- MODULE AudioPipe -----------------------------
(***************************************************************************)
(* What the audio engine is for: a pipe from the core to the loudspeaker   *)
(* that plays the frames in the order they were produced and none twice,   *)
(* may lose frames, and can be flushed.  Threads, commands and providers   *)
(* are the implementation's.                                               *)
(***************************************************************************)
EXTENDS Integers

VARIABLES
  pipe,     \* the frames between the core and the loudspeaker
  produced, \* number of the latest frame the core delivered
  heard,    \* number of the frame last played
  barrier   \* no frame up to this one may be heard any more

vars == <<pipe, produced, heard, barrier>>

Init == pipe = {} /\ produced = 0 /\ heard = 0 /\ barrier = 0

\* The core delivers the next frames.
Produce ==
  /\ produced' > produced
  /\ pipe' = pipe \cup (produced + 1)..produced'
  /\ UNCHANGED <<heard, barrier>>

\* The oldest frame is played, and leaves the pipe.
Hear ==
  /\ heard' \in pipe /\ \A f \in pipe : heard' <= f
  /\ pipe' = pipe \ {heard'}
  /\ UNCHANGED <<produced, barrier>>

\* Frames are given up: refused by the provider, flushed, or left behind by
\* a shutdown.
Lose ==
  /\ pipe' \subseteq pipe
  /\ UNCHANGED <<produced, heard, barrier>>

\* A flush returns: everything up to a point the core had reached is gone.
Flush ==
  /\ barrier' \in barrier..produced
  /\ pipe' \subseteq pipe /\ \A f \in pipe' : f > barrier'
  /\ UNCHANGED <<produced, heard>>

Next == Produce \/ Hear \/ Lose \/ Flush

Spec == Init /\ [][Next]_vars
=============================================================================
