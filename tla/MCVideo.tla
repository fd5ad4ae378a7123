------------------------------ MODULE MCVideo -------------------------------
(***************************************************************************)
(* Instances of the video pipeline for TLC.                                *)
(***************************************************************************)
EXTENDS VideoProperties, TLC

Threads == {"main", "worker"}
FrameNumbers == 0..MaxFrames

\* The surfaces of the pool are interchangeable.
SurfaceSymmetry == Permutations(Surfaces)
=============================================================================
