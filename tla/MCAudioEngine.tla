--------------------------- MODULE MCAudioEngine ---------------------------
(***************************************************************************)
(* Instances of the audio engine for TLC.                                  *)
(***************************************************************************)
EXTENDS AudioEngineProperties

AllControls == ControlNames

\* Control operations that leave the device playing.
PlayingControls == {"flush", "ffwd", "resize", "retime"}
=============================================================================
