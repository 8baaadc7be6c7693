--------------------------- MODULE MCAudioMixer ----------------------------
(***************************************************************************)
(* Small instances of AudioMixer.  A time unit is one stereo frame, so a   *)
(* delay of d units is d samples to the code and 2*d samples of audio.     *)
(***************************************************************************)
EXTENDS AudioMixer, TLC
=============================================================================
