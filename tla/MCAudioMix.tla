---------------------------- MODULE MCAudioMix -----------------------------
(***************************************************************************)
(* What the encoders and outputs rely on of the mixed stream.              *)
(***************************************************************************)
EXTENDS AudioMix

CONSTANTS mic, remote  \* sources

MCLateness == [s \in Source |-> IF s = mic THEN {0, 1} ELSE {1}]
MCSyncOffset == [s \in Source |-> IF s = mic THEN {0, 3} ELSE {1}]

MixTypeOK ==
  /\ now \in Start..MaxTime /\ stage \in {"sleep", "measure", "mix", "discard"}
  /\ \A s \in Source : Len(src[s].buf) <= MaxBuf
  /\ wait \in 0..ticks /\ ticks \in 0..MaxTicks

Pending == IF stage = "sleep" THEN 0 ELSE 1

(* The stream is delivered block after block, while buffering grows too:   *)
(* nothing is delivered twice and no time is left out.  For the blocks to  *)
(* be made follow one another up to the clock's, as many as the buffering  *)
(* counts, also when more are added in front.                              *)
OutputUnbroken ==
  /\ MixTypeOK
  /\ Len(windows) = ticks + Pending
  /\ \A i \in DOMAIN windows : windows[i] = next - (Len(windows) + 1 - i) * Frames
  /\ out[1] # 0 => out[2] = out[1] + Frames

(* A listener hears the frames of a source in order, and all of them but   *)
(* for those the code is known to drop: blocks placed anew, come too late  *)
(* for the buffering, stopped, or in between the mix and the discard.      *)
HeardInOrder ==
  [][out' # out => \A s \in Root, i \in 1..Frames :
       LET f == mix'[s][i]
           before == LastBefore(mix'[s], i, lastHeard[s])
       IN f.n # 0 => f.n > before /\ (f.n = before + 1 \/ f.new \/ s \in cut)]_mixVars

(* What is heard at a time is what the source gave for it, shifted by the  *)
(* offset, but for a smoothing when it was appended and one when it was    *)
(* put out.  The offset is the one the last block found; only one that was *)
(* set after there was none is not taken up while blocks can be appended.  *)
OnTime ==
  /\ \A s \in Source : src[s].taken \in {src[s].offset, 0}
  /\ \A s \in Root, i \in 1..Frames : LET f == mix[s][i] IN
       f.n # 0 /\ ~f.moved => Diff(out[2] + i - 1, f.t) <= 2 * (Smoothing - 1)
=============================================================================
