----------------------------- MODULE MCCapture -----------------------------
(***************************************************************************)
(* What the recording relies on: frames are intact, and time is kept.      *)
(***************************************************************************)
EXTENDS Capture

(* The frame that is passed on is not filled meanwhile, nor passed before  *)
(* it is full.  (With the types of the variables.)                         *)
FrameIntact ==
  /\ time \in 1..MaxTime /\ available \in 0..CacheSize /\ sem \in 0..CacheSize
  /\ {first, last} \subseteq Slot /\ {writing, reading} \subseteq Slot \cup {-1}
  /\ Len(infos) <= 2 + fails
  /\ writing # -1 => writing # reading
  /\ reading # -1 => Frame.count > 0

(* A frame that was skipped, lost or late takes no time out of the video:  *)
(* the frames are encoded with the time they are for.                      *)
VideoKeepsTime == sentVideo.ts # 0 => sentVideo.ts = video.start + sentVideo.pts

(* A picture reaches the output with the time of the second tick after its *)
(* own, or of an earlier tick for every surface that was not mapped.       *)
PictureLag ==
  reading # -1 /\ Frame.pic # Blank => Frame.tick - Frame.pic \in (2 - fails)..2

(* The audio begins with the video, and each of its frames has its time    *)
(* from there on, whichever block the beginning falls into.  Only if it    *)
(* begins with buffered audio, the block that shows it may begin is left   *)
(* out (obs-encoder.c:950-954): from where it was due, all is that block   *)
(* ahead of its time, and never more.                                      *)
LeftOut(p) == IF left.at # 0 /\ left.at <= p THEN left.n ELSE 0

AudioKeepsTime ==
  /\ audio.start \in {0, video.start}
  /\ \A i \in DOMAIN sentAudio.frames :
       LET p == audio.start + sentAudio.pts + i - 1 IN
       sentAudio.frames[i] = p + LeftOut(p)
=============================================================================
