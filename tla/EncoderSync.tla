---------------------------- MODULE EncoderSync ----------------------------
(***************************************************************************)
(* How a video encoder and the audio encoder it is paired with find one    *)
(* start for both, and count the time of what they encode from there       *)
(* (obs-encoder.c).  Time is counted in audio sample frames; an audio      *)
(* frame is the time it is for.  A step is a call of an encoder by the     *)
(* thread of its medium.                                                   *)
(***************************************************************************)
EXTENDS Integers, Sequences, SequencesExt

CONSTANTS
  Interval,       \* frame time of the video
  FrameSize       \* framesize: audio frames of a packet

ASSUME SyncConstants == {Interval, FrameSize} \subseteq Nat \ {0}

VARIABLES
  video,      \* first_received, start_ts, cur_pts of the video encoder, and
              \*   whether it is connected to the video output
  audio,      \* the same of the audio encoder, its first_raw_ts and
              \*   audio_input_buffer
  sentVideo,  \* time and pts of the frame last encoded
  sentAudio,  \* frames last encoded, and the pts of the first
  left        \* the block left out when the buffered audio was used: its
              \*   time and frames, 0 as long as there is none

encoders == <<video, audio, sentVideo, sentAudio, left>>

InitSync ==
  /\ video = [on |-> FALSE, first |-> FALSE, start |-> 0, pts |-> 0]
  /\ audio = [on |-> FALSE, first |-> FALSE, start |-> 0, pts |-> 0, firstRaw |-> 0,
              buf |-> <<>>]
  /\ sentVideo = [ts |-> 0, pts |-> 0] /\ sentAudio = [frames |-> <<>>, pts |-> 0]
  /\ left = [at |-> 0, n |-> 0]

Without(frames, k) == SubSeq(frames, k + 1, Len(frames))

ConnectVideo ==
  /\ ~video.on /\ video' = [video EXCEPT !.on = TRUE]
  /\ UNCHANGED <<audio, sentVideo, sentAudio, left>>

ConnectAudio ==
  /\ ~audio.on /\ audio' = [audio EXCEPT !.on = TRUE]
  /\ UNCHANGED <<video, sentVideo, sentAudio, left>>

(* Video begins with the first frame the audio can begin with.             *)
Waits(ts) == ~video.first /\ (~audio.first \/ audio.firstRaw > ts)

(* receive_video; the encoder may hold its first packets back.             *)
ReceiveVideo(ts, received) ==
  IF ~video.on \/ Waits(ts) THEN UNCHANGED encoders
  ELSE /\ video' = [video EXCEPT !.start = IF @ = 0 THEN ts ELSE @,
                                 !.first = @ \/ received, !.pts = @ + Interval]
       /\ sentVideo' = [ts |-> ts, pts |-> video.pts]
       /\ UNCHANGED <<audio, sentAudio, left>>

(* calc_offset_size                                                        *)
Offset(from) == IF from < video.start THEN video.start - from ELSE 0

(* buffer_audio                                                            *)
TooEarlyUnended(t, n) == video.start = 0
TooEarly(t, n) == video.start = 0 \/ t + n <= video.start
UsesBuffer(t) == video.start < t

Buffered(data) ==
  LET t == data[1] IN
  IF audio.start # 0 \/ TooEarly(t, Len(data)) THEN [audio EXCEPT !.buf = @ \o data]
  ELSE [audio EXCEPT !.start = video.start,
                     !.buf = IF UsesBuffer(t) THEN Without(@, Offset(audio.firstRaw))
                             ELSE Without(data, Offset(t))]

(* receive_audio: the first block is noted, and video may begin with it    *)
(* before it is buffered.                                                  *)
FirstReceived(t) ==
  /\ audio.on /\ ~audio.first
  /\ audio' = [audio EXCEPT !.first = TRUE, !.firstRaw = t, !.buf = <<>>]
  /\ UNCHANGED <<video, sentVideo, sentAudio, left>>

ReceiveAudio(t, n) ==
  LET b == Buffered([i \in 1..n |-> t + i - 1])
      whole == IF b.start = 0 THEN 0 ELSE (Len(b.buf) \div FrameSize) * FrameSize
      uses == audio.start = 0 /\ ~TooEarly(t, n) /\ UsesBuffer(t)
  IN IF ~audio.on THEN UNCHANGED encoders
     ELSE /\ audio.first
          /\ audio' = [b EXCEPT !.buf = Without(@, whole), !.pts = @ + whole]
          /\ sentAudio' = IF whole = 0 THEN sentAudio
                          ELSE [frames |-> SubSeq(b.buf, 1, whole), pts |-> b.pts]
          /\ left' = IF uses THEN [at |-> t, n |-> n] ELSE left
          /\ UNCHANGED <<video, sentVideo>>
=============================================================================
