------------------------------ MODULE Capture ------------------------------
(***************************************************************************)
(* The video output and the audio stream feed a pair of encoders.          *)
(***************************************************************************)
EXTENDS VideoOutput, EncoderSync

CONSTANTS
  BlockSize,      \* AUDIO_OUTPUT_FRAMES
  FirstBlock      \* times at which the audio stream may begin

ASSUME CaptureConstants ==
  /\ BlockSize \in Nat \ {0} /\ FirstBlock \subseteq Nat \ {0}

VARIABLE block    \* start of the next block of the audio stream

captureVars == <<vars, encoders, block>>

CaptureInit == Init /\ InitSync /\ block \in FirstBlock

(* video_output_cur_frame: the encoder is called, and the frame is passed. *)
Deliver ==
  /\ reading # -1
  /\ \E received \in BOOLEAN : ReceiveVideo(Frame.ts * Interval, received)
  /\ Passed /\ UNCHANGED block

(* do_audio_output, on a clock of its own: the tick that goes on may last  *)
(* MaxCount intervals.                                                     *)
Due == block <= (time + MaxCount) * Interval

AudioBegins == Due /\ FirstReceived(block) /\ UNCHANGED <<vars, block>>

AudioBlock ==
  /\ Due /\ ReceiveAudio(block, BlockSize)
  /\ block' = block + BlockSize /\ UNCHANGED vars

Connect == (ConnectVideo \/ ConnectAudio) /\ UNCHANGED <<vars, block>>

CaptureNext ==
  \/ (Graphics \/ Wake) /\ UNCHANGED <<encoders, block>>
  \/ Deliver \/ AudioBegins \/ AudioBlock \/ Connect

Spec == CaptureInit /\ [][CaptureNext]_captureVars
=============================================================================
