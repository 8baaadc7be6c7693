------------------------------- MODULE Encoder -------------------------------
(***************************************************************************)
(* The video and the audio encoder of obs-encoder.c, which all outputs     *)
(* share: the thread that feeds each of them with frames, and the threads  *)
(* of the outputs that initialize, pair, start and stop them.              *)
(*                                                                         *)
(* A step runs from one lock operation to the next.  The three mutexes are *)
(* the encoder's init_mutex and callbacks_mutex and the input_mutex of the *)
(* media output it is connected to; all three are recursive.  Frames have  *)
(* no content here, and where the code compares timestamps of the two      *)
(* media (EncoderStart has them) the outcome is a choice.                  *)
(***************************************************************************)
EXTENDS Naturals, Sequences, SequencesExt

CONSTANTS
  Output,       \* the outputs that share the two encoders
  MaxCaptures,  \* bound: captures that are begun
  MayFail,      \* the encoders one of whose encodings (bound: one) may fail
  Free          \* the owner of a mutex nobody holds

Enc == {"video", "audio"}

ASSUME EncoderConstants ==
  /\ Free \notin Output \cup Enc /\ Output \cap Enc = {}
  /\ MaxCaptures \in Nat /\ MayFail \subseteq Enc

VARIABLES
  enc,        \* the fields of struct obs_encoder
  init,       \* owner of init_mutex, per encoder
  cb,         \* owner of callbacks_mutex
  input,      \* owner of the media output's input_mutex
  pc,         \* <<call, encoder>> each output's thread is in
  at,         \* <<place, index>> each media thread is at
  captures,   \* number of captures begun
  undercut,   \* outputs one of whose encoders was shut down between their
              \*   initializing it and starting it
  failed      \* encoders of which an encoding failed

locks == <<init, cb, input>>
vars == <<enc, init, cb, input, pc, at, captures, undercut, failed>>

Other(e) == IF e = "video" THEN "audio" ELSE "video"

Init ==
  /\ enc = [e \in Enc |->
             [data |-> FALSE, initialized |-> FALSE, active |-> FALSE,
              connected |-> FALSE, paired |-> FALSE,
              firstReceived |-> FALSE, started |-> FALSE,
              callbacks |-> <<>>]]
  /\ init = [e \in Enc |-> Free]
  /\ cb = [e \in Enc |-> Free]
  /\ input = [e \in Enc |-> Free]
  /\ pc = [o \in Output |-> <<"idle", "video">>]
  /\ at = [e \in Enc |-> <<"wait", 0>>]
  /\ captures = 0
  /\ undercut = {} /\ failed = {}

-----------------------------------------------------------------------------
(* What a call does to the encoder's fields.                               *)

(* obs_encoder_shutdown                                                    *)
Shutdown(r) ==
  IF r.data THEN [r EXCEPT !.data = FALSE, !.paired = FALSE,
                           !.firstReceived = FALSE, !.started = FALSE]
            ELSE r

(* remove_connection                                                       *)
Unconnected(r) ==
  [Shutdown([r EXCEPT !.connected = FALSE]) EXCEPT !.active = FALSE]

(* What the last stop does besides.  Nothing destroys an encoder while the *)
(* helper streams: destroy_on_stop (obs-encoder.c:510) is left out.        *)
Stopped(r) == [Unconnected(r) EXCEPT !.initialized = FALSE]

(* obs_encoder_initialize_internal; creating the codec succeeds.           *)
Initialized(r) ==
  IF r.active \/ r.initialized
  THEN r ELSE [Shutdown(r) EXCEPT !.data = TRUE, !.initialized = TRUE]

-----------------------------------------------------------------------------
(* The thread of an output.                                                *)

(* What a capture calls, in the order of obs_output_initialize_encoders,   *)
(* hook_data_capture and obs_output_end_data_capture.                      *)
Calls ==
  << <<"initialize", "video">>, <<"initialize", "audio">>,
     <<"pair", "video">>, <<"start", "audio">>, <<"start", "video">>,
     <<"capturing", "video">>, <<"stop", "video">>, <<"stop", "audio">>,
     <<"idle", "video">> >>

Follower(call) ==
  Calls[1 + CHOOSE i \in 1..Len(Calls) - 1 : Calls[i] = call]

Return(o, call) == pc' = [pc EXCEPT ![o] = Follower(call)]
Goto(o, call, e) == pc' = [pc EXCEPT ![o] = <<call, e>>]

BeginCapture(o) ==
  /\ pc[o] = <<"idle", "video">> /\ captures < MaxCaptures
  /\ captures' = captures + 1
  /\ undercut' = undercut \ {o}
  /\ Goto(o, "initialize", "video")
  /\ UNCHANGED <<enc, locks, at, failed>>

Initialize(o, e) ==
  /\ pc[o] = <<"initialize", e>> /\ init[e] = Free
  /\ enc' = [enc EXCEPT ![e] = Initialized(@)]
  /\ Return(o, pc[o])
  /\ UNCHANGED <<locks, at, captures, undercut, failed>>

(* The check before the locks is repeated under them; the order audio then *)
(* video is the only place where two init_mutexes are held.                *)
PairEncoders(o) ==
  /\ pc[o][1] = "pair" /\ \A e \in Enc : init[e] = Free
  /\ enc' = IF \A e \in Enc : ~enc[e].active /\ ~enc[e].paired
            THEN [e \in Enc |-> [enc[e] EXCEPT !.paired = TRUE]] ELSE enc
  /\ Return(o, pc[o])
  /\ UNCHANGED <<locks, at, captures, undercut, failed>>

(* obs_encoder_start gives up silently when there is no codec.             *)
Start(o, e) ==
  /\ pc[o] = <<"start", e>> /\ init[e] = Free
  /\ IF enc[e].data THEN /\ init' = [init EXCEPT ![e] = o]
                         /\ Goto(o, "push", e)
                    ELSE Return(o, pc[o]) /\ UNCHANGED init
  /\ UNCHANGED <<enc, cb, input, at, captures, undercut, failed>>

(* callbacks_mutex is taken and given back; the first callback makes the   *)
(* connection.                                                             *)
Push(o, e) ==
  /\ pc[o] = <<"push", e>> /\ cb[e] = Free
  /\ enc' = [enc EXCEPT ![e].callbacks =
               IF Contains(@, o) THEN @ ELSE Append(@, o)]
  /\ IF enc[e].callbacks = <<>>
     THEN Goto(o, "connect", e) /\ UNCHANGED init
     ELSE Return(o, <<"start", e>>) /\ init' = [init EXCEPT ![e] = Free]
  /\ UNCHANGED <<cb, input, at, captures, undercut, failed>>

(* add_connection                                                          *)
Connect(o, e) ==
  /\ pc[o] = <<"connect", e>> /\ input[e] = Free
  /\ enc' = [enc EXCEPT ![e].connected = TRUE, ![e].active = TRUE]
  /\ init' = [init EXCEPT ![e] = Free]
  /\ Return(o, <<"start", e>>)
  /\ UNCHANGED <<cb, input, at, captures, undercut, failed>>

EndCapture(o) ==
  /\ pc[o][1] = "capturing" /\ Return(o, pc[o])
  /\ UNCHANGED <<enc, locks, at, captures, undercut, failed>>

Stop(o, e) ==
  /\ pc[o] = <<"stop", e>> /\ init[e] = Free
  /\ init' = [init EXCEPT ![e] = o] /\ Goto(o, "erase", e)
  /\ UNCHANGED <<enc, cb, input, at, captures, undercut, failed>>

LastErased(callbacks, o) ==  \* (mutant)
  IF callbacks = <<>> THEN <<>> ELSE Front(callbacks)

(* get_callback_idx of a callback that is there, and da_erase of that.     *)
CallbackIdx(callbacks, o) == CHOOSE i \in DOMAIN callbacks : callbacks[i] = o

Erased(callbacks, o) ==
  IF Contains(callbacks, o) THEN RemoveAt(callbacks, CallbackIdx(callbacks, o)) ELSE callbacks

(* Only the one that takes the last callback away disconnects; after a     *)
(* full stop there is none left to take.                                   *)
Erase(o, e) ==
  /\ pc[o] = <<"erase", e>> /\ cb[e] = Free
  /\ enc' = [enc EXCEPT ![e].callbacks = Erased(@, o)]
  /\ IF enc[e].callbacks = <<o>>
     THEN Goto(o, "disconnect", e) /\ UNCHANGED init
     ELSE Return(o, <<"stop", e>>) /\ init' = [init EXCEPT ![e] = Free]
  /\ UNCHANGED <<cb, input, at, captures, undercut, failed>>

(* Outputs that have initialized e and not yet started it.                 *)
Between(e) ==
  {o \in Output :
     \/ pc[o] \in {<<"pair", "video">>, <<"start", e>>}
     \/ e = "video" /\ pc[o] \in {"initialize", "start", "push", "connect"}
                                 \X {"audio"}}

NotWaited(e) == TRUE  \* (mutant)

(* video_output_disconnect and audio_output_disconnect wait for the frame  *)
(* that is being encoded.                                                  *)
NotEncoding(e) == input[e] = Free

Disconnect(o, e) ==
  /\ pc[o] = <<"disconnect", e>> /\ NotEncoding(e)
  /\ enc' = [enc EXCEPT ![e] = Stopped(@)]
  /\ init' = [init EXCEPT ![e] = Free]
  /\ undercut' = undercut \cup Between(e)
  /\ Return(o, <<"stop", e>>)
  /\ UNCHANGED <<cb, input, at, captures, failed>>

OutputStep(o) ==
  \/ PairEncoders(o)
  \/ \E e \in Enc : \/ Initialize(o, e) \/ Start(o, e) \/ Push(o, e)
                    \/ Connect(o, e) \/ Stop(o, e) \/ Erase(o, e)
                    \/ Disconnect(o, e)

-----------------------------------------------------------------------------
(* The thread that feeds an encoder: video_thread or audio_thread.         *)

Be(e, place) == at' = [at EXCEPT ![e] = <<place, 0>>]

LeaveLocked(e) == Be(e, "wait") /\ UNCHANGED input  \* (mutant)

(* It holds input_mutex for as long as its inputs are called.              *)
Leave(e) == Be(e, "wait") /\ input' = [input EXCEPT ![e] = Free]

(* receive_video, receive_audio                                            *)
Receive(e) ==
  /\ at[e][1] = "wait" /\ input[e] = Free /\ enc[e].connected
  /\ input' = [input EXCEPT ![e] = e] /\ Be(e, "received")
  /\ enc' = [enc EXCEPT ![e].firstReceived = @ \/ e = "audio"]
  /\ UNCHANGED <<init, cb, pc, captures, undercut, failed>>

(* Has this medium begun, and must it otherwise look at the other one?     *)
Begun(e) == IF e = "video" THEN enc[e].firstReceived ELSE enc[e].started
OtherStarted(e) == enc[Other(e)].started  \* (mutant)

OtherBegun(e) ==
  IF e = "video" THEN enc["audio"].firstReceived ELSE enc["video"].started

(* The frame is dropped, or buffered if it is audio.                       *)
WaitForOther(e) ==
  /\ at[e][1] = "received" /\ ~Begun(e) /\ enc[e].paired
  /\ Leave(e)
  /\ UNCHANGED <<enc, init, cb, pc, captures, undercut, failed>>

(* Audio goes to the loop that encodes as many frames as are buffered.     *)
Proceed(e) ==
  /\ at[e][1] = "received"
  /\ Begun(e) \/ ~enc[e].paired \/ OtherBegun(e)
  /\ enc' = [enc EXCEPT ![e].started = TRUE]
  /\ Be(e, IF e = "video" THEN "encode" ELSE "buffered")
  /\ UNCHANGED <<locks, pc, captures, undercut, failed>>

NextBuffered(e) ==
  /\ at[e][1] = "buffered" /\ Be(e, "encode")
  /\ UNCHANGED <<enc, locks, pc, captures, undercut, failed>>

NoneBuffered(e) ==
  /\ at[e][1] = "buffered" /\ Leave(e)
  /\ UNCHANGED <<enc, init, cb, pc, captures, undercut, failed>>

(* Where a thread goes after do_encode; audio also after an error, with    *)
(* what is still buffered.                                                 *)
Encoded(e) == IF e = "video" THEN Leave(e)
                             ELSE Be(e, "buffered") /\ UNCHANGED input

(* The codec keeps the frame and gives no packet.                          *)
EncodeDelayed(e) ==
  /\ at[e][1] = "encode" /\ Encoded(e)
  /\ UNCHANGED <<enc, init, cb, pc, captures, undercut, failed>>

EncodePacket(e) ==
  /\ at[e][1] = "encode" /\ Be(e, "packet")
  /\ enc' = [enc EXCEPT ![e].firstReceived = TRUE]
  /\ UNCHANGED <<locks, pc, captures, undercut, failed>>

EncodeFails(e) ==
  /\ at[e][1] = "encode" /\ e \in MayFail \ failed
  /\ failed' = failed \cup {e} /\ Be(e, "full_stop")
  /\ UNCHANGED <<enc, locks, pc, captures, undercut>>

PassCallbacks(e) == UNCHANGED cb  \* (mutant)

TakeCallbacks(e) == cb[e] = Free /\ cb' = [cb EXCEPT ![e] = e]

(* The callbacks are called from the last to the first, under their mutex. *)
LockCallbacks(e) ==
  /\ at[e][1] = "packet" /\ TakeCallbacks(e)
  /\ at' = [at EXCEPT ![e] = <<"deliver", Len(enc[e].callbacks)>>]
  /\ UNCHANGED <<enc, init, input, pc, captures, undercut, failed>>

Deliver(e) ==
  /\ at[e][1] = "deliver" /\ at[e][2] > 0
  /\ at' = [at EXCEPT ![e][2] = @ - 1]
  /\ UNCHANGED <<enc, locks, pc, captures, undercut, failed>>

UnlockCallbacks(e) ==
  /\ at[e] = <<"deliver", 0>>
  /\ cb' = [cb EXCEPT ![e] = Free] /\ Encoded(e)
  /\ UNCHANGED <<enc, init, pc, captures, undercut, failed>>

(* full_stop: callbacks_mutex, under which the connection is removed; that *)
(* needs init_mutex.                                                       *)
FullStop(e) ==
  /\ at[e][1] = "full_stop" /\ TakeCallbacks(e) /\ Be(e, "shutdown")
  /\ enc' = [enc EXCEPT ![e].callbacks = <<>>, ![e].connected = FALSE]
  /\ UNCHANGED <<init, input, pc, captures, undercut, failed>>

FullStopShutdown(e) ==
  /\ at[e][1] = "shutdown" /\ init[e] = Free
  /\ enc' = [enc EXCEPT ![e] = Unconnected(@)]
  /\ cb' = [cb EXCEPT ![e] = Free] /\ Encoded(e)
  /\ undercut' = undercut \cup Between(e)
  /\ UNCHANGED <<init, pc, captures, failed>>

MediaStep(e) ==
  \/ Receive(e) \/ WaitForOther(e) \/ Proceed(e)
  \/ NextBuffered(e) \/ NoneBuffered(e)
  \/ EncodeDelayed(e) \/ EncodePacket(e) \/ EncodeFails(e)
  \/ LockCallbacks(e) \/ Deliver(e) \/ UnlockCallbacks(e)
  \/ FullStop(e) \/ FullStopShutdown(e)

Next ==
  \/ \E o \in Output : BeginCapture(o) \/ EndCapture(o) \/ OutputStep(o)
  \/ \E e \in Enc : MediaStep(e)

Spec == Init /\ [][Next]_vars

(* Threads run; a mutex that is released again and again is had at last;   *)
(* a frame comes that is not older than the first audio, the video codec   *)
(* gives a packet at last and the buffered audio runs out.                 *)
Fairness ==
  /\ \A o \in Output : SF_vars(OutputStep(o))
  /\ \A e \in Enc : WF_vars(MediaStep(e))
  /\ SF_vars(Proceed("video")) /\ SF_vars(EncodePacket("video"))
  /\ SF_vars(NoneBuffered("audio"))

FairSpec == Spec /\ Fairness
=============================================================================
