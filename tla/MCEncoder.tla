------------------------------ MODULE MCEncoder ------------------------------
(***************************************************************************)
(* What the outputs that share the encoders may rely on.                   *)
(***************************************************************************)
EXTENDS Encoder

Fields ==
  [data : BOOLEAN, initialized : BOOLEAN, active : BOOLEAN, connected : BOOLEAN,
   paired : BOOLEAN, firstReceived : BOOLEAN, started : BOOLEAN, callbacks : Seq(Output)]

TypeOK ==
  /\ enc \in [Enc -> Fields] /\ \A e \in Enc : IsInjective(enc[e].callbacks)
  /\ \A lock \in {init, cb, input} : lock \in [Enc -> Output \cup Enc \cup {Free}]

(* The thread of o has not called obs_encoder_start of e, or has returned  *)
(* from obs_encoder_stop.                                                  *)
NoUse(o, e) ==
  \/ pc[o][1] \in {"idle", "initialize", "pair"} \/ pc[o] = <<"start", e>>
  \/ e = "video" /\ pc[o][2] = "audio"

(* After obs_encoder_stop has returned no packet comes any more: the       *)
(* output may be gone by then.                                             *)
NoPacketAfterStop ==
  \A e \in Enc : at[e][1] = "deliver" /\ at[e][2] > 0
    => /\ at[e][2] \in DOMAIN enc[e].callbacks
       /\ ~NoUse(enc[e].callbacks[at[e][2]], e)

(* An output whose capture has begun is fed with both media, unless one of *)
(* the encoders was shut down or failed on the way.                        *)
CaptureIsFed ==
  \A o \in Output, e \in Enc :
    pc[o][1] = "capturing" /\ o \notin undercut /\ e \notin failed
      => Contains(enc[e].callbacks, o)

(* After an encoding error full_stop has destroyed the codec, but          *)
(* receive_audio goes on with what is buffered (obs-encoder.c:1007).       *)
LoopsAfterError(e) == e = "audio" /\ e \in failed /\ at[e][1] # "wait"

(* The codec is not destroyed under the thread that encodes with it; but   *)
(* for that one case, in which the code does encode without a codec.  It   *)
(* ends with the call of receive_audio: an encoder that failed is not fed  *)
(* again, and gets no codec again.  And whenever no call is changing it,   *)
(* an encoder is connected and active exactly while it has callbacks, and  *)
(* then it has a codec; one that counts as initialized has a codec too,    *)
(* unless it failed.                                                       *)
CodecAlive ==
  /\ TypeOK
  /\ \A e \in Enc : at[e][1] \in {"encode", "packet"} => enc[e].data \/ LoopsAfterError(e)
  /\ \A e \in Enc : e \in failed /\ at[e][1] = "wait" => ~enc[e].connected /\ ~enc[e].data
  /\ \A e \in Enc : init[e] = Free /\ at[e][1] # "shutdown" =>
       /\ enc[e].active <=> enc[e].callbacks # <<>>
       /\ enc[e].connected <=> enc[e].active
       /\ enc[e].active => enc[e].data
       /\ enc[e].initialized /\ e \notin failed => enc[e].data

(* A stop returns, whatever the media threads are doing.                   *)
StopReturns ==
  \A o \in Output : pc[o][1] = "stop" ~> pc[o][1] = "idle" \/ failed # {}

(* Paired encoders wait for each other's first frame, but not for ever.    *)
PairStarts ==
  (\A e \in Enc : enc[e].connected)
    ~> enc["video"].firstReceived \/ \E e \in Enc : ~enc[e].connected
=============================================================================
