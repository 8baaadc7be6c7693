---------------------------- MODULE MCInterleaver ----------------------------
(* Small instances of Interleaver: a video packet lasts three ticks and an *)
(* audio packet two, as 33 ms of video to 21 ms of AAC.  Either encoder    *)
(* may run 66 ms ahead; keyframes are further apart than that.             *)
EXTENDS Interleaver

MCPeriod == [audio |-> 2, video |-> 3]
MCAhead == [audio |-> 6, video |-> 6]
MCJoins == {[audio |-> a, video |-> v] : a \in {0, 2, 4}, v \in {0, 3}}
=============================================================================
