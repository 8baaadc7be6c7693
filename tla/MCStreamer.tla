------------------------------ MODULE MCStreamer ------------------------------
(***************************************************************************)
(* What the streamer owes the main app and its outputs.                    *)
(***************************************************************************)
EXTENDS Streamer

View(d) == INSTANCE OutputLifecycle WITH told <- posted[d]

(* Every variable has its type; a tracked pingback timer is scheduled.     *)
TypeOK ==
  /\ {isPlaying, didTerminate, isStreaming, isRecording, alive, pingTracked,
      recording, byRequest, tardy} \subseteq BOOLEAN
  /\ told \in [Dest -> Condition] /\ posted \in [Dest -> Condition]
  /\ \A i \in DOMAIN queue :
       queue[i] \in [kind : {"signal"}, dest : Dest, name : DOMAIN Announced]
                      \cup [kind : Delayed]
  /\ later \in [Delayed -> Nat] /\ requests \in 0..MaxRequests
  /\ pingTimers \in Nat /\ (pingTracked => pingTimers > 0)

(* stopStreaming reaches whatever runs: an output that is on is covered by *)
(* isStreaming, the recording by isRecording, however many of the outputs  *)
(* failed to start or stopped by themselves; the VP audio is open for both,*)
(* and nothing runs once applicationWillTerminate has shut libobs down.    *)
StopReachesAll ==
  /\ TypeOK
  /\ (\E d \in Dest : told[d] # "off") => isStreaming
  /\ recording => isRecording
  /\ isStreaming \/ isRecording => (alive = UseVpAudio)
  /\ didTerminate => ~recording /\ ~alive /\ \A d \in Dest : told[d] = "off"

(* After a ShouldTerminate request the main app hears that every output    *)
(* has stopped before the process ends, unless the delayed start ran in    *)
(* between: the stop blocks are queued ahead of the terminate block.       *)
StopsHeardBeforeExit ==
  byRequest /\ ~tardy => \A d \in Dest : posted[d] = "off"

(* Each destination's notifications follow the output's own lifecycle.     *)
ViewIsLifecycle ==
  [][\A d \in Dest : View(d)!Next \/ UNCHANGED posted[d]]_posted

(* A request ends the process.                                             *)
RequestEnds == (requests > 0) ~> didTerminate

=============================================================================
