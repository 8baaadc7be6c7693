------------------------------- MODULE Streamer -------------------------------
(***************************************************************************)
(* The helper's control of its outputs: VPEncodingHelperAppDelegate and    *)
(* VPObsStreamer.  All of it runs on the main thread, one callback at a    *)
(* time, but the callbacks come from three places whose order nobody       *)
(* fixes: the run loop (messages from the main app), the main queue        *)
(* (blocks the outputs' threads dispatch when they signal) and blocks      *)
(* dispatched for later.                                                   *)
(*                                                                         *)
(* An output is what OutputLifecycle says an output is; ObsOutput shows    *)
(* when libobs keeps that contract.                                        *)
(***************************************************************************)
EXTENDS Naturals, Sequences

CONSTANTS
  numStreams,    \* _numStreams
  UseVpAudio,    \* useVidpressoAudioInput
  MaxRequests,   \* bound: ShouldTerminate notifications
  MaxQueue       \* bound: blocks waiting on the main queue when a signal comes

ASSUME StreamerAssumption ==
  /\ numStreams \in Nat /\ UseVpAudio \in BOOLEAN
  /\ MaxRequests \in Nat /\ MaxQueue \in Nat

VARIABLES
  isPlaying, didTerminate,     \* VPEncodingHelperAppDelegate
  isStreaming, isRecording,    \* VPObsStreamer
  alive,         \* g_vpAudioSourceAlive
  pingTimers,    \* the repeating pingback timers that are scheduled
  pingTracked,   \* _pingbackToMainProcessTimer names one of them
  told,          \* per output: the condition its signals describe
  recording,     \* the file output is running
  queue,         \* the main queue: blocks in the order they were dispatched
  later,         \* how many blocks of each kind dispatch_after still holds
  posted,        \* per destination: the condition the main app was notified of
  requests,      \* ShouldTerminate notifications received
  byRequest,     \* history: the process ended in the block a request left
  tardy,         \* history: startStreaming ran after such a request
  startsHeard    \* history: "start" signals the main thread handled

vars == << isPlaying, didTerminate, isStreaming, isRecording, alive, pingTimers,
           pingTracked, told, recording, queue, later, posted, requests,
           byRequest, tardy, startsHeard >>

streamer == << isStreaming, isRecording, alive >>
pings    == << pingTimers, pingTracked >>
outputs  == << told, recording >>
history  == << byRequest, tardy, startsHeard >>

Dest == 0..(numStreams - 1)
Lifecycle(d) == INSTANCE OutputLifecycle WITH told <- told[d]
Condition == {"off", "opening", "live", "retrying"}
Delayed == {"start", "unping", "terminate"}

(* The condition each signal announces, and the block its callback makes.  *)
Announced == [start |-> "live", reconnect |-> "retrying",
              reconnect_success |-> "live", stop |-> "off"]
(* (mutant) Every signal is taken for the first output's.               *)
SignalBlockFirst(d, name) == [kind |-> "signal", dest |-> 0, name |-> name]
SignalBlock(d, name) == [kind |-> "signal", dest |-> d, name |-> name]

After(kind) == [later EXCEPT ![kind] = @ + 1]

Init ==
  /\ isPlaying = FALSE /\ didTerminate = FALSE
  /\ isStreaming = FALSE /\ isRecording = FALSE /\ alive = TRUE
  /\ pingTimers = 0 /\ pingTracked = FALSE
  /\ told = [d \in Dest |-> "off"] /\ recording = FALSE
  /\ queue = <<>> /\ later = [k \in Delayed |-> 0]
  /\ posted = [d \in Dest |-> "off"] /\ requests = 0
  /\ byRequest = FALSE /\ tardy = FALSE /\ startsHeard = 0

-----------------------------------------------------------------------------
(* An output's thread signals: the callback dispatches a block that names  *)
(* the output by its index.                                                *)
Signals(d, name) ==
  /\ ~didTerminate /\ Len(queue) < MaxQueue
  /\ told' = [told EXCEPT ![d] = Announced[name]]
  /\ queue' = Append(queue, SignalBlock(d, name))
  /\ UNCHANGED << isPlaying, didTerminate, streamer, pings, recording, later,
                  posted, requests, history >>

OutputSignals(d) ==
  \/ Signals(d, "start") /\ Lifecycle(d)!Started
  \/ Signals(d, "reconnect") /\ Lifecycle(d)!Reconnecting
  \/ Signals(d, "reconnect_success") /\ Lifecycle(d)!Reconnected
  \/ Signals(d, "stop") /\ Lifecycle(d)!Stopped /\ told[d] # "off"

-----------------------------------------------------------------------------

(* (mutant) The last output's result decides.                           *)
StreamsByLast(started) == numStreams - 1 \in started
Streams(started) == started # {}

(* startStreaming: every output is tried, and one that starts is enough.   *)
startStreaming ==
  IF isStreaming
    THEN UNCHANGED << streamer, outputs, posted >>
    ELSE \E started \in SUBSET Dest, filed \in BOOLEAN :
           /\ told' = [d \in Dest |-> IF d \in started THEN "opening" ELSE told[d]]
           /\ posted' = [d \in Dest |-> IF d \in started THEN "opening" ELSE posted[d]]
           /\ recording' = (recording \/ filed)
           /\ isStreaming' = Streams(started)
           /\ isRecording' = (isRecording \/ filed)
           /\ alive' = UseVpAudio

(* stopStreaming: every output is stopped, the ones that failed to start   *)
(* or have stopped by themselves too; each signals "stop" before the call  *)
(* returns.  The blocks join those waiting.                                *)
stopStreaming(waiting) ==
  /\ IF isStreaming
       THEN /\ told' = [d \in Dest |-> "off"]
            /\ queue' = waiting \o [i \in 1..numStreams |-> SignalBlock(i - 1, "stop")]
       ELSE queue' = waiting /\ UNCHANGED told
  /\ recording' = (recording /\ ~isRecording)
  /\ isStreaming' = FALSE /\ isRecording' = FALSE /\ alive' = FALSE

-----------------------------------------------------------------------------
(* vpSourceReceivedData: the first message of the main app's video port.   *)
ReceiveData ==
  /\ ~didTerminate /\ ~isPlaying
  /\ isPlaying' = TRUE
  /\ later' = After("start")
  /\ UNCHANGED << didTerminate, streamer, pings, outputs, queue, posted, requests,
                  history >>

(* helperShouldTerminate: stop now, terminate 10 ms later.                 *)
ShouldTerminate ==
  /\ ~didTerminate /\ requests < MaxRequests
  /\ stopStreaming(queue)
  /\ later' = After("terminate")
  /\ requests' = requests + 1
  /\ UNCHANGED << isPlaying, didTerminate, pings, posted, history >>

(* (mutants) A delayed block overtakes those waiting, or gives way to them.*)
OvertakesQueue(kind) == << [kind |-> kind] >> \o queue
YieldsToQueue(kind) == IF queue = <<>> THEN << [kind |-> kind] >> ELSE queue
JoinsQueue(kind) == Append(queue, [kind |-> kind])

(* A delay is over: its block joins the main queue behind those waiting.   *)
DelayOver(kind) ==
  /\ ~didTerminate /\ later[kind] > 0
  /\ later' = [later EXCEPT ![kind] = @ - 1]
  /\ queue' = JoinsQueue(kind)
  /\ UNCHANGED << isPlaying, didTerminate, streamer, pings, outputs, posted,
                  requests, history >>

(* The next block of the main queue.                                       *)
Dequeue(kind) ==
  /\ ~didTerminate /\ queue # <<>> /\ Head(queue).kind = kind

RunStart ==
  /\ Dequeue("start")
  /\ startStreaming
  /\ queue' = Tail(queue)
  /\ tardy' = (tardy \/ requests > 0)
  /\ UNCHANGED << isPlaying, didTerminate, pings, later, requests, byRequest,
                  startsHeard >>

(* outputStarted, outputStopped, outputReconnecting, outputReconnectSuccess*)
(* post a notification; the first also makes a timer, the second has the   *)
(* tracked one invalidated a second later.                                 *)
RunSignal ==
  /\ Dequeue("signal")
  /\ LET d == Head(queue).dest
         name == Head(queue).name
     IN /\ posted' = [posted EXCEPT ![d] = Announced[name]]
        /\ pingTimers' = IF name = "start" THEN pingTimers + 1 ELSE pingTimers
        /\ pingTracked' = (pingTracked \/ name = "start")
        /\ later' = IF name = "stop" THEN After("unping") ELSE later
        /\ startsHeard' = IF name = "start" THEN startsHeard + 1 ELSE startsHeard
  /\ queue' = Tail(queue)
  /\ UNCHANGED << isPlaying, didTerminate, streamer, outputs, requests, byRequest,
                  tardy >>

RunUnping ==
  /\ Dequeue("unping")
  /\ pingTimers' = IF pingTracked THEN pingTimers - 1 ELSE pingTimers
  /\ pingTracked' = FALSE
  /\ queue' = Tail(queue)
  /\ UNCHANGED << isPlaying, didTerminate, streamer, outputs, later, posted,
                  requests, history >>

(* applicationWillTerminate: stop, obs_shutdown, and the process is gone   *)
(* with whatever the main queue still held.                                *)
WillTerminate ==
  /\ didTerminate' = TRUE
  /\ UNCHANGED << isPlaying, pings, later, posted, requests, tardy,
                  startsHeard >>

RunTerminate ==
  /\ Dequeue("terminate")
  /\ stopStreaming(Tail(queue)) /\ WillTerminate
  /\ byRequest' = TRUE

(* The application is quit without a ShouldTerminate notification.         *)
Quit ==
  /\ ~didTerminate
  /\ stopStreaming(queue) /\ WillTerminate
  /\ UNCHANGED byRequest

RunBlock == RunStart \/ RunSignal \/ RunUnping \/ RunTerminate

-----------------------------------------------------------------------------
Next ==
  \/ \E d \in Dest : OutputSignals(d)
  \/ ReceiveData \/ ShouldTerminate \/ Quit
  \/ \E kind \in Delayed : DelayOver(kind)
  \/ RunBlock

Spec == Init /\ [][Next]_vars

(* The main queue is drained and delays end.                               *)
FairSpec ==
  /\ Spec
  /\ WF_vars(RunBlock)
  /\ \A kind \in Delayed : WF_vars(DelayOver(kind))
=============================================================================
