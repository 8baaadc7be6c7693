----------------------------- MODULE MCObsOutput -----------------------------
(***************************************************************************)
(* What the output promises, checked over two reconnect-thread slots.      *)
(***************************************************************************)
EXTENDS ObsOutput

L == INSTANCE OutputLifecycle

(* The longest wait, in seconds, that is an int when multiplied by 1000.   *)
MaxSec == 2147483647 \div 1000

(* Every field has its type, a series never counts past its maximum, and   *)
(* the seconds of its wait can be multiplied by 1000 in an int.            *)
TypeOK ==
  /\ owner \in {"idle", "join", "plugin", "report"}
  /\ plugin \in {"none", "connecting", "announce", "sending"} \cup Reporting
  /\ thread \in [Slot -> {"none", "new", "wait", "start", "tail", "clear"}]
  /\ handle \in Slot /\ detached \subseteq Slot
  /\ told \in L!Condition
  /\ retries \in 0..RetryMax /\ curSec \in 0..MaxSec /\ drops \in 0..MaxDrops
  /\ {lost, threadActive, stopEvent, reconnecting, active, halted, wasted,
      started}
       \subseteq BOOLEAN

(* obs.h promises that obs_output_stop "Stops the output.": once it has    *)
(* returned nothing is captured or opened, and no reconnect thread is      *)
(* about to start the plugin again.                                        *)
StopIsFinal ==
  halted => /\ ~active
            /\ plugin \notin {"connecting", "announce", "sending"}
            /\ \A t \in Slot : thread[t] # "start"

(* The threads whose next step is not a matter of waiting have finished.   *)
Settled ==
  /\ owner = "idle" /\ plugin \in {"none", "sending"}
  /\ \A t \in Slot : thread[t] \in {"none", "wait"}

(* Between calls, what the signals told the listener is what the output's  *)
(* own fields say: live exactly while it captures and sends, retrying      *)
(* exactly while reconnecting, unless a stop has just cut the series.      *)
ListenerKnows ==
  /\ TypeOK
  /\ Settled => /\ (told = "live") <=> active
                /\ active <=> plugin = "sending"
                /\ told = "retrying" => reconnecting
                /\ reconnecting => told = "retrying" \/ stopEvent

(* The signals follow OutputLifecycle, whichever thread emits them.        *)
ImplementsLifecycle == L!Spec

(* A series of attempts ends: by a connection, by a stop, or because       *)
(* reconnect_retry_max attempts failed.  The exception is a retry the code  *)
(* does not see fail: no thread, a wait that woke early, a plugin that     *)
(* refused to start; the output then stays "retrying" until it is stopped. *)
RetryResolves == reconnecting ~> ~reconnecting \/ wasted

(* obs_output_stop returns: it joins no thread that can wait for ever.     *)
StopReturns == (owner = "join") ~> (owner = "idle")
=============================================================================
