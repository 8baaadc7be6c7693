------------------------------ MODULE ObsOutput ------------------------------
(***************************************************************************)
(* One encoded libobs output (obs-output.c) as the streamer uses it: no    *)
(* delay is configured, so delay_active, delay_restart_refs and            *)
(* active_delay_ns stay zero and their branches are never taken.  stopped, *)
(* which only keeps packets from the plugin, and the statistics are left   *)
(* out.                                                                    *)
(*                                                                         *)
(* Three kinds of threads meet in it, with no lock around the fields that  *)
(* say what it is doing: the owner (obs_output_start, obs_output_stop),    *)
(* the output plugin's own threads, which connect, begin the capture and   *)
(* report a lost connection, and the reconnect threads the plugin's report *)
(* creates.  Each action below is the code of one thread between two       *)
(* accesses to a field another thread writes.                              *)
(***************************************************************************)
EXTENDS Integers

CONSTANTS
  Slot,             \* names for the reconnect threads alive at one time
  RetrySec,         \* reconnect_retry_sec
  RetryMax,         \* reconnect_retry_max
  MaxDrops,         \* bound: connections lost while sending
  RetryMayFail,     \* whether making a thread, or the plugin's start, may fail
  Spurious,         \* whether a condition variable may wake without a signal
  EndsAtOnce,       \* whether a connection may fail or drop before the
                    \* reconnect thread that opened it has ended
  StopMeetsReport   \* whether a stop may overlap the plugin's report of a failure

ASSUME RetryAssumption == RetrySec \in Nat \ {0} /\ RetryMax \in Nat /\ MaxDrops \in Nat

VARIABLES
  owner,         \* where the owner's thread is in obs_output_stop
  plugin,        \* where the plugin's thread is
  lost,          \* whether it reports a lost connection, or a failed attempt
  thread,        \* where each reconnect thread is
  handle,        \* output->reconnect_thread
  detached,      \* the threads pthread_detach was called on
  threadActive,  \* output->reconnect_thread_active
  stopEvent,     \* output->reconnect_stop_event
  reconnecting, retries, curSec, active,  \* fields of the same names
  told,          \* history: the condition the emitted signals describe
  halted,        \* history: obs_output_stop returned, no start since
  wasted,        \* history: a retry came to nothing, unnoticed
  started,       \* the owner starts an output once in its life
  drops          \* bound: connections lost so far

vars == << owner, plugin, lost, thread, handle, detached, threadActive,
           stopEvent, reconnecting, retries, curSec, active, told, halted,
           wasted, started, drops >>

retryVars  == << reconnecting, retries, curSec >>
threadVars == << thread, handle, detached, threadActive >>
bounds     == << wasted, started, drops >>

(* Where the plugin's thread is while it runs obs_output_signal_stop.      *)
Reporting == {"end", "choose", "arm", "spawn", "tell"}

(* The plugin thread has not yet returned from opening the connection.     *)
(* (mutant) info.stop takes a plugin that is still connecting for idle.    *)
OpeningAnnounced == plugin = "announce" \/ (plugin \in Reporting /\ ~lost)
Opening == plugin \in {"connecting", "announce"} \/ (plugin \in Reporting /\ ~lost)

Init ==
  /\ owner = "idle" /\ plugin = "none" /\ lost = FALSE
  /\ thread = [t \in Slot |-> "none"] /\ handle \in Slot /\ detached = {}
  /\ threadActive = FALSE /\ stopEvent = FALSE
  /\ reconnecting = FALSE /\ retries = 0 /\ curSec = 0 /\ active = FALSE
  /\ told = "off" /\ halted = TRUE
  /\ wasted = FALSE /\ started = FALSE /\ drops = 0

-----------------------------------------------------------------------------
(* The plugin's own threads.  Connecting starts in info.start.             *)

(* obs_output_begin_data_capture: encoders and service are hooked up.      *)
BeginCapture ==
  /\ plugin = "connecting"
  /\ ~active
  /\ active' = TRUE
  /\ plugin' = "announce"
  /\ UNCHANGED << owner, lost, threadVars, stopEvent, retryVars, told, halted, bounds >>

(* (mutant) reconnecting stays set after the success.                   *)
AnnounceKeepsFlag ==
  /\ plugin = "announce"
  /\ told' = "live"
  /\ plugin' = "sending"
  /\ UNCHANGED << owner, lost, threadVars, stopEvent, retryVars, active, halted, bounds >>

(* ... and the listener is told, by a signal that depends on reconnecting. *)
AnnounceCapture ==
  /\ plugin = "announce"
  /\ told' = "live"
  /\ reconnecting' = FALSE
  /\ plugin' = "sending"
  /\ UNCHANGED << owner, lost, threadVars, stopEvent, retries, curSec, active,
                  halted, bounds >>

Outlasts == EndsAtOnce \/ \A t \in Slot : thread[t] \notin {"tail", "clear"}

(* The attempt fails and the plugin reports it.                            *)
FailToConnect ==
  /\ plugin = "connecting"
  /\ StopMeetsReport \/ owner = "idle"
  /\ Outlasts
  /\ plugin' = "end" /\ lost' = FALSE
  /\ UNCHANGED << owner, threadVars, stopEvent, retryVars, active, told, halted, bounds >>

(* A connection that is up is lost; a plugin being stopped stays silent.   *)
LoseConnection ==
  /\ plugin = "sending" /\ drops < MaxDrops
  /\ owner # "plugin"
  /\ StopMeetsReport \/ owner = "idle"
  /\ Outlasts
  /\ plugin' = "end" /\ lost' = TRUE /\ drops' = drops + 1
  /\ UNCHANGED << owner, threadVars, stopEvent, retryVars, active, told, halted, wasted,
                  started >>

(* obs_output_end_data_capture; the service goes and active is cleared.    *)
ReportEndsCapture ==
  /\ plugin = "end"
  /\ active' = FALSE
  /\ plugin' = "choose"
  /\ UNCHANGED << owner, lost, threadVars, stopEvent, retryVars, told, halted, bounds >>

(* Whether another attempt is made, and the retry fields of a new series.  *)
WillReconnect == reconnecting \/ lost
Retries == IF reconnecting THEN retries ELSE 0
CurSec == IF reconnecting THEN curSec ELSE RetrySec
RetriesLeft == Retries < RetryMax

(* (mutant) The last failure leaves reconnecting set.                   *)
GiveUpForgets ==
  /\ plugin = "choose"
  /\ ~WillReconnect \/ ~RetriesLeft
  /\ told' = "off"
  /\ plugin' = "none"
  /\ UNCHANGED << owner, lost, threadVars, stopEvent, retryVars, active, halted, bounds >>

(* Not a case for reconnecting, or the attempts are spent: "stop".         *)
GiveUp ==
  /\ plugin = "choose"
  /\ ~WillReconnect \/ ~RetriesLeft
  /\ told' = "off"
  /\ IF WillReconnect
       THEN reconnecting' = FALSE /\ retries' = Retries /\ curSec' = CurSec
       ELSE UNCHANGED retryVars
  /\ plugin' = "none"
  /\ UNCHANGED << owner, lost, threadVars, stopEvent, active, halted, bounds >>

(* The first half of output_reconnect.                                     *)
ChooseRetry ==
  /\ plugin = "choose"
  /\ WillReconnect /\ RetriesLeft
  /\ retries' = Retries /\ curSec' = CurSec
  /\ plugin' = "arm"
  /\ UNCHANGED << owner, lost, threadVars, stopEvent, reconnecting, active, told,
                  halted, bounds >>

(* reconnecting is read again: a new series resets the stop event.         *)
ArmRetry ==
  /\ plugin = "arm"
  /\ stopEvent' = (stopEvent /\ reconnecting)
  /\ reconnecting' = TRUE
  /\ curSec' = IF retries > 0 THEN 2 * curSec ELSE curSec
  /\ retries' = retries + 1
  /\ plugin' = "spawn"
  /\ UNCHANGED << owner, lost, threadVars, active, told, halted, bounds >>

(* pthread_create writes the handle of the new thread.  A failure is an    *)
(* error number, never below zero, so the code takes it for success.       *)
SpawnRetry ==
  /\ plugin = "spawn"
  /\ \/ \E t \in Slot :
          /\ thread[t] = "none"
          /\ thread' = [thread EXCEPT ![t] = "new"]
          /\ handle' = t
          /\ detached' = detached \ {t}
          /\ UNCHANGED wasted
     \/ /\ RetryMayFail
        /\ wasted' = TRUE
        /\ UNCHANGED << thread, handle, detached >>
  /\ plugin' = "tell"
  /\ UNCHANGED << owner, lost, threadActive, stopEvent, retryVars, active, told,
                  halted, started, drops >>

(* signal_reconnect, and the plugin's thread ends.                         *)
TellReconnect ==
  /\ plugin = "tell"
  /\ told' = "retrying"
  /\ plugin' = "none"
  /\ UNCHANGED << owner, lost, threadVars, stopEvent, retryVars, active, halted, bounds >>

PluginStep ==
  \/ BeginCapture \/ AnnounceCapture \/ FailToConnect \/ ReportEndsCapture
  \/ GiveUp \/ ChooseRetry \/ ArmRetry \/ SpawnRetry \/ TellReconnect

-----------------------------------------------------------------------------
(* reconnect_thread.                                                       *)

ThreadBegins(t) ==
  /\ thread[t] = "new"
  /\ threadActive' = TRUE
  /\ thread' = [thread EXCEPT ![t] = "wait"]
  /\ UNCHANGED << owner, plugin, lost, handle, detached, stopEvent, retryVars,
                  active, told, halted, bounds >>

(* The wait outlasts what was already running when the thread was made:    *)
(* RetrySec or more against a few calls without a wait in them.            *)
OthersPassed(t) ==
  /\ plugin = "none"
  /\ \A u \in Slot \ {t} : thread[u] = "none"

(* os_event_timedwait returns ETIMEDOUT.                                   *)
TimedOut(t) ==
  /\ thread[t] = "wait" /\ ~stopEvent
  /\ OthersPassed(t)
  /\ thread' = [thread EXCEPT ![t] = "start"]
  /\ UNCHANGED << owner, plugin, lost, handle, detached, threadActive, stopEvent,
                  retryVars, active, told, halted, bounds >>

(* (mutant) The set event does not end the wait.                           *)
WakesEarly == Spurious /\ ~stopEvent
Wakes == stopEvent \/ Spurious

(* It returns zero: the event is set, or the wait woke for no reason; the  *)
(* code does not look at the event again.                                  *)
Woken(t) ==
  /\ thread[t] = "wait" /\ Wakes
  /\ thread' = [thread EXCEPT ![t] = "tail"]
  /\ wasted' = (wasted \/ ~stopEvent)
  /\ UNCHANGED << owner, plugin, lost, handle, detached, threadActive, stopEvent,
                  retryVars, active, told, halted, started, drops >>

(* obs_output_actual_start; its result is not looked at.                   *)
Restart(t) ==
  /\ thread[t] = "start"
  /\ \/ plugin' = "connecting" /\ UNCHANGED wasted
     \/ RetryMayFail /\ wasted' = TRUE /\ UNCHANGED plugin
  /\ thread' = [thread EXCEPT ![t] = "tail"]
  /\ UNCHANGED << owner, lost, handle, detached, threadActive, stopEvent, retryVars,
                  active, told, halted, started, drops >>

(* os_event_try: detach whichever thread the output's handle names now, or *)
(* leave the series.                                                       *)
Tail(t) ==
  /\ thread[t] = "tail"
  /\ IF stopEvent
       THEN reconnecting' = FALSE /\ UNCHANGED detached
       ELSE detached' = detached \cup {handle} /\ UNCHANGED reconnecting
  /\ thread' = [thread EXCEPT ![t] = "clear"]
  /\ UNCHANGED << owner, plugin, lost, handle, threadActive, stopEvent, retries,
                  curSec, active, told, halted, bounds >>

ThreadEnds(t) ==
  /\ thread[t] = "clear"
  /\ threadActive' = FALSE
  /\ thread' = [thread EXCEPT ![t] = "none"]
  /\ UNCHANGED << owner, plugin, lost, handle, detached, stopEvent, retryVars,
                  active, told, halted, bounds >>

ThreadStep(t) ==
  \/ ThreadBegins(t) \/ TimedOut(t) \/ Woken(t) \/ Restart(t) \/ Tail(t)
  \/ ThreadEnds(t)

-----------------------------------------------------------------------------
(* The owner's thread.                                                     *)

(* obs_output_start.  A plugin that refuses changes nothing the owner sees;*)
(* one that accepts connects on a thread of its own.  The streamer starts  *)
(* each output once: isPlaying is never reset.                             *)
Start ==
  /\ owner = "idle" /\ ~started
  /\ plugin' = "connecting"
  /\ told' = "opening" /\ halted' = FALSE /\ started' = TRUE
  /\ UNCHANGED << owner, lost, threadVars, stopEvent, retryVars, active, wasted, drops >>

(* obs_output_stop -> obs_output_actual_stop: wake the reconnect thread.   *)
StopSignals ==
  /\ owner = "idle" /\ ~halted
  /\ StopMeetsReport \/ plugin \notin Reporting
  /\ stopEvent' = TRUE
  /\ owner' = "join"
  /\ UNCHANGED << plugin, lost, threadVars, retryVars, active, told, halted, bounds >>

(* (mutant) The reconnect thread is not joined.                            *)
JoinsNobody == TRUE

(* Join it if it says it is active.  Joining a detached thread returns.    *)
Joined == threadActive => thread[handle] = "none" \/ handle \in detached

StopJoins ==
  /\ owner = "join"
  /\ Joined
  /\ owner' = "plugin"
  /\ UNCHANGED << plugin, lost, threadVars, stopEvent, retryVars, active, told,
                  halted, bounds >>

(* info.stop: wait for a thread that is opening the connection, end the    *)
(* capture of one that is sending.                                         *)
StopPlugin ==
  /\ owner = "plugin"
  /\ ~Opening
  /\ active' = FALSE
  /\ plugin' = IF plugin = "sending" THEN "none" ELSE plugin
  /\ owner' = "report"
  /\ UNCHANGED << lost, threadVars, stopEvent, retryVars, told, halted, bounds >>

(* signal_stop and return.                                                 *)
StopReports ==
  /\ owner = "report"
  /\ told' = "off" /\ halted' = TRUE
  /\ owner' = "idle"
  /\ UNCHANGED << plugin, lost, threadVars, stopEvent, retryVars, active, bounds >>

StopStep == StopJoins \/ StopPlugin \/ StopReports

-----------------------------------------------------------------------------
Next ==
  \/ Start \/ StopSignals \/ StopStep
  \/ LoseConnection \/ PluginStep
  \/ \E t \in Slot : ThreadStep(t)

Spec == Init /\ [][Next]_vars

(* Threads that can run do; nothing forces a drop, a start or a stop.      *)
FairSpec ==
  /\ Spec
  /\ WF_vars(PluginStep) /\ WF_vars(StopStep)
  /\ \A t \in Slot : WF_vars(ThreadStep(t))
=============================================================================
