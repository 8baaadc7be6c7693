--------------------------- MODULE ObsOutputProofs ---------------------------
(***************************************************************************)
(* For any number of reconnect threads the code may have names for, any    *)
(* number of retries and whichever of them fail: what can undo a stop, and *)
(* that the signals of an output say what its fields say.                  *)
(***************************************************************************)
EXTENDS MCObsOutput, TLAPS

(* Under which the signals are right: a connection lives longer than the   *)
(* few calls the thread that opened it has left, and the owner does not    *)
(* stop the output while the plugin is reporting a failure.                *)
Apart == ~EndsAtOnce /\ ~StopMeetsReport

Types ==
  /\ owner \in {"idle", "join", "plugin", "report"}
  /\ plugin \in {"none", "connecting", "announce", "sending"} \cup Reporting
  /\ thread \in [Slot -> {"none", "new", "wait", "start", "tail", "clear"}]
  /\ handle \in Slot /\ detached \subseteq Slot
  /\ told \in L!Condition /\ drops \in 0..MaxDrops
  /\ lost \in BOOLEAN /\ threadActive \in BOOLEAN /\ stopEvent \in BOOLEAN
  /\ reconnecting \in BOOLEAN /\ active \in BOOLEAN /\ halted \in BOOLEAN
  /\ wasted \in BOOLEAN /\ started \in BOOLEAN

(* One reconnect thread is alive at most: the one the handle names.        *)
Lane ==
  /\ \A t \in Slot : thread[t] # "none" => t = handle
  /\ threadActive <=> thread[handle] \in {"wait", "start", "tail", "clear"}
  /\ thread[handle] \in {"new", "wait", "start", "tail"} => handle \notin detached
  /\ plugin \in {"connecting", "announce", "sending"}
       => thread[handle] \in {"none", "tail", "clear"}
  /\ plugin \in {"end", "choose", "arm", "spawn"} => thread[handle] = "none"
  /\ plugin = "tell" => thread[handle] # "start"

(* The stop event is set from the first stop on, and no report meets it.   *)
Stops ==
  /\ stopEvent <=> owner # "idle" \/ (halted /\ started)
  /\ owner # "idle" => ~halted /\ started /\ plugin \notin Reporting
  /\ owner \in {"plugin", "report"} => thread[handle] # "start"
  /\ owner = "report" => plugin = "none"
  /\ halted => plugin = "none" /\ thread[handle] # "start" /\ told = "off"
  /\ ~started => halted /\ thread[handle] = "none" /\ ~reconnecting

Captures ==
  active <=> plugin \in {"announce", "sending"} \/ (plugin = "end" /\ lost)

(* What the listener was told, where the plugin is, and reconnecting.      *)
Tells ==
  /\ told = "retrying" /\ ~stopEvent => reconnecting
  /\ thread[handle] \in {"new", "wait", "start"} => reconnecting
  /\ thread[handle] = "start" => told = "retrying"
  /\ plugin \in {"connecting", "announce"}
       => told \in {"opening", "retrying"} /\ (reconnecting => told = "retrying")
  /\ plugin = "sending" => told = "live" /\ ~reconnecting
  /\ plugin \in {"end", "choose", "arm"} =>
       /\ lost => told = "live" /\ ~reconnecting
       /\ ~lost => told \in {"opening", "retrying"} /\ (reconnecting => told = "retrying")
  /\ plugin \in {"arm", "spawn", "tell"} => told \in {"live", "retrying"}
  /\ plugin \in {"spawn", "tell"} => reconnecting
  /\ plugin = "none" /\ owner # "report" => told \in {"off", "retrying"}
  /\ plugin = "none" /\ reconnecting /\ ~stopEvent => told = "retrying"


IInv == Types /\ Lane /\ Stops /\ Captures /\ Tells

-----------------------------------------------------------------------------

LEMMA InitInv == Init => IInv
<1> SUFFICES ASSUME Init PROVE IInv
  OBVIOUS
<1>1. Types
  <2>1. thread \in [Slot -> {"none", "new", "wait", "start", "tail", "clear"}]
    BY DEF Init
  <2>2. drops \in 0..MaxDrops
    BY RetryAssumption DEF Init
  <2> QED  BY <2>1, <2>2 DEF Init, Types, L!Condition
<1>2. Lane /\ Stops /\ Captures /\ Tells
  BY DEF Init, Lane, Stops, Captures, Tells, Reporting
<1> QED  BY <1>1, <1>2 DEF IInv

LEMMA BeginCaptureKeeps ==
  ASSUME IInv, Apart, BeginCapture
  PROVE  IInv'
<1> USE DEF BeginCapture, retryVars, threadVars, bounds, Reporting
<1>1. Types'
  BY RetryAssumption DEF IInv, Types, L!Condition
<1>2. Lane'
  BY DEF IInv, Types, Lane, Stops, Apart
<1>3. Stops'
  BY DEF IInv, Types, Lane, Stops, Tells, Apart
<1>4. Captures'
  BY DEF IInv, Types, Lane, Stops, Captures, Apart
<1>5. Tells'
  BY DEF IInv, Types, Lane, Stops, Tells, Apart, L!Condition
<1> QED  BY <1>1, <1>2, <1>3, <1>4, <1>5 DEF IInv

LEMMA AnnounceCaptureKeeps ==
  ASSUME IInv, Apart, AnnounceCapture
  PROVE  IInv'
<1> USE DEF AnnounceCapture, threadVars, bounds, Reporting
<1>1. Types'
  BY RetryAssumption DEF IInv, Types, L!Condition
<1>2. Lane'
  BY DEF IInv, Types, Lane, Stops, Apart
<1>3. Stops'
  BY DEF IInv, Types, Lane, Stops, Tells, Apart
<1>4. Captures'
  BY DEF IInv, Types, Lane, Stops, Captures, Apart
<1>5. Tells'
  BY DEF IInv, Types, Lane, Stops, Tells, Apart, L!Condition
<1> QED  BY <1>1, <1>2, <1>3, <1>4, <1>5 DEF IInv

LEMMA FailToConnectKeeps ==
  ASSUME IInv, Apart, FailToConnect
  PROVE  IInv'
<1> USE DEF FailToConnect, Outlasts, retryVars, threadVars, bounds, Reporting
<1>1. Types'
  BY RetryAssumption DEF IInv, Types, L!Condition
<1>2. Lane'
  BY DEF IInv, Types, Lane, Stops, Apart
<1>3. Stops'
  BY DEF IInv, Types, Lane, Stops, Tells, Apart
<1>4. Captures'
  BY DEF IInv, Types, Lane, Stops, Captures, Apart
<1>5. Tells'
  BY DEF IInv, Types, Lane, Stops, Tells, Apart, L!Condition
<1> QED  BY <1>1, <1>2, <1>3, <1>4, <1>5 DEF IInv

LEMMA LoseConnectionKeeps ==
  ASSUME IInv, Apart, LoseConnection
  PROVE  IInv'
<1> USE DEF LoseConnection, Outlasts, retryVars, threadVars, Reporting
<1>1. Types'
  BY RetryAssumption DEF IInv, Types, L!Condition
<1>2. Lane'
  BY DEF IInv, Types, Lane, Stops, Apart
<1>3. Stops'
  BY DEF IInv, Types, Lane, Stops, Tells, Apart
<1>4. Captures'
  BY DEF IInv, Types, Lane, Stops, Captures, Apart
<1>5. Tells'
  BY DEF IInv, Types, Lane, Stops, Tells, Apart, L!Condition
<1> QED  BY <1>1, <1>2, <1>3, <1>4, <1>5 DEF IInv

LEMMA ReportEndsCaptureKeeps ==
  ASSUME IInv, Apart, ReportEndsCapture
  PROVE  IInv'
<1> USE DEF ReportEndsCapture, retryVars, threadVars, bounds, Reporting
<1>1. Types'
  BY RetryAssumption DEF IInv, Types, L!Condition
<1>2. Lane'
  BY DEF IInv, Types, Lane, Stops, Apart
<1>3. Stops'
  BY DEF IInv, Types, Lane, Stops, Tells, Apart
<1>4. Captures'
  BY DEF IInv, Types, Lane, Stops, Captures, Apart
<1>5. Tells'
  BY DEF IInv, Types, Lane, Stops, Tells, Apart, L!Condition
<1> QED  BY <1>1, <1>2, <1>3, <1>4, <1>5 DEF IInv

LEMMA GiveUpKeeps ==
  ASSUME IInv, Apart, GiveUp
  PROVE  IInv'
<1> USE DEF GiveUp, WillReconnect, RetriesLeft, retryVars, threadVars, bounds, Reporting
<1>1. Types'
  BY RetryAssumption DEF IInv, Types, L!Condition
<1>2. Lane'
  BY DEF IInv, Types, Lane, Stops, Apart
<1>3. Stops'
  BY DEF IInv, Types, Lane, Stops, Tells, Apart
<1>4. Captures'
  BY DEF IInv, Types, Lane, Stops, Captures, Apart
<1>5. Tells'
  BY DEF IInv, Types, Lane, Stops, Tells, Apart, L!Condition
<1> QED  BY <1>1, <1>2, <1>3, <1>4, <1>5 DEF IInv

LEMMA ChooseRetryKeeps ==
  ASSUME IInv, Apart, ChooseRetry
  PROVE  IInv'
<1> USE DEF ChooseRetry, WillReconnect, RetriesLeft, threadVars, bounds, Reporting
<1>1. Types'
  BY RetryAssumption DEF IInv, Types, L!Condition
<1>2. Lane'
  BY DEF IInv, Types, Lane, Stops, Apart
<1>3. Stops'
  BY DEF IInv, Types, Lane, Stops, Tells, Apart
<1>4. Captures'
  BY DEF IInv, Types, Lane, Stops, Captures, Apart
<1>5. Tells'
  BY DEF IInv, Types, Lane, Stops, Tells, Apart, L!Condition
<1> QED  BY <1>1, <1>2, <1>3, <1>4, <1>5 DEF IInv

LEMMA ArmRetryKeeps ==
  ASSUME IInv, Apart, ArmRetry
  PROVE  IInv'
<1> USE DEF ArmRetry, threadVars, bounds, Reporting
<1>1. Types'
  BY RetryAssumption DEF IInv, Types, L!Condition
<1>2. Lane'
  BY DEF IInv, Types, Lane, Stops, Apart
<1>3. Stops'
  BY DEF IInv, Types, Lane, Stops, Tells, Apart
<1>4. Captures'
  BY DEF IInv, Types, Lane, Stops, Captures, Apart
<1>5. Tells'
  BY DEF IInv, Types, Lane, Stops, Tells, Apart, L!Condition
<1> QED  BY <1>1, <1>2, <1>3, <1>4, <1>5 DEF IInv

LEMMA SpawnRetryKeeps ==
  ASSUME IInv, Apart, SpawnRetry
  PROVE  IInv'
<1> USE DEF SpawnRetry, retryVars, Reporting
<1>1. Types'
  <2>1. thread' \in [Slot -> {"none", "new", "wait", "start", "tail", "clear"}]
    BY DEF IInv, Types
  <2>2. handle' \in Slot /\ detached' \subseteq Slot
    BY DEF IInv, Types
  <2> QED  BY <2>1, <2>2 DEF IInv, Types
<1>2. Lane'
  BY DEF IInv, Types, Lane, Stops, Apart
<1>3. Stops'
  BY DEF IInv, Types, Lane, Stops, Tells, Apart
<1>4. Captures'
  BY DEF IInv, Types, Lane, Stops, Captures, Apart
<1>5. Tells'
  BY DEF IInv, Types, Lane, Stops, Tells, Apart, L!Condition
<1> QED  BY <1>1, <1>2, <1>3, <1>4, <1>5 DEF IInv

LEMMA TellReconnectKeeps ==
  ASSUME IInv, Apart, TellReconnect
  PROVE  IInv'
<1> USE DEF TellReconnect, retryVars, threadVars, bounds, Reporting
<1>1. Types'
  BY RetryAssumption DEF IInv, Types, L!Condition
<1>2. Lane'
  BY DEF IInv, Types, Lane, Stops, Apart
<1>3. Stops'
  BY DEF IInv, Types, Lane, Stops, Tells, Apart
<1>4. Captures'
  BY DEF IInv, Types, Lane, Stops, Captures, Apart
<1>5. Tells'
  BY DEF IInv, Types, Lane, Stops, Tells, Apart, L!Condition
<1> QED  BY <1>1, <1>2, <1>3, <1>4, <1>5 DEF IInv

LEMMA ThreadBeginsKeeps ==
  ASSUME IInv, Apart, NEW t \in Slot, ThreadBegins(t)
  PROVE  IInv'
<1> USE DEF ThreadBegins, retryVars, bounds, Reporting
<1>1. Types'
  BY RetryAssumption DEF IInv, Types, L!Condition
<1>2. Lane'
  BY DEF IInv, Types, Lane, Stops, Apart
<1>3. Stops'
  BY DEF IInv, Types, Lane, Stops, Tells, Apart
<1>4. Captures'
  BY DEF IInv, Types, Lane, Stops, Captures, Apart
<1>5. Tells'
  BY DEF IInv, Types, Lane, Stops, Tells, Apart, L!Condition
<1> QED  BY <1>1, <1>2, <1>3, <1>4, <1>5 DEF IInv

LEMMA TimedOutKeeps ==
  ASSUME IInv, Apart, NEW t \in Slot, TimedOut(t)
  PROVE  IInv'
<1> USE DEF TimedOut, OthersPassed, retryVars, bounds, Reporting
<1>1. Types'
  BY RetryAssumption DEF IInv, Types, L!Condition
<1>2. Lane'
  BY DEF IInv, Types, Lane, Stops, Apart
<1>3. Stops'
  BY DEF IInv, Types, Lane, Stops, Tells, Apart
<1>4. Captures'
  BY DEF IInv, Types, Lane, Stops, Captures, Apart
<1>5. Tells'
  BY DEF IInv, Types, Lane, Stops, Tells, Apart, L!Condition
<1> QED  BY <1>1, <1>2, <1>3, <1>4, <1>5 DEF IInv

LEMMA WokenKeeps ==
  ASSUME IInv, Apart, NEW t \in Slot, Woken(t)
  PROVE  IInv'
<1> USE DEF Woken, Wakes, retryVars, Reporting
<1>1. Types'
  BY RetryAssumption DEF IInv, Types, L!Condition
<1>2. Lane'
  BY DEF IInv, Types, Lane, Stops, Apart
<1>3. Stops'
  BY DEF IInv, Types, Lane, Stops, Tells, Apart
<1>4. Captures'
  BY DEF IInv, Types, Lane, Stops, Captures, Apart
<1>5. Tells'
  BY DEF IInv, Types, Lane, Stops, Tells, Apart, L!Condition
<1> QED  BY <1>1, <1>2, <1>3, <1>4, <1>5 DEF IInv

LEMMA RestartKeeps ==
  ASSUME IInv, Apart, NEW t \in Slot, Restart(t)
  PROVE  IInv'
<1> USE DEF Restart, retryVars, Reporting
<1>1. Types'
  <2>1. thread' \in [Slot -> {"none", "new", "wait", "start", "tail", "clear"}]
    BY DEF IInv, Types
  <2>2. handle' \in Slot /\ detached' \subseteq Slot
    BY DEF IInv, Types
  <2> QED  BY <2>1, <2>2, ZenonT(40) DEF IInv, Types
<1>2. Lane'
  BY DEF IInv, Types, Lane, Stops, Apart
<1>3. Stops'
  BY DEF IInv, Types, Lane, Stops, Tells, Apart
<1>4. Captures'
  BY DEF IInv, Types, Lane, Stops, Captures, Apart
<1>5. Tells'
  BY DEF IInv, Types, Lane, Stops, Tells, Apart, L!Condition
<1> QED  BY <1>1, <1>2, <1>3, <1>4, <1>5 DEF IInv

LEMMA TailKeeps ==
  ASSUME IInv, Apart, NEW t \in Slot, Tail(t)
  PROVE  IInv'
<1> USE DEF Tail, bounds, Reporting
<1>1. Types'
  <2>1. thread' \in [Slot -> {"none", "new", "wait", "start", "tail", "clear"}]
    BY DEF IInv, Types
  <2>2. handle' \in Slot /\ detached' \subseteq Slot
    BY DEF IInv, Types
  <2> QED  BY <2>1, <2>2, ZenonT(40) DEF IInv, Types
<1>2. Lane'
  BY DEF IInv, Types, Lane, Stops, Apart
<1>3. Stops'
  BY DEF IInv, Types, Lane, Stops, Tells, Apart
<1>4. Captures'
  BY DEF IInv, Types, Lane, Stops, Captures, Apart
<1>5. Tells'
  BY DEF IInv, Types, Lane, Stops, Tells, Apart, L!Condition
<1> QED  BY <1>1, <1>2, <1>3, <1>4, <1>5 DEF IInv

LEMMA ThreadEndsKeeps ==
  ASSUME IInv, Apart, NEW t \in Slot, ThreadEnds(t)
  PROVE  IInv'
<1> USE DEF ThreadEnds, retryVars, bounds, Reporting
<1>1. Types'
  <2>1. thread' \in [Slot -> {"none", "new", "wait", "start", "tail", "clear"}]
    BY DEF IInv, Types
  <2>2. handle' \in Slot /\ detached' \subseteq Slot
    BY DEF IInv, Types
  <2> QED  BY <2>1, <2>2 DEF IInv, Types
<1>2. Lane'
  BY DEF IInv, Types, Lane, Stops, Apart
<1>3. Stops'
  BY DEF IInv, Types, Lane, Stops, Tells, Apart
<1>4. Captures'
  BY DEF IInv, Types, Lane, Stops, Captures, Apart
<1>5. Tells'
  BY DEF IInv, Types, Lane, Stops, Tells, Apart, L!Condition
<1> QED  BY <1>1, <1>2, <1>3, <1>4, <1>5 DEF IInv

LEMMA StartKeeps ==
  ASSUME IInv, Apart, Start
  PROVE  IInv'
<1> USE DEF Start, retryVars, threadVars, Reporting
<1>1. Types'
  BY RetryAssumption DEF IInv, Types, L!Condition
<1>2. Lane'
  BY DEF IInv, Types, Lane, Stops, Apart
<1>3. Stops'
  BY DEF IInv, Types, Lane, Stops, Tells, Apart
<1>4. Captures'
  BY DEF IInv, Types, Lane, Stops, Captures, Apart
<1>5. Tells'
  BY DEF IInv, Types, Lane, Stops, Tells, Apart, L!Condition
<1> QED  BY <1>1, <1>2, <1>3, <1>4, <1>5 DEF IInv

LEMMA StopSignalsKeeps ==
  ASSUME IInv, Apart, StopSignals
  PROVE  IInv'
<1> USE DEF StopSignals, Reporting, retryVars, threadVars, bounds
<1>1. Types'
  BY RetryAssumption DEF IInv, Types, L!Condition
<1>2. Lane'
  BY DEF IInv, Types, Lane, Stops, Apart
<1>3. Stops'
  BY DEF IInv, Types, Lane, Stops, Tells, Apart
<1>4. Captures'
  BY DEF IInv, Types, Lane, Stops, Captures, Apart
<1>5. Tells'
  BY DEF IInv, Types, Lane, Stops, Tells, Apart, L!Condition
<1> QED  BY <1>1, <1>2, <1>3, <1>4, <1>5 DEF IInv

LEMMA StopJoinsKeeps ==
  ASSUME IInv, Apart, StopJoins
  PROVE  IInv'
<1> USE DEF StopJoins, Joined, retryVars, threadVars, bounds, Reporting
<1>1. Types'
  BY RetryAssumption DEF IInv, Types, L!Condition
<1>2. Lane'
  BY DEF IInv, Types, Lane, Stops, Apart
<1>3. Stops'
  BY DEF IInv, Types, Lane, Stops, Tells, Apart
<1>4. Captures'
  BY DEF IInv, Types, Lane, Stops, Captures, Apart
<1>5. Tells'
  BY DEF IInv, Types, Lane, Stops, Tells, Apart, L!Condition
<1> QED  BY <1>1, <1>2, <1>3, <1>4, <1>5 DEF IInv

LEMMA StopPluginKeeps ==
  ASSUME IInv, Apart, StopPlugin
  PROVE  IInv'
<1> USE DEF StopPlugin, Opening, retryVars, threadVars, bounds, Reporting
<1>1. Types'
  BY RetryAssumption DEF IInv, Types, L!Condition
<1>2. Lane'
  BY DEF IInv, Types, Lane, Stops, Apart
<1>3. Stops'
  BY DEF IInv, Types, Lane, Stops, Tells, Apart
<1>4. Captures'
  BY DEF IInv, Types, Lane, Stops, Captures, Apart
<1>5. Tells'
  BY DEF IInv, Types, Lane, Stops, Tells, Apart, L!Condition
<1> QED  BY <1>1, <1>2, <1>3, <1>4, <1>5 DEF IInv

LEMMA StopReportsKeeps ==
  ASSUME IInv, Apart, StopReports
  PROVE  IInv'
<1> USE DEF StopReports, retryVars, threadVars, bounds, Reporting
<1>1. Types'
  BY RetryAssumption DEF IInv, Types, L!Condition
<1>2. Lane'
  BY DEF IInv, Types, Lane, Stops, Apart
<1>3. Stops'
  BY DEF IInv, Types, Lane, Stops, Tells, Apart
<1>4. Captures'
  BY DEF IInv, Types, Lane, Stops, Captures, Apart
<1>5. Tells'
  BY DEF IInv, Types, Lane, Stops, Tells, Apart, L!Condition
<1> QED  BY <1>1, <1>2, <1>3, <1>4, <1>5 DEF IInv

LEMMA Inductive == Apart /\ IInv /\ [Next]_vars => IInv'
<1> SUFFICES ASSUME Apart, IInv, [Next]_vars PROVE IInv'
  OBVIOUS
<1>1. CASE PluginStep \/ LoseConnection
  BY <1>1, BeginCaptureKeeps, AnnounceCaptureKeeps, FailToConnectKeeps, ReportEndsCaptureKeeps,
     GiveUpKeeps, ChooseRetryKeeps, ArmRetryKeeps, SpawnRetryKeeps, TellReconnectKeeps,
     LoseConnectionKeeps DEF PluginStep
<1>2. CASE \E t \in Slot : ThreadStep(t)
  BY <1>2, ThreadBeginsKeeps, TimedOutKeeps, WokenKeeps, RestartKeeps, TailKeeps,
     ThreadEndsKeeps DEF ThreadStep
<1>3. CASE Start \/ StopSignals \/ StopStep
  BY <1>3, StartKeeps, StopSignalsKeeps, StopJoinsKeeps, StopPluginKeeps, StopReportsKeeps
     DEF StopStep
<1>4. CASE UNCHANGED vars
  <2> USE <1>4 DEF vars
  <2>1. Types' /\ Lane'
    BY DEF IInv, Types, Lane
  <2>2. Stops' /\ Captures' /\ Tells'
    BY DEF IInv, Stops, Captures, Tells
  <2> QED  BY <2>1, <2>2 DEF IInv
<1> QED  BY <1>1, <1>2, <1>3, <1>4 DEF Next

-----------------------------------------------------------------------------
(* What can undo a stop is a reconnect thread that output_reconnect makes  *)
(* (obs-output.c:1615) while a stop runs or after it, or while the thread  *)
(* of an attempt before it is still at its end (1586, where it detaches,   *)
(* and declares inactive, whichever thread the output names by now).       *)

ThreadMade == SpawnRetry /\ thread' # thread
MadeInStop == ThreadMade /\ (owner # "idle" \/ halted)
MadeBesideAnother == ThreadMade /\ \E t \in Slot : thread[t] # "none"

(* Under Apart neither happens.                                            *)
LEMMA ApartMakesNone == Apart /\ IInv => ~MadeInStop /\ ~MadeBesideAnother
<1> SUFFICES ASSUME IInv, SpawnRetry
             PROVE  owner = "idle" /\ ~halted /\ \A t \in Slot : thread[t] = "none"
  BY DEF MadeInStop, MadeBesideAnother, ThreadMade
<1>1. plugin = "spawn"
  BY DEF SpawnRetry
<1> QED  BY <1>1 DEF IInv, Stops, Lane, Reporting

(* One thread, which waits for a stop that has begun and does not start    *)
(* the plugin after it was joined.                                         *)
OneThread ==
  /\ thread \in [Slot -> {"none", "new", "wait", "start", "tail", "clear"}]
  /\ handle \in Slot
  /\ \A t \in Slot : thread[t] # "none" => t = handle
  /\ threadActive <=> thread[handle] \in {"wait", "start", "tail", "clear"}
  /\ thread[handle] \in {"new", "wait", "start", "tail"} => handle \notin detached
  /\ thread[handle] \in {"new", "wait"} => plugin \in {"tell", "none"}
  /\ thread[handle] = "start" => plugin = "none"

Ended ==
  /\ ~started => halted /\ owner = "idle" /\ thread[handle] = "none"
  /\ owner # "idle" => ~halted /\ started
  /\ (owner # "idle" \/ halted) /\ thread[handle] \in {"new", "wait"} => stopEvent
  /\ owner \in {"plugin", "report"} \/ halted => thread[handle] # "start"
  /\ owner = "report" \/ halted
       => ~active /\ plugin \notin {"connecting", "announce", "sending"}

StopInv == OneThread /\ Ended

LEMMA StopInvInit == Init => StopInv
<1> SUFFICES ASSUME Init PROVE StopInv
  OBVIOUS
<1>1. thread \in [Slot -> {"none", "new", "wait", "start", "tail", "clear"}]
  BY DEF Init
<1> QED  BY <1>1 DEF Init, StopInv, OneThread, Ended

LEMMA StopInvByPlugin ==
  ASSUME StopInv, PluginStep \/ LoseConnection, ~MadeInStop, ~MadeBesideAnother
  PROVE  StopInv'
<1> USE DEF StopInv, OneThread, Ended, threadVars, retryVars, bounds
<1>1. CASE BeginCapture \/ AnnounceCapture \/ FailToConnect \/ LoseConnection
  BY <1>1 DEF BeginCapture, AnnounceCapture, FailToConnect, LoseConnection
<1>2. CASE ReportEndsCapture \/ GiveUp \/ ChooseRetry \/ TellReconnect
  BY <1>2 DEF ReportEndsCapture, GiveUp, ChooseRetry, TellReconnect
<1>3. CASE ArmRetry
  BY <1>3 DEF ArmRetry
<1>4. CASE SpawnRetry
  <2>1. /\ plugin' = "tell"
        /\ UNCHANGED <<owner, lost, threadActive, stopEvent, retryVars, active, told, halted,
                       started, drops>>
    BY <1>4 DEF SpawnRetry
  <2>2. CASE thread' = thread /\ handle' = handle /\ detached' = detached
    BY <2>1, <2>2, <1>4 DEF SpawnRetry
  <2>3. ASSUME NEW t \in Slot, thread[t] = "none", thread' = [thread EXCEPT ![t] = "new"],
               handle' = t, detached' = detached \ {t}
        PROVE  StopInv'
    <3>1. thread' # thread
      BY <2>3
    <3>2. owner = "idle" /\ ~halted /\ \A u \in Slot : thread[u] = "none"
      BY <1>4, <3>1 DEF MadeInStop, MadeBesideAnother, ThreadMade
    <3>3. ~threadActive
      BY <3>2
    <3>4. /\ thread' \in [Slot -> {"none", "new", "wait", "start", "tail", "clear"}]
          /\ thread'[t] = "new" /\ \A u \in Slot \ {t} : thread'[u] = "none"
      BY <2>3, <3>2
    <3> QED  BY <2>1, <2>3, <3>2, <3>3, <3>4
  <2> QED  BY <1>4, <2>2, <2>3 DEF SpawnRetry
<1> QED  BY <1>1, <1>2, <1>3, <1>4 DEF PluginStep

LEMMA StopInvByThread ==
  ASSUME StopInv, NEW t \in Slot, ThreadStep(t)
  PROVE  StopInv'
<1> USE DEF StopInv, OneThread, Ended, threadVars, retryVars, bounds
<1>1. CASE ThreadBegins(t) \/ ThreadEnds(t)
  BY <1>1 DEF ThreadBegins, ThreadEnds
<1>2. CASE TimedOut(t)
  BY <1>2 DEF TimedOut, OthersPassed
<1>3. CASE Woken(t)
  BY <1>3 DEF Woken
<1>4. CASE Restart(t)
  BY <1>4 DEF Restart
<1>5. CASE Tail(t)
  BY <1>5 DEF Tail
<1> QED  BY <1>1, <1>2, <1>3, <1>4, <1>5 DEF ThreadStep

LEMMA StopInvByOwner ==
  ASSUME StopInv, Start \/ StopSignals \/ StopStep
  PROVE  StopInv'
<1> USE DEF StopInv, OneThread, Ended, threadVars, retryVars, bounds
<1>1. CASE Start \/ StopSignals
  BY <1>1 DEF Start, StopSignals
<1>2. CASE StopJoins
  BY <1>2 DEF StopJoins, Joined
<1>3. CASE StopPlugin
  BY <1>3 DEF StopPlugin, Opening
<1>4. CASE StopReports
  BY <1>4 DEF StopReports
<1> QED  BY <1>1, <1>2, <1>3, <1>4 DEF StopStep

(* However the threads interleave, whether or not a report overlaps a stop *)
(* or a connection ends at once: unless a reconnect thread is made in one  *)
(* of those two ways, once obs_output_stop has returned nothing is         *)
(* captured or opened, and no thread is about to start the plugin again.   *)
THEOREM StopIsFinalHolds ==
  Spec /\ [][~MadeInStop /\ ~MadeBesideAnother]_vars => []StopIsFinal
<1>1. StopInv /\ [Next]_vars /\ [~MadeInStop /\ ~MadeBesideAnother]_vars => StopInv'
  <2> SUFFICES ASSUME StopInv, [Next]_vars, [~MadeInStop /\ ~MadeBesideAnother]_vars
               PROVE  StopInv'
    OBVIOUS
  <2>1. CASE UNCHANGED vars
    BY <2>1 DEF vars, StopInv, OneThread, Ended
  <2>2. CASE ~UNCHANGED vars
    BY <2>2, StopInvByPlugin, StopInvByThread, StopInvByOwner DEF Next
  <2> QED  BY <2>1, <2>2
<1>2. StopInv => StopIsFinal
  BY DEF StopInv, OneThread, Ended, StopIsFinal
<1> QED  BY <1>1, <1>2, StopInvInit, PTL DEF Spec

-----------------------------------------------------------------------------
(* The signals of the output are a path of OutputLifecycle, whichever      *)
(* thread emits them: the listener never hears of a connection that was    *)
(* not opened, nor of a retry after the stop.                              *)
THEOREM Refinement == ASSUME Apart PROVE Spec => ImplementsLifecycle
<1>1. Init => L!Init
  BY DEF Init, L!Init
<1>2. IInv /\ [Next]_vars => [L!Next]_told
  <2> SUFFICES ASSUME IInv, [Next]_vars, told' # told PROVE L!Next
    OBVIOUS
  <2> USE DEF L!Next, L!Open, L!Started, L!Reconnecting, L!Reconnected, L!Stopped
  <2>1. \/ AnnounceCapture \/ GiveUp \/ TellReconnect \/ Start \/ StopReports
    BY DEF Next, vars, PluginStep, LoseConnection, BeginCapture, FailToConnect,
       ReportEndsCapture, ChooseRetry, ArmRetry, SpawnRetry, ThreadStep, ThreadBegins, TimedOut,
       Woken, Restart, Tail, ThreadEnds, StopSignals, StopStep, StopJoins, StopPlugin
  <2>2. CASE AnnounceCapture
    BY <2>2 DEF AnnounceCapture, IInv, Tells
  <2>3. CASE GiveUp \/ StopReports
    BY <2>3 DEF GiveUp, StopReports
  <2>4. CASE TellReconnect
    BY <2>4 DEF TellReconnect, IInv, Tells
  <2>5. CASE Start
    BY <2>5 DEF Start, IInv, Stops
  <2> QED  BY <2>1, <2>2, <2>3, <2>4, <2>5
<1> QED  BY <1>1, <1>2, InitInv, Inductive, PTL DEF Spec, ImplementsLifecycle, L!Spec

-----------------------------------------------------------------------------
(* The retry counter and the seconds of the wait.                          *)

(* wait[n] is RetrySec doubled n times; no wait overflows the int it is    *)
(* turned into milliseconds in.                                            *)
Doubles(wait) ==
  /\ wait \in [0..RetryMax -> Nat]
  /\ wait[0] = RetrySec /\ RetrySec <= MaxSec
  /\ \A n \in 1..RetryMax : wait[n] = 2 * wait[n - 1] /\ wait[n - 1] <= MaxSec

WaitsFit == \E wait \in [0..RetryMax -> Nat] : Doubles(wait)

(* The wait of a series has been doubled once for each retry but the first.*)
Doubled(wait) ==
  /\ reconnecting => retries \in 1..RetryMax /\ curSec = wait[retries - 1]
  /\ plugin = "arm" =>
       /\ retries < RetryMax
       /\ curSec = IF retries = 0 THEN RetrySec ELSE wait[retries - 1]

Series(wait) ==
  Doubled(wait) /\ retries \in 0..RetryMax /\ curSec \in 0..MaxSec

LEMMA MaxSecIsNat == MaxSec \in Nat
BY SMT DEF MaxSec

LEMMA SeriesKeeps ==
  ASSUME NEW wait, Doubles(wait), IInv, Series(wait), [Next]_vars
  PROVE  Series(wait)'
<1> USE RetryAssumption DEF Series, Doubled
<1>1. MaxSec \in Nat
  BY MaxSecIsNat
<1>2. CASE AnnounceCapture \/ Start \/ \E t \in Slot : ThreadStep(t)
  BY <1>2 DEF AnnounceCapture, Start, ThreadStep, ThreadBegins, TimedOut, Woken, Restart, Tail,
     ThreadEnds, retryVars, IInv, Types
<1>3. CASE GiveUp
  <2>1. /\ plugin' = "none"
        /\ \/ reconnecting' = FALSE /\ retries' = Retries /\ curSec' = CurSec
           \/ UNCHANGED retryVars
    BY <1>3 DEF GiveUp
  <2>2. Retries \in 0..RetryMax /\ CurSec \in 0..MaxSec
    BY <1>1 DEF Retries, CurSec, Doubles
  <2> QED  BY <2>1, <2>2 DEF retryVars
<1>4. CASE ChooseRetry
  <2>1. /\ plugin' = "arm" /\ reconnecting' = reconnecting
        /\ retries' = Retries /\ curSec' = CurSec /\ Retries < RetryMax
    BY <1>4 DEF ChooseRetry, RetriesLeft
  <2>2. CASE reconnecting
    <3>1. retries' = retries /\ curSec' = curSec /\ retries # 0
      BY <2>1, <2>2 DEF Retries, CurSec
    <3> QED  BY <2>1, <2>2, <3>1
  <2>3. CASE ~reconnecting
    <3>1. retries' = 0 /\ curSec' = RetrySec
      BY <2>1, <2>3 DEF Retries, CurSec
    <3> QED  BY <1>1, <2>1, <2>3, <3>1 DEF Doubles
  <2> QED  BY <2>2, <2>3
<1>5. CASE ArmRetry
  <2>1. /\ plugin = "arm" /\ reconnecting' = TRUE /\ plugin' = "spawn"
        /\ curSec' = IF retries > 0 THEN 2 * curSec ELSE curSec
        /\ retries' = retries + 1
    BY <1>5 DEF ArmRetry
  <2>2. CASE retries = 0
    BY <1>1, <2>1, <2>2 DEF Doubles
  <2>3. CASE retries # 0
    <3>1. retries \in 1..RetryMax /\ retries + 1 \in 1..RetryMax
      BY <2>1, <2>3
    <3>2. wait[retries] = 2 * wait[retries - 1] /\ wait[(retries + 1) - 1] <= MaxSec
      BY <3>1 DEF Doubles
    <3>3. wait[retries] \in Nat
      BY <3>1 DEF Doubles
    <3> QED  BY <1>1, <2>1, <2>3, <3>1, <3>2, <3>3
  <2> QED  BY <2>2, <2>3
<1>6. CASE \/ BeginCapture \/ FailToConnect \/ LoseConnection \/ ReportEndsCapture \/ SpawnRetry
           \/ TellReconnect \/ StopSignals \/ StopStep \/ UNCHANGED vars
  BY <1>6 DEF vars, BeginCapture, FailToConnect, LoseConnection, ReportEndsCapture, SpawnRetry,
     TellReconnect, StopSignals, StopStep, StopJoins, StopPlugin, StopReports, retryVars
<1> QED  BY <1>2, <1>3, <1>4, <1>5, <1>6 DEF Next, PluginStep

(* Between calls the signals the listener heard say what the fields say;   *)
(* and a series never counts past reconnect_retry_max, nor does its wait,  *)
(* doubled each time, overflow in milliseconds.                            *)
THEOREM ListenerIsRight == ASSUME Apart, WaitsFit PROVE Spec => []ListenerKnows
<1>1. PICK wait : Doubles(wait)
  BY DEF WaitsFit
<1>2. Init => Series(wait)
  BY RetryAssumption, MaxSecIsNat DEF Init, Series, Doubled
<1>3. IInv /\ Series(wait) /\ [Next]_vars => Series(wait)'
  BY <1>1, SeriesKeeps
<1>4. IInv /\ Series(wait) => ListenerKnows
  <2> SUFFICES ASSUME IInv, Series(wait) PROVE ListenerKnows
    OBVIOUS
  <2>1. TypeOK
    BY DEF IInv, Types, Series, TypeOK
  <2>2. Settled => /\ (told = "live") <=> active
                   /\ active <=> plugin = "sending"
                   /\ told = "retrying" => reconnecting
                   /\ reconnecting => told = "retrying" \/ stopEvent
    BY DEF IInv, Settled, Stops, Captures, Tells
  <2> QED  BY <2>1, <2>2 DEF ListenerKnows
<1> QED  BY <1>2, <1>3, <1>4, InitInv, Inductive, PTL DEF Spec
=============================================================================
