----------------------------- MODULE AudioSetup -----------------------------
(***************************************************************************)
(* How the helper's audio is set up, changed and torn down: the command    *)
(* line, the streamer's sources and the configuration messages (main       *)
(* thread: VPEncodingHelperAppDelegate.m, VPObsStreamer.m), and the thread *)
(* that makes the mixer and outputs blocks (vp_obs_audio_source.m).        *)
(*                                                                         *)
(* An option that takes a value has a kind, which says what it accepts.  A *)
(* word of the command line that is not an option stands for itself; as a  *)
(* number it reads as Reads says, and anything else reads as zero.  Times  *)
(* are in the units of the command line.  A step of the main thread is     *)
(* what it does between two accesses to what the other thread uses.        *)
(***************************************************************************)
EXTENDS Integers, Sequences

CONSTANTS
  Option,     \* the options that take a value
  Kind,       \* of each: "list", "text", "count", "size", "offset", "amount"
  Default,    \* what each stands at when it is not given
  Word,       \* words that are not options
  Reads,      \* [doubleValue] and [intValue] of some of them
  Infinite,   \* those that read as more than a double can hold
  Lists,      \* those that decode to an array
  MaxSize,    \* 6000, the end of the sizes accepted
  None,       \* no source, no mixer, no option
  MaxArgs,    \* bound: arguments
  Values,     \* bound: values of configuration messages
  MaxMessages \* bound: configuration messages

Amount == {"local", "remote", "volume"}   \* of the mixer, g_vpAudioSource*
Mode == {"vidpresso", "system", "mixed"}  \* --use-...-audio
Source == {"VP", "CoreAudio"}

ASSUME SetupConstants ==
  /\ Amount \cup {"offset"} \subseteq Option
  /\ Kind \in [Option -> {"list", "text", "count", "size", "offset", "amount"}]
  /\ Kind["offset"] = "offset" /\ \A a \in Amount : Kind[a] = "amount"
  /\ \A o \in Amount \cup {"offset"} : Default[o] \in Int
  /\ Reads \in [DOMAIN Reads -> Int] /\ Values \subseteq Int
  /\ Infinite \subseteq DOMAIN Reads /\ DOMAIN Reads \subseteq Word
  /\ None \notin Int \cup Source /\ None \notin [Amount -> Int]
  /\ (Word \cup {None}) \cap (Option \cup Mode) = {} /\ DOMAIN Default = Option
  /\ {MaxArgs, MaxMessages} \subseteq Nat

VARIABLES
  args,       \* the arguments
  at,         \* how many of them were looked at
  state,      \* the option the next one is the value of
  set,        \* properties of the streamer and g_vpAudioSource* globals
  useVp,      \* useVidpressoAudioInput
  capture,    \* mixLocalInput...: g_vpLocalAudioCaptureObj is an object
  main,       \* where the main thread is
  cmd,        \* the configuration message it handles: [name, value, mixer]
  messages,   \* how many came
  offsets,    \* sync_offset of the sources in being
  active,     \* _activeAudioSource
  started,    \* isPlaying: streaming was started
  alive,      \* g_vpAudioSourceAlive
  audio,      \* obs->audio.audio is open
  event,      \* the source's stop event
  thread,     \* where vp_audio_driver_consumer_thread is
  mixer,      \* the mixer's capturedAudioDelay, channel2AudioDelay and volume
  published,  \* g_vpLocalAudioMixerObj
  crossed     \* history: a message's value was set while the mixer was made

line == <<args, at, state>>
libobs == <<offsets, active, started, alive, audio, event>>
worker == <<thread, mixer, published>>
vars == <<line, set, useVp, capture, main, cmd, messages, libobs, worker, crossed>>

NoMessage == [name |-> None, value |-> 0, mixer |-> FALSE]

Init ==
  /\ args \in UNION {[1..n -> Option \cup Mode \cup Word] : n \in 0..MaxArgs}
  /\ at = 0 /\ state = None
  /\ set = Default /\ useVp = TRUE /\ capture = FALSE
  /\ main = "args" /\ cmd = NoMessage
  /\ messages = 0
  /\ offsets = [s \in Source |-> None] /\ active = None
  /\ started = FALSE /\ alive = TRUE /\ audio = TRUE /\ event = FALSE
  /\ thread = "none" /\ mixer = None /\ published = FALSE /\ crossed = FALSE

-----------------------------------------------------------------------------
(* The command line: applicationDidFinishLaunching.                        *)

Number(x) == IF x \in DOMAIN Reads THEN Reads[x] ELSE 0

Accepted(o, x) ==
  CASE Kind[o] = "list" -> x \in Lists
    [] Kind[o] = "size" -> Number(x) > 0 /\ Number(x) < MaxSize
    [] Kind[o] = "offset" -> x \notin Infinite
    [] Kind[o] = "amount" -> x \notin Infinite /\ Number(x) >= 0
    [] OTHER -> TRUE

Taken(o, x) == IF Kind[o] \in {"list", "text"} THEN x ELSE Number(x)

ValueUnchecked(o, x) == [set EXCEPT ![o] = Taken(o, x)]  \* (mutant)

(* The setting after the value x was given for it.                         *)
ValueGiven(o, x) == IF Accepted(o, x) THEN [set EXCEPT ![o] = Taken(o, x)] ELSE set

TakeOption ==
  /\ main = "args" /\ at < Len(args) /\ state = None
  /\ LET x == args[at + 1] IN
     /\ state' = IF x \in Option THEN x ELSE None
     /\ useVp' = IF x \in Mode THEN x # "system" ELSE useVp
     /\ capture' = IF x \in Mode THEN x = "mixed" ELSE capture
  /\ at' = at + 1
  /\ UNCHANGED <<args, set, main, cmd, messages, libobs, worker, crossed>>

TakeValue ==
  /\ main = "args" /\ at < Len(args) /\ state # None
  /\ set' = ValueGiven(state, args[at + 1])
  /\ state' = None /\ at' = at + 1
  /\ UNCHANGED <<args, useVp, capture, main, cmd, messages, libobs, worker, crossed>>

(* The mixer delays, so libobs is not to.                                  *)
Mixes == useVp /\ capture

EndArgs ==
  /\ main = "args" /\ at = Len(args)
  /\ set' = IF Mixes THEN [set EXCEPT !["offset"] = 0] ELSE set
  /\ args' = <<>> /\ at' = 0 /\ state' = None /\ main' = "create"
  /\ UNCHANGED <<useVp, capture, cmd, messages, libobs, worker, crossed>>

-----------------------------------------------------------------------------
(* initObs.                                                                *)

(* The source is made even when its thread is not.                         *)
CreateSource ==
  /\ main = "create" /\ main' = "tune"
  /\ offsets' = [s \in Source |-> 0]
  /\ thread' \in {"begin", "none"}
  /\ UNCHANGED <<line, set, useVp, capture, cmd, messages, active, started, alive, audio,
                 event, mixer, published, crossed>>

SetSyncOffsets ==
  /\ main = "tune" /\ main' = "attach"
  /\ offsets' = [s \in Source |-> set["offset"]]
  /\ UNCHANGED <<line, set, useVp, capture, cmd, messages, active, started, alive, audio,
                 event, worker, crossed>>

(* setUseVidpressoAudioInput                                               *)
Attach ==
  /\ main = "attach" /\ main' = "idle"
  /\ active' = IF useVp THEN "VP" ELSE "CoreAudio"
  /\ UNCHANGED <<line, set, useVp, capture, cmd, messages, offsets, started, alive, audio,
                 event, worker, crossed>>

-----------------------------------------------------------------------------
(* helperConfigChange.                                                     *)

(* The mixer is looked up before the message is read.                      *)
Message(name, value) ==
  /\ main = "idle" /\ messages < MaxMessages
  /\ main' = "store" /\ messages' = messages + 1
  /\ cmd' = [name |-> name, value |-> value, mixer |-> published]
  /\ UNCHANGED <<line, set, useVp, capture, libobs, worker, crossed>>

Property(name) == IF name = "offset" THEN "remote" ELSE name

(* setAudioSyncOffsetInSecs: only the active source is told.               *)
Tuned(v) == IF active = None THEN offsets ELSE [offsets EXCEPT ![active] = v]

StoreSetting ==
  /\ main = "store"
  /\ IF cmd.value < 0
     THEN main' = "idle" /\ cmd' = NoMessage /\ UNCHANGED <<set, offsets, crossed>>
     ELSE /\ main' = "forward" /\ UNCHANGED cmd
          /\ set' = [set EXCEPT ![Property(cmd.name)] = cmd.value,
                       ![cmd.name] = cmd.value]
          /\ offsets' = IF cmd.name = "offset" THEN Tuned(cmd.value) ELSE offsets
          /\ crossed' = (crossed \/ (~cmd.mixer /\ mixer # None))
  /\ UNCHANGED <<line, useVp, capture, messages, active, started, alive, audio,
                 event, worker>>

ForwardNever(m) == m  \* (mutant)

(* A message to nil does nothing.                                          *)
Forward(m) == IF cmd.mixer /\ m # None THEN [m EXCEPT ![Property(cmd.name)] = cmd.value]
              ELSE m

ForwardSetting ==
  /\ main = "forward" /\ main' = "idle"
  /\ mixer' = Forward(mixer)
  /\ cmd' = NoMessage
  /\ UNCHANGED <<line, set, useVp, capture, messages, libobs, thread, published, crossed>>

-----------------------------------------------------------------------------
(* startStreaming, stopStreaming, applicationWillTerminate.                *)

StartStreaming ==
  /\ main = "idle" /\ ~started
  /\ started' = TRUE /\ alive' = useVp
  /\ UNCHANGED <<line, set, useVp, capture, main, cmd, messages, offsets, active,
                 audio, event, worker, crossed>>

QuietIfStarted == alive' = IF started THEN FALSE ELSE alive  \* (mutant)

(* stopStreaming keeps the source quiet whether or not it was streaming.   *)
Quiet == alive' = FALSE

StopStreaming ==
  /\ main = "idle" /\ Quiet
  /\ UNCHANGED <<line, set, useVp, capture, main, cmd, messages, offsets, active,
                 started, audio, event, worker, crossed>>

Terminate ==
  /\ main = "idle" /\ main' = "shutdown" /\ Quiet
  /\ UNCHANGED <<line, set, useVp, capture, cmd, messages, offsets, active, started,
                 audio, event, worker, crossed>>

(* obs_shutdown ends the graphics thread first; a block that was being     *)
(* output before that is through by now.                                   *)
FreeAudio ==
  /\ main = "shutdown" /\ thread # "output" /\ main' = "destroy"
  /\ audio' = FALSE
  /\ UNCHANGED <<line, set, useVp, capture, cmd, messages, offsets, active, started, alive,
                 event, worker, crossed>>

(* vp_audio_source_destroy: the thread is told and joined.                 *)
SignalStop ==
  /\ main = "destroy" /\ main' = "join"
  /\ event' = TRUE
  /\ UNCHANGED <<line, set, useVp, capture, cmd, messages, offsets, active, started, alive,
                 audio, worker, crossed>>

JoinedAlways == thread = "ended"  \* (mutant)

(* A thread that was not made is not joined.                               *)
Joined == thread \in {"none", "ended"}

FreeSources ==
  /\ main = "join" /\ Joined /\ main' = "exit"
  /\ offsets' = [s \in Source |-> None] /\ active' = None
  /\ UNCHANGED <<line, set, useVp, capture, cmd, messages, started, alive, audio, event,
                 worker, crossed>>

-----------------------------------------------------------------------------
(* vp_audio_driver_consumer_thread.                                        *)

shared == <<line, set, useVp, capture, main, cmd, messages, libobs, crossed>>

Begin ==
  /\ thread = "begin"
  /\ IF capture THEN thread' = "local" /\ mixer' = [a \in Amount |-> IF a = "volume" THEN 1 ELSE 0]
                ELSE thread' = "poll" /\ UNCHANGED mixer
  /\ UNCHANGED <<shared, published>>

After(a) == CASE a = "local" -> "remote" [] a = "remote" -> "volume" [] a = "volume" -> "publish"

Copy ==
  /\ thread \in Amount
  /\ mixer' = [mixer EXCEPT ![thread] = set[thread]]
  /\ thread' = After(thread)
  /\ UNCHANGED <<shared, published>>

Publish ==
  /\ thread = "publish" /\ thread' = "poll" /\ published' = TRUE
  /\ UNCHANGED <<shared, mixer>>

(* A block is output once the flags allow it.                              *)
OutputBlock ==
  /\ thread = "poll" /\ ~event /\ alive /\ thread' = "output"
  /\ UNCHANGED <<shared, mixer, published>>

OutputDone ==
  /\ thread = "output" /\ thread' = "poll"
  /\ UNCHANGED <<shared, mixer, published>>

(* The thread's mixer goes with it; the pointer to it stays.               *)
End ==
  /\ thread = "poll" /\ event /\ thread' = "ended" /\ mixer' = None
  /\ UNCHANGED <<shared, published>>

-----------------------------------------------------------------------------

MainThread ==
  \/ TakeOption \/ TakeValue \/ EndArgs \/ CreateSource \/ SetSyncOffsets \/ Attach
  \/ \E name \in Amount \cup {"offset"}, value \in Values : Message(name, value)
  \/ StoreSetting \/ ForwardSetting \/ StartStreaming \/ StopStreaming \/ Terminate
  \/ FreeAudio \/ SignalStop \/ FreeSources

Consumer == Begin \/ Copy \/ Publish \/ OutputBlock \/ OutputDone \/ End

Next == MainThread \/ Consumer

Spec == Init /\ [][Next]_vars

(* Both threads keep running, and a shutdown that was begun goes on.       *)
FairSpec == Spec /\ WF_vars(Consumer) /\ WF_vars(FreeAudio \/ SignalStop \/ FreeSources)
=============================================================================
