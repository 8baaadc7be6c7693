--------------------------- MODULE AudioSetupProofs ---------------------------
(***************************************************************************)
(* For any options and words, and any messages: the command line means     *)
(* what it should, what was set is in force, and nothing is used that is   *)
(* gone.                                                                   *)
(***************************************************************************)
EXTENDS MCAudioSetup, FiniteSetTheorems, TLAPS

Argument == Option \cup Mode \cup Word

(* The settings that are numbers.                                          *)
Numeric == Amount \cup {"offset"}

Types ==
  /\ args \in Seq(Argument) /\ at \in 0..Len(args) /\ state \in Option \cup {None}
  /\ main \in {"args", "create", "tune", "attach", "idle", "store", "forward", "shutdown",
               "destroy", "join", "exit"}
  /\ thread \in {"none", "begin", "publish", "poll", "output", "ended"} \cup Amount
  /\ DOMAIN set = Option /\ \A n \in Numeric : set[n] \in Int
  /\ mixer \in [Amount -> Int] \cup {None} /\ offsets \in [Source -> Int \cup {None}]
  /\ messages \in Nat /\ cmd.mixer \in BOOLEAN
  /\ main \in {"store", "forward"} => cmd.name \in Numeric /\ cmd.value \in Int /\ messages > 0
  /\ main \notin {"store", "forward"} => ~cmd.mixer
  /\ {useVp, capture, alive, audio, event, published, crossed} \subseteq BOOLEAN

(* What lives as long as what: from the sources on to the shutdown.        *)
Lifetimes ==
  /\ audio <=> main \notin {"destroy", "join", "exit"}
  /\ event => main \in {"join", "exit"}
  /\ thread = "ended" => event
  /\ main \in {"shutdown", "destroy", "join", "exit"} => ~alive
  /\ main \in {"args", "create"} => thread = "none"
  /\ thread = "output" => audio
  /\ main \in {"tune", "attach", "idle", "store", "forward", "shutdown"}
       => \A s \in Source : offsets[s] # None

(* How far the thread is with its mixer, and who knows of it.              *)
Making ==
  /\ thread \in {"none", "begin", "ended"} => mixer = None
  /\ thread \in Amount \cup {"publish"} => mixer # None /\ capture
  /\ thread \in {"poll", "output"} => (mixer # None) = capture
  /\ published => thread \in {"poll", "output", "ended"}
  /\ published /\ thread # "ended" => mixer # None
  /\ cmd.mixer => mixer # None /\ thread \in {"poll", "output"}

(* The amounts the thread has copied into its mixer.                       *)
Copied ==
  CASE thread = "remote" -> {"local"}
    [] thread = "volume" -> {"local", "remote"}
    [] thread \in {"publish", "poll", "output"} -> Amount
    [] OTHER -> {}

(* The amount a message has set and not yet passed to the mixer.           *)
InHand == IF main = "forward" /\ cmd.mixer THEN {Property(cmd.name)} ELSE {}

(* Where the settings are in force already.                                *)
InEffect ==
  /\ capture => useVp
  /\ main = "attach" => \A s \in Source : offsets[s] = set["offset"]
  /\ main \in {"idle", "store", "forward"} =>
       active = (IF useVp THEN "VP" ELSE "CoreAudio") /\ offsets[active] = set["offset"]
  /\ main # "args" /\ capture /\ messages = 0 => set["offset"] = 0
  /\ main = "forward" => set[Property(cmd.name)] = cmd.value
  /\ ~crossed /\ mixer # None => \A a \in Copied \ InHand : mixer[a] = set[a]

IInv == Types /\ Lifetimes /\ Making /\ InEffect


-----------------------------------------------------------------------------
LEMMA InitInv == Init => IInv
<1> SUFFICES ASSUME Init PROVE IInv
  OBVIOUS
<1> USE DEF Init, NoMessage
<1>1. Types
  <2>1. args \in Seq(Argument) /\ at \in 0..Len(args)
    BY DEF Argument
  <2> QED  BY <2>1, SetupConstants DEF Types, Numeric, Source, Amount
<1>2. Lifetimes
  BY DEF Lifetimes, Amount
<1>3. Making
  BY DEF Making, Amount
<1>4. InEffect
  BY DEF InEffect
<1> QED  BY <1>1, <1>2, <1>3, <1>4 DEF IInv

(* The command line changes the settings and the mode only.                *)
LEMMA GivenKeeps ==
  ASSUME Types, NEW o \in Option, NEW x \in Argument
  PROVE  DOMAIN ValueGiven(o, x) = Option /\ \A n \in Numeric : ValueGiven(o, x)[n] \in Int
<1>1. Number(x) \in Int
  BY SetupConstants DEF Number
<1>2. o \in Numeric => Taken(o, x) \in Int
  BY <1>1, SetupConstants DEF Taken, Numeric
<1> QED  BY <1>2 DEF ValueGiven, Types

LEMMA TakeOptionKeeps ==
  ASSUME IInv, TakeOption
  PROVE  IInv'
<1> USE DEF IInv, TakeOption, libobs, worker
<1>1. Types'
  <2>1. at' \in 0..Len(args') /\ state' \in Option \cup {None}
    BY DEF Types
  <2>2. useVp' \in BOOLEAN /\ capture' \in BOOLEAN
    BY DEF Types
  <2> QED  BY <2>1, <2>2 DEF Types
<1>2. Lifetimes'
  BY DEF Lifetimes
<1>3. Making'
  BY DEF Types, Lifetimes, Making, Amount
<1>4. InEffect'
  BY DEF Types, Lifetimes, Making, Amount, InEffect
<1> QED  BY <1>1, <1>2, <1>3, <1>4

LEMMA TakeValueKeeps ==
  ASSUME IInv, TakeValue
  PROVE  IInv'
<1> USE DEF IInv, TakeValue, libobs, worker, line, shared
<1>1. Types'
  <2>1. state \in Option /\ args[at + 1] \in Argument
    BY DEF Types
  <2>2. DOMAIN set' = Option /\ \A n \in Numeric : set'[n] \in Int
    BY <2>1, GivenKeeps
  <2> QED  BY <2>2 DEF Types
<1>2. Lifetimes'
  BY DEF Types, Lifetimes, Making, Amount
<1>3. Making'
  BY DEF Types, Lifetimes, Making, Amount
<1>4. InEffect'
  BY DEF Types, Lifetimes, Making, Amount, InEffect
<1> QED  BY <1>1, <1>2, <1>3, <1>4

LEMMA EndArgsKeeps ==
  ASSUME IInv, EndArgs
  PROVE  IInv'
<1> USE DEF IInv, EndArgs, Mixes, libobs, worker, line, shared
<1>1. Types'
  BY SetupConstants DEF Types, Numeric
<1>2. Lifetimes'
  BY DEF Types, Lifetimes, Making, Amount
<1>3. Making'
  BY DEF Types, Lifetimes, Making, Amount
<1>4. InEffect'
  BY SetupConstants DEF Types, Lifetimes, Making, Amount, InEffect, Numeric
<1> QED  BY <1>1, <1>2, <1>3, <1>4

LEMMA CreateSourceKeeps ==
  ASSUME IInv, CreateSource
  PROVE  IInv'
<1> USE DEF IInv, CreateSource, Source, Numeric, libobs, worker, line, shared
<1>1. Types'
  BY DEF Types, Lifetimes, Making, Amount
<1>2. Lifetimes'
  BY SetupConstants DEF Types, Lifetimes
<1>3. Making'
  BY DEF Types, Lifetimes, Making, Amount
<1>4. InEffect'
  BY DEF Types, Lifetimes, Making, Amount, InEffect
<1> QED  BY <1>1, <1>2, <1>3, <1>4

LEMMA SetSyncOffsetsKeeps ==
  ASSUME IInv, SetSyncOffsets
  PROVE  IInv'
<1> USE DEF IInv, InHand, Copied, SetSyncOffsets, Source, Numeric, libobs, worker, line, shared
<1>1. Types'
  BY DEF Types, Lifetimes, Making, Amount
<1>2. Lifetimes'
  BY SetupConstants DEF Types, Lifetimes
<1>3. Making'
  BY DEF Types, Lifetimes, Making, Amount
<1>4. InEffect'
  BY DEF Types, Lifetimes, Making, Amount, InEffect
<1> QED  BY <1>1, <1>2, <1>3, <1>4

LEMMA AttachKeeps ==
  ASSUME IInv, Attach
  PROVE  IInv'
<1> USE DEF IInv, InHand, Copied, Attach, Source, Numeric, libobs, worker, line, shared
<1>1. Types'
  BY DEF Types, Lifetimes, Making, Amount
<1>2. Lifetimes'
  BY DEF Types, Lifetimes, Making, Amount
<1>3. Making'
  BY DEF Types, Lifetimes, Making, Amount
<1>4. InEffect'
  BY DEF Types, Lifetimes, Making, Amount, InEffect
<1> QED  BY <1>1, <1>2, <1>3, <1>4

LEMMA MessageKeeps ==
  ASSUME IInv, NEW name \in Numeric, NEW value \in Values, Message(name, value)
  PROVE  IInv'
<1> USE DEF IInv, InHand, Copied, Message, libobs, worker, line, shared
<1>1. Types'
  BY SetupConstants DEF Types, Numeric
<1>2. Lifetimes'
  BY DEF Types, Lifetimes, Making, Amount
<1>3. Making'
  BY DEF Types, Lifetimes, Making, Amount
<1>4. InEffect'
  BY DEF Types, Lifetimes, Making, Amount, InEffect
<1> QED  BY <1>1, <1>2, <1>3, <1>4

LEMMA StoreSettingKeeps ==
  ASSUME IInv, StoreSetting
  PROVE  IInv'
<1> USE DEF IInv, StoreSetting, libobs, worker, line, shared
<1>1. CASE cmd.value < 0
  <2>1. Types'
    <3>1. main' = "idle" /\ cmd' = NoMessage /\ UNCHANGED <<set, offsets, crossed>>
      BY <1>1
    <3> QED  BY <3>1 DEF Types, NoMessage
  <2>2. Lifetimes'
    BY <1>1 DEF Types, Lifetimes
  <2>3. Making'
    BY <1>1 DEF Types, Lifetimes, Making, Amount, NoMessage
  <2>4. InEffect'
    BY <1>1 DEF Types, InEffect, InHand, Copied
  <2> QED  BY <2>1, <2>2, <2>3, <2>4
<1>2. CASE ~(cmd.value < 0)
  <2> DEFINE p == Property(cmd.name)
  <2>1. p \in Amount /\ p \in Option /\ cmd.name \in Option /\ cmd.value \in Int
    BY SetupConstants DEF Types, Property, Numeric, Amount
  <2>2. /\ main' = "forward" /\ cmd' = cmd
        /\ offsets' = IF cmd.name = "offset" THEN Tuned(cmd.value) ELSE offsets
        /\ crossed' = (crossed \/ (~cmd.mixer /\ mixer # None))
        /\ set' = [set EXCEPT ![p] = cmd.value, ![cmd.name] = cmd.value]
    BY <1>2
  <2>3. /\ DOMAIN set' = Option /\ set'[p] = cmd.value /\ set'[cmd.name] = cmd.value
        /\ \A n \in Option \ {p, cmd.name} : set'[n] = set[n]
    BY <2>1, <2>2 DEF Types
  <2>4. cmd.name # "offset" => p = cmd.name
    BY DEF Property
  <2>5. \A s \in Source : offsets'[s] \in Int \cup {None} /\ (offsets[s] # None => offsets'[s] # None)
    BY <2>1, <2>2, SetupConstants DEF Types, Tuned
  <2>6. offsets' \in [Source -> Int \cup {None}]
    BY <2>1, <2>2, <2>5 DEF Types, Tuned
  <2> HIDE DEF p
  <2>7. Types'
    BY <2>1, <2>2, <2>3, <2>6, SetupConstants DEF Types, Numeric
  <2>8. Lifetimes'
    BY <2>2, <2>5 DEF Types, Lifetimes
  <2>9. Making'
    BY <2>2 DEF Types, Lifetimes, Making, Amount
  <2>10. InEffect'
    <3>1. offsets'[active] = set'["offset"]
      <4>1. active \in Source /\ active # None /\ offsets[active] = set["offset"]
        BY SetupConstants DEF InEffect, Source
      <4>2. cmd.name = "offset" => offsets' = [offsets EXCEPT ![active] = cmd.value]
        BY <2>2, <4>1 DEF Tuned
      <4>3. cmd.name # "offset" => set'["offset"] = set["offset"]
        BY <2>1, <2>3, <2>4, SetupConstants DEF Amount
      <4> QED  BY <2>2, <2>3, <4>1, <4>2, <4>3 DEF Types
    <3>2. set'[Property(cmd'.name)] = cmd'.value
      BY <2>2, <2>3 DEF p
    <3>3. ~crossed' /\ mixer' # None => \A a \in Copied' \ InHand' : mixer'[a] = set'[a]
      <4>1. SUFFICES ASSUME ~crossed', mixer # None, NEW a \in Copied' \ InHand'
                     PROVE  mixer[a] = set'[a]
        OBVIOUS
      <4>2. cmd.mixer /\ ~crossed
        BY <2>2, <4>1 DEF Types
      <4>3. InHand' = {p} /\ InHand = {} /\ Copied' = Copied /\ Copied \subseteq Amount
        BY <2>2, <4>2 DEF p, InHand, Copied, Amount
      <4>4. a # p /\ a # cmd.name /\ a \in Option
        BY <2>4, <4>1, <4>3, SetupConstants DEF Amount
      <4> QED  BY <2>3, <4>1, <4>2, <4>3, <4>4 DEF InEffect
    <3>4. messages > 0 /\ messages' = messages
      BY DEF Types
    <3>5. /\ capture' = capture /\ useVp' = useVp /\ active' = active
          /\ (capture => useVp) /\ active = (IF useVp THEN "VP" ELSE "CoreAudio")
      BY DEF InEffect
    <3>6. /\ capture' => useVp'
          /\ main' # "attach" /\ messages' # 0
          /\ active' = (IF useVp' THEN "VP" ELSE "CoreAudio")
          /\ offsets'[active'] = set'["offset"]
      BY <2>2, <3>1, <3>4, <3>5
    <3> HIDE DEF IInv, StoreSetting
    <3> QED  BY <3>2, <3>3, <3>6 DEF InEffect
  <2> QED  BY <2>7, <2>8, <2>9, <2>10
<1> QED  BY <1>1, <1>2

LEMMA ForwardSettingKeeps ==
  ASSUME IInv, ForwardSetting
  PROVE  IInv'
<1> USE DEF IInv, Copied, ForwardSetting, Forward, Property, NoMessage, Numeric, Source, InHand, libobs, worker, line, shared
<1>1. Types'
  BY DEF Types, Lifetimes, Making, Amount
<1>2. Lifetimes'
  BY DEF Types, Lifetimes, Making, Amount
<1>3. Making'
  <2>1. cmd.mixer /\ mixer # None => mixer' \in [Amount -> Int]
    BY DEF Types, Amount
  <2>2. mixer # None => mixer' # None
    BY <2>1, SetupConstants
  <2> QED  BY <2>2, SetupConstants DEF Types, Lifetimes, Making, Amount
<1>4. InEffect'
  BY DEF Types, Lifetimes, Making, Amount, InEffect
<1> QED  BY <1>1, <1>2, <1>3, <1>4

LEMMA StartStreamingKeeps ==
  ASSUME IInv, StartStreaming
  PROVE  IInv'
<1> USE DEF IInv, StartStreaming, Quiet, Joined, Source, Numeric, InHand, Copied, libobs, worker, line, shared
<1>1. Types'
  BY DEF Types, Lifetimes, Making, Amount
<1>2. Lifetimes'
  BY DEF Types, Lifetimes, Making, Amount
<1>3. Making'
  BY DEF Types, Lifetimes, Making, Amount
<1>4. InEffect'
  BY DEF Types, Lifetimes, Making, Amount, InEffect
<1> QED  BY <1>1, <1>2, <1>3, <1>4

LEMMA StopStreamingKeeps ==
  ASSUME IInv, StopStreaming
  PROVE  IInv'
<1> USE DEF IInv, StopStreaming, Quiet, Joined, Source, Numeric, InHand, Copied, libobs, worker, line, shared
<1>1. Types'
  BY DEF Types, Lifetimes, Making, Amount
<1>2. Lifetimes'
  BY DEF Types, Lifetimes, Making, Amount
<1>3. Making'
  BY DEF Types, Lifetimes, Making, Amount
<1>4. InEffect'
  BY DEF Types, Lifetimes, Making, Amount, InEffect
<1> QED  BY <1>1, <1>2, <1>3, <1>4

LEMMA TerminateKeeps ==
  ASSUME IInv, Terminate
  PROVE  IInv'
<1> USE DEF IInv, Terminate, Quiet, Joined, Source, Numeric, InHand, Copied, libobs, worker, line, shared
<1>1. Types'
  BY DEF Types, Lifetimes, Making, Amount
<1>2. Lifetimes'
  BY DEF Types, Lifetimes, Making, Amount
<1>3. Making'
  BY DEF Types, Lifetimes, Making, Amount
<1>4. InEffect'
  BY DEF Types, Lifetimes, Making, Amount, InEffect
<1> QED  BY <1>1, <1>2, <1>3, <1>4

LEMMA FreeAudioKeeps ==
  ASSUME IInv, FreeAudio
  PROVE  IInv'
<1> USE DEF IInv, FreeAudio, Quiet, Joined, Source, Numeric, InHand, Copied, libobs, worker, line, shared
<1>1. Types'
  BY DEF Types, Lifetimes, Making, Amount
<1>2. Lifetimes'
  BY DEF Types, Lifetimes, Making, Amount
<1>3. Making'
  BY DEF Types, Lifetimes, Making, Amount
<1>4. InEffect'
  BY DEF Types, Lifetimes, Making, Amount, InEffect
<1> QED  BY <1>1, <1>2, <1>3, <1>4

LEMMA SignalStopKeeps ==
  ASSUME IInv, SignalStop
  PROVE  IInv'
<1> USE DEF IInv, SignalStop, Quiet, Joined, Source, Numeric, InHand, Copied, libobs, worker, line, shared
<1>1. Types'
  BY DEF Types, Lifetimes, Making, Amount
<1>2. Lifetimes'
  BY DEF Types, Lifetimes, Making, Amount
<1>3. Making'
  BY DEF Types, Lifetimes, Making, Amount
<1>4. InEffect'
  BY DEF Types, Lifetimes, Making, Amount, InEffect
<1> QED  BY <1>1, <1>2, <1>3, <1>4

LEMMA FreeSourcesKeeps ==
  ASSUME IInv, FreeSources
  PROVE  IInv'
<1> USE DEF IInv, FreeSources, Quiet, Joined, Source, Numeric, InHand, Copied, libobs, worker, line, shared
<1>1. Types'
  BY DEF Types, Lifetimes, Making, Amount
<1>2. Lifetimes'
  BY DEF Types, Lifetimes, Making, Amount
<1>3. Making'
  BY DEF Types, Lifetimes, Making, Amount
<1>4. InEffect'
  BY DEF Types, Lifetimes, Making, Amount, InEffect
<1> QED  BY <1>1, <1>2, <1>3, <1>4

LEMMA BeginKeeps ==
  ASSUME IInv, Begin
  PROVE  IInv'
<1> USE DEF IInv, Begin, After, Source, Numeric, InHand, Copied, libobs, worker, line, shared
<1>1. Types'
  BY DEF Types, Lifetimes, Making, Amount
<1>2. Lifetimes'
  BY DEF Types, Lifetimes, Making, Amount
<1>3. Making'
  <2>1. [a \in Amount |-> IF a = "volume" THEN 1 ELSE 0] # None
    BY SetupConstants
  <2> QED  BY <2>1 DEF Types, Lifetimes, Making, Amount
<1>4. InEffect'
  BY DEF Types, Lifetimes, Making, Amount, InEffect
<1> QED  BY <1>1, <1>2, <1>3, <1>4

LEMMA CopyKeeps ==
  ASSUME IInv, Copy
  PROVE  IInv'
<1> USE DEF IInv, Copy, After, Source, Numeric, InHand, Copied, libobs, worker, line, shared
<1>1. Types'
  BY DEF Types, Lifetimes, Making, Amount
<1>2. Lifetimes'
  BY DEF Types, Lifetimes, Making, Amount
<1>3. Making'
  <2>1. mixer \in [Amount -> Int] /\ set[thread] \in Int
    BY DEF Types, Making, Amount
  <2>2. [mixer EXCEPT ![thread] = set[thread]] # None
    BY <2>1, SetupConstants
  <2> QED  BY <2>2 DEF Types, Lifetimes, Making, Amount
<1>4. InEffect'
  BY DEF Types, Lifetimes, Making, Amount, InEffect
<1> QED  BY <1>1, <1>2, <1>3, <1>4

LEMMA PublishKeeps ==
  ASSUME IInv, Publish
  PROVE  IInv'
<1> USE DEF IInv, Publish, After, Source, Numeric, InHand, Copied, libobs, worker, line, shared
<1>1. Types'
  BY DEF Types, Lifetimes, Making, Amount
<1>2. Lifetimes'
  BY DEF Types, Lifetimes, Making, Amount
<1>3. Making'
  BY DEF Types, Lifetimes, Making, Amount
<1>4. InEffect'
  BY DEF Types, Lifetimes, Making, Amount, InEffect
<1> QED  BY <1>1, <1>2, <1>3, <1>4

LEMMA OutputBlockKeeps ==
  ASSUME IInv, OutputBlock
  PROVE  IInv'
<1> USE DEF IInv, OutputBlock, After, Source, Numeric, InHand, Copied, libobs, worker, line, shared
<1>1. Types'
  BY DEF Types, Lifetimes, Making, Amount
<1>2. Lifetimes'
  BY DEF Types, Lifetimes, Making, Amount
<1>3. Making'
  BY DEF Types, Lifetimes, Making, Amount
<1>4. InEffect'
  BY DEF Types, Lifetimes, Making, Amount, InEffect
<1> QED  BY <1>1, <1>2, <1>3, <1>4

LEMMA OutputDoneKeeps ==
  ASSUME IInv, OutputDone
  PROVE  IInv'
<1> USE DEF IInv, OutputDone, After, Source, Numeric, InHand, Copied, libobs, worker, line, shared
<1>1. Types'
  BY DEF Types, Lifetimes, Making, Amount
<1>2. Lifetimes'
  BY DEF Types, Lifetimes, Making, Amount
<1>3. Making'
  BY DEF Types, Lifetimes, Making, Amount
<1>4. InEffect'
  BY DEF Types, Lifetimes, Making, Amount, InEffect
<1> QED  BY <1>1, <1>2, <1>3, <1>4

LEMMA EndKeeps ==
  ASSUME IInv, End
  PROVE  IInv'
<1> USE DEF IInv, End, After, Source, Numeric, InHand, Copied, libobs, worker, line, shared
<1>1. Types'
  BY DEF Types, Lifetimes, Making, Amount
<1>2. Lifetimes'
  BY DEF Types, Lifetimes, Making, Amount
<1>3. Making'
  BY DEF Types, Lifetimes, Making, Amount
<1>4. InEffect'
  BY DEF Types, Lifetimes, Making, Amount, InEffect
<1> QED  BY <1>1, <1>2, <1>3, <1>4

LEMMA StutterKeeps ==
  ASSUME IInv, UNCHANGED vars
  PROVE  IInv'
<1> USE DEF vars, libobs, worker, line
<1>1. Types'
  BY DEF IInv, Types
<1>2. Lifetimes'
  BY DEF IInv, Lifetimes
<1>3. Making'
  BY DEF IInv, Making
<1>4. InEffect'
  BY DEF IInv, InEffect, Copied, InHand
<1> QED  BY <1>1, <1>2, <1>3, <1>4 DEF IInv

LEMMA Inductive == IInv /\ [Next]_vars => IInv'
<1> SUFFICES ASSUME IInv, [Next]_vars PROVE IInv'
  OBVIOUS
<1>1. CASE MainThread
  <2>1. (\E name \in Numeric, value \in Values : Message(name, value)) => IInv'
    BY MessageKeeps
  <2> QED
    BY <1>1, <2>1, TakeOptionKeeps, TakeValueKeeps, EndArgsKeeps, CreateSourceKeeps,
       SetSyncOffsetsKeeps, AttachKeeps, StoreSettingKeeps, ForwardSettingKeeps,
       StartStreamingKeeps, StopStreamingKeeps, TerminateKeeps, FreeAudioKeeps,
       SignalStopKeeps, FreeSourcesKeeps
       DEF MainThread, Numeric
<1>2. CASE Consumer
  BY <1>2, BeginKeeps, CopyKeeps, PublishKeeps, OutputBlockKeeps, OutputDoneKeeps, EndKeeps
     DEF Consumer
<1>3. CASE UNCHANGED vars
  BY <1>3, StutterKeeps
<1> QED  BY <1>1, <1>2, <1>3 DEF Next

(* Whatever was given and whatever messages come, once the main thread is  *)
(* done with them the source that is heard has the streamer's offset, and  *)
(* the mixer the delays and the volume of the globals: StoreSetting and    *)
(* ForwardSetting reach the source and the mixer that exist, and Copy      *)
(* takes what was set before; a message handled in between is the          *)
(* exception.                                                              *)
THEOREM InForce == Spec => []SettingsInForce
<1>1. IInv => SettingsInForce
  <2> SUFFICES ASSUME IInv, Settled PROVE SettingsInForce
    BY DEF SettingsInForce
  <2>1. offsets[active] = set["offset"] /\ (mixer # None) = capture
    BY DEF IInv, InEffect, Making, Settled, Types
  <2>2. mixer # None /\ messages = 0 => active = "VP" /\ offsets[active] = 0
    BY <2>1 DEF IInv, InEffect, Settled, Types
  <2>3. ~crossed /\ mixer # None => \A a \in Amount : mixer[a] = set[a]
    BY DEF IInv, InEffect, Settled, Copied, InHand
  <2> QED  BY <2>1, <2>2, <2>3 DEF SettingsInForce
<1> QED  BY <1>1, InitInv, Inductive, PTL DEF Spec

(* No block is output into a source or an audio output that is gone:       *)
(* FreeAudio waits for the block that is under way and Quiet keeps the     *)
(* next from starting.  No message goes to a mixer that is: it goes with   *)
(* the thread, which is told after the last message was handled.           *)
THEOREM AliveInUse == Spec => []UsedWhileAlive
<1>1. IInv => UsedWhileAlive
  <2> SUFFICES ASSUME IInv PROVE UsedWhileAlive
    OBVIOUS
  <2>1. thread = "output" => audio /\ offsets["VP"] # None
    BY DEF IInv, Types, Lifetimes, Source, Amount
  <2>2. cmd.mixer => mixer # None
    BY DEF IInv, Making
  <2> QED  BY <2>1, <2>2 DEF UsedWhileAlive
<1> QED  BY <1>1, InitInv, Inductive, PTL DEF Spec

-----------------------------------------------------------------------------
(* The command line.  Where an argument is read as an option says how the  *)
(* one after it is read; a setting follows the last value given for it.    *)

LEMMA ReadFirst == ReadAsOption(1)
<1>1. {j \in 1..1 - 1 : \A k \in j..1 - 1 : args[k] \in Option} = {}
  OBVIOUS
<1>2. Cardinality({}) % 2 = 0
  BY FS_EmptySet
<1> QED  BY <1>1, <1>2 DEF ReadAsOption

LEMMA ReadNext ==
  ASSUME NEW i \in Nat, i > 0
  PROVE  ReadAsOption(i + 1) <=> (args[i] \in Option => ~ReadAsOption(i))
<1> DEFINE Run(n) == {j \in 1..n - 1 : \A k \in j..n - 1 : args[k] \in Option}
<1>1. IsFiniteSet(Run(i)) /\ Cardinality(Run(i)) \in Nat
  <2>1. IsFiniteSet(1..i - 1) /\ Run(i) \in SUBSET (1..i - 1)
    BY FS_Interval
  <2> QED  BY <2>1, FS_Subset, FS_CardinalityType
<1>2. CASE args[i] \in Option
  <2>1. Run(i + 1) = Run(i) \cup {i}
    BY <1>2
  <2>2. i \notin Run(i)
    OBVIOUS
  <2>3. Cardinality(Run(i + 1)) = Cardinality(Run(i)) + 1
    BY <1>1, <2>1, <2>2, FS_AddElement
  <2>4. Cardinality(Run(i + 1)) % 2 = 0 <=> Cardinality(Run(i)) % 2 # 0
    BY <1>1, <2>3
  <2> QED  BY <1>2, <2>4 DEF ReadAsOption
<1>3. CASE args[i] \notin Option
  <2>1. Run(i + 1) = {}
    BY <1>3
  <2>2. Cardinality(Run(i + 1)) % 2 = 0
    BY <2>1, FS_EmptySet
  <2> QED  BY <1>3, <2>2 DEF ReadAsOption
<1> QED  BY <1>2, <1>3

LEMMA MaxAdded ==
  ASSUME NEW S, NEW m \in Int, \A x \in S : x \in Int /\ x < m
  PROVE  Max(S \cup {m}) = m
BY DEF Max

(* The state says how the next argument is read.                           *)
Reading ==
  main = "args" =>
    /\ state = None <=> ReadAsOption(at + 1)
    /\ state # None => at > 0 /\ state = args[at]

LEMMA ReadingStarts == Init => Reading /\ ArgsMeant
<1> SUFFICES ASSUME Init PROVE Reading /\ ArgsMeant
  OBVIOUS
<1>1. at = 0 /\ state = None /\ set = Default /\ useVp = TRUE /\ capture = FALSE
  BY DEF Init
<1>2. Modes = {} /\ \A o \in Option : Given(o) = {}
  BY <1>1 DEF Modes, Given
<1>3. Reading
  BY <1>1, ReadFirst DEF Reading
<1> QED  BY <1>1, <1>2, <1>3 DEF ArgsMeant

LEMMA SameArgsRead ==
  ASSUME args' = args, NEW i \in Nat
  PROVE  ReadAsOption(i)' <=> ReadAsOption(i)
BY DEF ReadAsOption

LEMMA NextRead ==
  ASSUME args' = args, at' = at + 1, at \in Nat
  PROVE  ReadAsOption(at + 1)' <=> ReadAsOption(at + 2)
<1>1. at' + 1 = at + 2
  OBVIOUS
<1> QED  BY <1>1 DEF ReadAsOption

(* One more argument: what it may add to what was given and to the modes.  *)
LEMMA Grows ==
  ASSUME args' = args, at' = at + 1, at \in Nat
  PROVE  /\ \A o \in Option :
              Given(o)' = IF /\ at > 0 /\ args[at] = o /\ ReadAsOption(at)
                             /\ Accepted(o, args[at + 1])
                          THEN Given(o) \cup {at + 1} ELSE Given(o)
         /\ Modes' = IF args[at + 1] \in Mode /\ ReadAsOption(at + 1)
                     THEN Modes \cup {at + 1} ELSE Modes
<1>1. \A i \in Nat : ReadAsOption(i)' <=> ReadAsOption(i)
  BY SameArgsRead
<1>2. Modes' = IF args[at + 1] \in Mode /\ ReadAsOption(at + 1)
               THEN Modes \cup {at + 1} ELSE Modes
  <2>1. Modes' = {i \in 1..at + 1 : args[i] \in Mode /\ ReadAsOption(i)}
    BY <1>1 DEF Modes
  <2> QED  BY <2>1 DEF Modes
<1>3. ASSUME NEW o \in Option
      PROVE  Given(o)' = IF /\ at > 0 /\ args[at] = o /\ ReadAsOption(at)
                             /\ Accepted(o, args[at + 1])
                          THEN Given(o) \cup {at + 1} ELSE Given(o)
  <2>1. Given(o)' = {i \in 2..at + 1 :
                       args[i - 1] = o /\ ReadAsOption(i - 1) /\ Accepted(o, args[i])}
    BY <1>1 DEF Given
  <2> QED  BY <2>1 DEF Given
<1> QED  BY <1>2, <1>3

LEMMA TakeOptionReads ==
  ASSUME Types, Reading, ArgsMeant, TakeOption
  PROVE  Reading' /\ ArgsMeant'
<1> DEFINE x == args[at + 1]
<1>1. /\ at \in Nat /\ x \in Argument /\ args' = args /\ at' = at + 1 /\ main = "args"
      /\ state' = (IF x \in Option THEN x ELSE None) /\ set' = set /\ main' = "args"
      /\ useVp' = (IF x \in Mode THEN x # "system" ELSE useVp)
      /\ capture' = (IF x \in Mode THEN x = "mixed" ELSE capture)
  BY DEF Types, TakeOption
<1>2. ReadAsOption(at + 1)
  BY <1>1 DEF Reading, TakeOption
<1>3. state' = None <=> ReadAsOption(at + 1)'
  <2>1. ReadAsOption(at + 2) <=> x \notin Option
    BY <1>1, <1>2, ReadNext
  <2> QED  BY <1>1, <2>1, NextRead, SetupConstants
<1>4. Reading'
  BY <1>1, <1>3 DEF Reading
<1>5. \A o \in Option : Given(o)' = Given(o)
  BY <1>1, <1>2, Grows, ReadNext
<1>6. Modes' = IF x \in Mode THEN Modes \cup {at + 1} ELSE Modes
  BY <1>1, <1>2, Grows
<1>7. x \in Mode => Max(Modes') = at + 1
  <2>1. \A y \in Modes : y \in Int /\ y < at + 1
    BY <1>1 DEF Modes
  <2>2. at + 1 \in Int
    BY <1>1
  <2>3. Max(Modes \cup {at + 1}) = at + 1
    BY <2>1, <2>2, MaxAdded
  <2> QED  BY <1>6, <2>3
<1>8. /\ useVp' = (Modes' = {} \/ args[Max(Modes')] # "system")
      /\ capture' = (Modes' # {} /\ args[Max(Modes')] = "mixed")
  BY <1>1, <1>6, <1>7 DEF ArgsMeant
<1>9. ArgsMeant'
  BY <1>1, <1>5, <1>8 DEF ArgsMeant
<1> QED  BY <1>4, <1>9

LEMMA TakeValueReads ==
  ASSUME Types, Reading, ArgsMeant, TakeValue
  PROVE  Reading' /\ ArgsMeant'
<1> DEFINE x == args[at + 1]
<1>1. /\ at \in Nat /\ at > 0 /\ args' = args /\ at' = at + 1 /\ main = "args"
      /\ state \in Option /\ state = args[at] /\ state' = None /\ main' = "args"
      /\ set' = ValueGiven(state, x) /\ useVp' = useVp /\ capture' = capture
      /\ DOMAIN set = Option
  BY DEF Types, TakeValue, Reading
<1>2. ~ReadAsOption(at + 1) /\ ReadAsOption(at)
  BY <1>1, ReadNext DEF Reading, TakeValue
<1>3. ReadAsOption(at + 1)'
  <2>1. ReadAsOption(at + 2)
    BY <1>1, <1>2, ReadNext
  <2> QED  BY <1>1, <2>1, NextRead
<1>4. Reading'
  BY <1>1, <1>3 DEF Reading
<1>5. Modes' = Modes
  BY <1>1, <1>2, Grows
<1>6. ASSUME NEW o \in Option
      PROVE  set'[o] = IF Given(o)' = {} THEN Default[o]
                       ELSE Taken(o, args[Max(Given(o)')])
  <2>1. set[o] = IF Given(o) = {} THEN Default[o] ELSE Taken(o, args[Max(Given(o))])
    BY <1>1 DEF ArgsMeant
  <2>2. CASE o = state /\ Accepted(o, x)
    <3>1. Given(o)' = Given(o) \cup {at + 1}
      BY <1>1, <1>2, <2>2, Grows
    <3>2. Max(Given(o)') = at + 1
      <4>1. \A y \in Given(o) : y \in Int /\ y < at + 1
        BY <1>1 DEF Given
      <4>2. at + 1 \in Int
        BY <1>1
      <4>3. Max(Given(o) \cup {at + 1}) = at + 1
        BY <4>1, <4>2, MaxAdded
      <4> QED  BY <3>1, <4>3
    <3>3. set'[o] = Taken(o, x)
      BY <1>1, <2>2 DEF ValueGiven
    <3> QED  BY <3>1, <3>2, <3>3
  <2>3. CASE ~(o = state /\ Accepted(o, x))
    <3>1. Given(o)' = Given(o)
      BY <1>1, <2>3, Grows
    <3>2. set'[o] = set[o]
      BY <1>1, <2>3 DEF ValueGiven
    <3> QED  BY <2>1, <3>1, <3>2
  <2> QED  BY <2>2, <2>3
<1>7. ArgsMeant'
  BY <1>1, <1>5, <1>6 DEF ArgsMeant
<1> QED  BY <1>4, <1>7

LEMMA ReadingKept ==
  ASSUME Reading, ArgsMeant, UNCHANGED <<args, at, state, set, useVp, capture, main>>
  PROVE  Reading' /\ ArgsMeant'
<1>1. Reading'
  BY DEF Reading, ReadAsOption
<1>2. Modes' = Modes
  BY DEF Modes, ReadAsOption
<1>3. \A o \in Option : Given(o)' = Given(o)
  BY DEF Given, ReadAsOption
<1> QED  BY <1>1, <1>2, <1>3 DEF ArgsMeant

(* Each setting is the last value that was given for it and accepted, and  *)
(* the mode the last one given, wherever options and words stand in the    *)
(* arguments: the loop of applicationDidFinishLaunching takes what follows *)
(* an option as its value, also when it looks like an option.              *)
THEOREM Meant == Spec => []ArgsMeant
<1>1. ASSUME IInv, Reading, ArgsMeant, [Next]_vars
      PROVE  Reading' /\ ArgsMeant'
  <2>1. CASE main' # "args"
    BY <2>1 DEF Reading, ArgsMeant
  <2>2. CASE main' = "args" /\ ~TakeOption /\ ~TakeValue
    <3>1. UNCHANGED <<args, at, state, set, useVp, capture, main>>
      BY <1>1, <2>2 DEF Next, MainThread, Consumer, EndArgs, CreateSource, SetSyncOffsets,
         Attach, Message, StoreSetting, ForwardSetting, StartStreaming, StopStreaming,
         Terminate, FreeAudio, SignalStop, FreeSources, Begin, Copy, Publish, OutputBlock,
         OutputDone, End, vars, line, libobs, worker, shared
    <3> QED  BY <1>1, <3>1, ReadingKept
  <2>3. CASE TakeOption
    BY <1>1, <2>3, TakeOptionReads DEF IInv
  <2>4. CASE TakeValue
    BY <1>1, <2>4, TakeValueReads DEF IInv
  <2> QED  BY <2>1, <2>2, <2>3, <2>4
<1> QED  BY <1>1, InitInv, Inductive, ReadingStarts, PTL DEF Spec
=============================================================================
