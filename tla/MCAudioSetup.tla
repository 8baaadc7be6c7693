---------------------------- MODULE MCAudioSetup ----------------------------
(***************************************************************************)
(* A small instance of AudioSetup, and what the helper's audio relies on.  *)
(***************************************************************************)
EXTENDS AudioSetup, FiniteSets, FiniteSetsExt

KindOf == [o \in Option |-> CASE o = "streaming-destinations" -> "list"
                              [] o = "video-w" -> "size"
                              [] o = "offset" -> "offset"
                              [] OTHER -> "amount"]
Initially == [o \in Option |-> CASE o = "streaming-destinations" -> "none"
                                 [] o = "video-w" -> 2
                                 [] o = "offset" -> 6
                                 [] o = "volume" -> 1
                                 [] OTHER -> 0]
Numbers == [x \in {"-1", "1", "3", "1e999"} |->
              CASE x = "-1" -> -1 [] x = "1" -> 1 [] OTHER -> 3]

MessageValues == {-1, 2}

Settled == main = "idle" /\ thread \in {"poll", "output"}

-----------------------------------------------------------------------------
(* What the command line means, without the parser's state: an argument is *)
(* read as an option when the run of valued options before it is even; a   *)
(* setting is the last value given for it that it accepts, and the mode    *)
(* the last one given.                                                     *)

ReadAsOption(i) ==
  Cardinality({j \in 1..i - 1 : \A k \in j..i - 1 : args[k] \in Option}) % 2 = 0

Given(o) == {i \in 2..at : args[i - 1] = o /\ ReadAsOption(i - 1) /\ Accepted(o, args[i])}
Modes == {i \in 1..at : args[i] \in Mode /\ ReadAsOption(i)}

ArgsMeant ==
  main = "args" =>
    /\ \A o \in Option :
         set[o] = IF Given(o) = {} THEN Default[o] ELSE Taken(o, args[Max(Given(o))])
    /\ useVp = (Modes = {} \/ args[Max(Modes)] # "system")
    /\ capture = (Modes # {} /\ args[Max(Modes)] = "mixed")

(* What was set is in force once the main thread is done with it: the      *)
(* source that is heard has the streamer's offset, which is none when the  *)
(* mixer delays, until a message sets one; and the mixer has the delays    *)
(* and the volume of the globals, but for a message handled while it was   *)
(* being made, which looked for it too early and set them too late.        *)
SettingsInForce ==
  Settled =>
    /\ offsets[active] = set["offset"]
    /\ mixer # None /\ messages = 0 => active = "VP" /\ offsets[active] = 0
    /\ (mixer # None) = capture
    /\ ~crossed /\ mixer # None => \A a \in Amount : mixer[a] = set[a]

(* No block is output into a source or an audio output that is gone, and   *)
(* no message goes to a mixer that is.                                     *)
UsedWhileAlive ==
  /\ thread = "output" => audio /\ offsets["VP"] # None
  /\ cmd.mixer => mixer # None

(* A shutdown ends, whether or not the source's thread could be made.      *)
ShutdownEnds == main = "shutdown" ~> main = "exit"
=============================================================================
