--------------------------- MODULE StreamerProofs ---------------------------
(***************************************************************************)
(* For any number of destinations and whatever the order in which the main *)
(* thread comes to its callbacks: what runs is known to run, and is        *)
(* stopped before the process ends.                                        *)
(***************************************************************************)
EXTENDS MCStreamer, TLAPS

SignalBlocks == [kind : {"signal"}, dest : Dest, name : DOMAIN Announced]
Block == SignalBlocks \cup [kind : Delayed]

(* The types, with the main queue as a sequence of blocks.                 *)
Types ==
  /\ isPlaying \in BOOLEAN /\ didTerminate \in BOOLEAN
  /\ isStreaming \in BOOLEAN /\ isRecording \in BOOLEAN /\ alive \in BOOLEAN
  /\ pingTracked \in BOOLEAN /\ recording \in BOOLEAN
  /\ byRequest \in BOOLEAN /\ tardy \in BOOLEAN
  /\ told \in [Dest -> Condition] /\ posted \in [Dest -> Condition]
  /\ queue \in Seq(Block)
  /\ later \in [Delayed -> Nat] /\ requests \in 0..MaxRequests
  /\ pingTimers \in Nat /\ (pingTracked => pingTimers > 0)

AllOff == \A d \in Dest : told[d] = "off"

(* isStreaming may be true of outputs that have all stopped, never false   *)
(* of one that runs.                                                       *)
KnownToRun ==
  /\ ~isStreaming => AllOff
  /\ recording => isRecording
  /\ isStreaming \/ isRecording => alive = UseVpAudio
  /\ didTerminate => AllOff /\ ~recording /\ ~alive

IInv == Types /\ KnownToRun

-----------------------------------------------------------------------------
(* The blocks, and the two calls that change what runs.                    *)

LEMMA SignalBlockType ==
  ASSUME NEW d \in Dest, NEW name \in DOMAIN Announced
  PROVE  SignalBlock(d, name) \in Block
  BY DEF SignalBlock, Block, SignalBlocks

LEMMA AnnouncedType ==
  ASSUME NEW name \in DOMAIN Announced
  PROVE  Announced[name] \in Condition
  BY DEF Announced, Condition

LEMMA DelayedBlockType ==
  ASSUME NEW kind \in Delayed
  PROVE  [kind |-> kind] \in Block
  BY DEF Block

LEMMA AfterType ==
  ASSUME later \in [Delayed -> Nat], NEW kind \in Delayed
  PROVE  After(kind) \in [Delayed -> Nat]
  BY DEF After

LEMMA StopTypes ==
  ASSUME IInv, NEW waiting \in Seq(Block), stopStreaming(waiting)
  PROVE  /\ told' \in [Dest -> Condition] /\ queue' \in Seq(Block)
         /\ recording' = FALSE /\ isStreaming' = FALSE /\ isRecording' = FALSE
         /\ alive' = FALSE /\ \A d \in Dest : told'[d] = "off"
<1>1. recording' = FALSE /\ isStreaming' = FALSE /\ isRecording' = FALSE /\ alive' = FALSE
  BY DEF stopStreaming, IInv, Types, KnownToRun
<1>2. CASE isStreaming
  <2> DEFINE stops == [i \in 1..numStreams |-> SignalBlock(i - 1, "stop")]
  <2>1. told' = [d \in Dest |-> "off"] /\ queue' = waiting \o stops
    BY <1>2 DEF stopStreaming
  <2>2. \A i \in 1..numStreams : SignalBlock(i - 1, "stop") \in Block
    <3> TAKE i \in 1..numStreams
    <3>1. i - 1 \in Dest
      BY StreamerAssumption DEF Dest
    <3> QED  BY <3>1, SignalBlockType DEF Announced
  <2>3. stops \in Seq(Block)
    BY <2>2, StreamerAssumption
  <2> HIDE DEF stops
  <2>4. queue' \in Seq(Block)
    BY <2>1, <2>3
  <2> QED  BY <1>1, <2>1, <2>4 DEF Condition
<1>3. CASE ~isStreaming
  BY <1>1, <1>3 DEF stopStreaming, IInv, Types, KnownToRun, AllOff
<1> QED  BY <1>2, <1>3

LEMMA StartTypes ==
  ASSUME IInv, startStreaming
  PROVE  /\ told' \in [Dest -> Condition] /\ posted' \in [Dest -> Condition]
         /\ isStreaming' \in BOOLEAN /\ isRecording' \in BOOLEAN
         /\ recording' \in BOOLEAN /\ alive' \in BOOLEAN
         /\ ~isStreaming' => AllOff'
         /\ recording' => isRecording'
         /\ isStreaming' \/ isRecording' => alive' = UseVpAudio
<1>1. CASE isStreaming
  BY <1>1 DEF startStreaming, outputs, streamer, IInv, Types, KnownToRun, AllOff
<1>2. CASE ~isStreaming
  <2>1. PICK started \in SUBSET Dest, filed \in BOOLEAN :
          /\ told' = [d \in Dest |-> IF d \in started THEN "opening" ELSE told[d]]
          /\ posted' = [d \in Dest |-> IF d \in started THEN "opening" ELSE posted[d]]
          /\ recording' = (recording \/ filed)
          /\ isStreaming' = Streams(started)
          /\ isRecording' = (isRecording \/ filed)
          /\ alive' = UseVpAudio
    BY <1>2 DEF startStreaming
  <2>2. told' \in [Dest -> Condition] /\ posted' \in [Dest -> Condition]
    BY <2>1 DEF IInv, Types, Condition
  <2>3. ~isStreaming' => AllOff'
    BY <1>2, <2>1 DEF IInv, KnownToRun, AllOff, Streams
  <2>4. /\ isStreaming' \in BOOLEAN /\ isRecording' \in BOOLEAN
        /\ recording' \in BOOLEAN /\ alive' \in BOOLEAN
    BY <2>1, StreamerAssumption DEF IInv, Types, Streams
  <2>5. recording' => isRecording'
    BY <2>1 DEF IInv, Types, KnownToRun
  <2> QED  BY <2>1, <2>2, <2>3, <2>4, <2>5
<1> QED  BY <1>1, <1>2

-----------------------------------------------------------------------------

LEMMA InitInv == Init => IInv
<1> SUFFICES ASSUME Init PROVE IInv
  OBVIOUS
<1>1. Types
  <2>1. /\ told \in [Dest -> Condition] /\ posted \in [Dest -> Condition]
        /\ later \in [Delayed -> Nat]
    BY DEF Init, Condition
  <2>2. queue \in Seq(Block)
    BY DEF Init
  <2>3. requests \in 0..MaxRequests /\ pingTimers \in Nat
    BY StreamerAssumption DEF Init
  <2> QED  BY <2>1, <2>2, <2>3 DEF Init, Types
<1>2. KnownToRun
  BY DEF Init, KnownToRun, AllOff
<1> QED  BY <1>1, <1>2 DEF IInv

(* Only an output that is on signals: none comes to run by a signal.       *)
LEMMA SignalsKeep ==
  ASSUME IInv, NEW d \in Dest, OutputSignals(d)
  PROVE  IInv'
<1>1. told[d] # "off"
  BY DEF OutputSignals, Lifecycle!Started, Lifecycle!Reconnecting,
     Lifecycle!Reconnected
<1>2. PICK name \in DOMAIN Announced : Signals(d, name)
  BY DEF OutputSignals, Announced
<1>3. queue' \in Seq(Block)
  BY <1>2, SignalBlockType DEF Signals, IInv, Types
<1>4. told' \in [Dest -> Condition]
  BY <1>2, AnnouncedType DEF Signals, IInv, Types
<1>5. Types'
  BY <1>2, <1>3, <1>4 DEF Signals, IInv, Types, streamer, pings, history
<1>6. KnownToRun'
  BY <1>1, <1>2 DEF Signals, IInv, KnownToRun, AllOff, streamer
<1> QED  BY <1>5, <1>6 DEF IInv

LEMMA CallbacksKeep ==
  ASSUME IInv, ReceiveData \/ ShouldTerminate \/ Quit
  PROVE  IInv'
<1>1. CASE ReceiveData
  <2>1. later' \in [Delayed -> Nat]
    BY <1>1, AfterType DEF ReceiveData, IInv, Types, Delayed
  <2>2. Types'
    BY <1>1, <2>1 DEF ReceiveData, IInv, Types, streamer, pings, outputs, history
  <2>3. KnownToRun'
    BY <1>1 DEF ReceiveData, IInv, KnownToRun, AllOff, streamer, outputs
  <2> QED  BY <2>2, <2>3 DEF IInv
<1>2. CASE ShouldTerminate
  <2>1. later' \in [Delayed -> Nat] /\ requests' \in 0..MaxRequests
    BY <1>2, AfterType, StreamerAssumption DEF ShouldTerminate, IInv, Types, Delayed
  <2>2. stopStreaming(queue) /\ queue \in Seq(Block)
    BY <1>2 DEF ShouldTerminate, IInv, Types
  <2>3. Types'
    BY <1>2, <2>1, <2>2, StopTypes DEF ShouldTerminate, IInv, Types, pings, history
  <2>4. KnownToRun'
    BY <2>2, StopTypes DEF KnownToRun, AllOff
  <2> QED  BY <2>3, <2>4 DEF IInv
<1>3. CASE Quit
  <2>1. stopStreaming(queue) /\ queue \in Seq(Block)
    BY <1>3 DEF Quit, IInv, Types
  <2>2. Types'
    BY <1>3, <2>1, StopTypes DEF Quit, WillTerminate, IInv, Types, pings
  <2>3. KnownToRun'
    BY <2>1, StopTypes DEF KnownToRun, AllOff
  <2> QED  BY <2>2, <2>3 DEF IInv
<1> QED  BY <1>1, <1>2, <1>3

LEMMA DelaysKeep ==
  ASSUME IInv, NEW kind \in Delayed, DelayOver(kind)
  PROVE  IInv'
<1>1. later' \in [Delayed -> Nat]
  BY DEF DelayOver, IInv, Types
<1>2. queue' \in Seq(Block)
  BY DelayedBlockType DEF DelayOver, JoinsQueue, IInv, Types
<1>3. Types'
  BY <1>1, <1>2 DEF DelayOver, IInv, Types, streamer, pings, outputs, history
<1>4. KnownToRun'
  BY DEF DelayOver, IInv, KnownToRun, AllOff, streamer, outputs
<1> QED  BY <1>3, <1>4 DEF IInv

LEMMA BlocksKeep ==
  ASSUME IInv, RunBlock
  PROVE  IInv'
<1>1. queue # <<>> /\ ~didTerminate
  BY DEF RunBlock, RunStart, RunSignal, RunUnping, RunTerminate, Dequeue
<1>2. Tail(queue) \in Seq(Block) /\ Head(queue) \in Block
  BY <1>1 DEF IInv, Types
<1>3. CASE RunStart
  <2>1. Types'
    BY <1>2, <1>3, StartTypes DEF RunStart, IInv, Types, pings
  <2>2. KnownToRun'
    BY <1>1, <1>3, StartTypes DEF RunStart, KnownToRun
  <2> QED  BY <2>1, <2>2 DEF IInv
<1>4. CASE RunSignal
  <2> DEFINE d == Head(queue).dest
             name == Head(queue).name
  <2>1. d \in Dest /\ name \in DOMAIN Announced
    BY <1>2, <1>4 DEF RunSignal, Dequeue, Block, SignalBlocks, Delayed
  <2>2. posted' \in [Dest -> Condition]
    BY <1>4, <2>1, AnnouncedType DEF RunSignal, IInv, Types
  <2>3. later' \in [Delayed -> Nat]
    BY <1>4, AfterType DEF RunSignal, IInv, Types, Delayed
  <2>4. pingTimers' \in Nat /\ pingTracked' \in BOOLEAN /\ (pingTracked' => pingTimers' > 0)
    BY <1>4 DEF RunSignal, IInv, Types
  <2>5. Types'
    BY <1>2, <1>4, <2>2, <2>3, <2>4 DEF RunSignal, IInv, Types, streamer, outputs
  <2>6. KnownToRun'
    BY <1>4 DEF RunSignal, IInv, KnownToRun, AllOff, streamer, outputs
  <2> QED  BY <2>5, <2>6 DEF IInv
<1>5. CASE RunUnping
  <2>1. pingTimers' \in Nat
    BY <1>5 DEF RunUnping, IInv, Types
  <2>2. Types'
    BY <1>2, <1>5, <2>1 DEF RunUnping, IInv, Types, streamer, outputs, history
  <2>3. KnownToRun'
    BY <1>5 DEF RunUnping, IInv, KnownToRun, AllOff, streamer, outputs
  <2> QED  BY <2>2, <2>3 DEF IInv
<1>6. CASE RunTerminate
  <2>1. stopStreaming(Tail(queue))
    BY <1>6 DEF RunTerminate
  <2>2. Types'
    BY <1>2, <1>6, <2>1, StopTypes DEF RunTerminate, WillTerminate, IInv, Types, pings
  <2>3. KnownToRun'
    BY <1>2, <2>1, StopTypes DEF KnownToRun, AllOff
  <2> QED  BY <2>2, <2>3 DEF IInv
<1> QED  BY <1>3, <1>4, <1>5, <1>6 DEF RunBlock

LEMMA Inductive == IInv /\ [Next]_vars => IInv'
<1> SUFFICES ASSUME IInv, [Next]_vars PROVE IInv'
  OBVIOUS
<1>1. CASE \E d \in Dest : OutputSignals(d)
  BY <1>1, SignalsKeep
<1>2. CASE ReceiveData \/ ShouldTerminate \/ Quit
  BY <1>2, CallbacksKeep
<1>3. CASE \E kind \in Delayed : DelayOver(kind)
  BY <1>3, DelaysKeep
<1>4. CASE RunBlock
  BY <1>4, BlocksKeep
<1>5. CASE UNCHANGED vars
  <2>1. Types'
    BY <1>5 DEF vars, IInv, Types
  <2>2. KnownToRun'
    BY <1>5 DEF vars, IInv, KnownToRun, AllOff
  <2> QED  BY <2>1, <2>2 DEF IInv
<1> QED  BY <1>1, <1>2, <1>3, <1>4, <1>5 DEF Next

(* stopStreaming reaches whatever runs, for any number of destinations:    *)
(* an output or a recording that runs is covered by the flags it tests     *)
(* (VPObsStreamer.m:422), and nothing runs when the process has ended.     *)
THEOREM StopReaches == Spec => []StopReachesAll
<1>1. IInv => StopReachesAll
  <2> SUFFICES ASSUME IInv PROVE StopReachesAll
    OBVIOUS
  <2>1. \A i \in DOMAIN queue : queue[i] \in Block
    BY DEF IInv, Types
  <2>2. TypeOK
    BY <2>1 DEF IInv, Types, TypeOK, Block, SignalBlocks
  <2> QED  BY <2>2 DEF IInv, KnownToRun, AllOff, StopReachesAll
<1> QED  BY <1>1, InitInv, Inductive, PTL DEF Spec

-----------------------------------------------------------------------------
(* What the waiting blocks will tell the main app.                         *)

SignalFor(q, i, d) == q[i].kind = "signal" /\ q[i].dest = d

(* The signals an output may give next, by OutputLifecycle.                *)
Follows(condition, name) ==
  /\ name = "start" => condition = "opening"
  /\ name = "reconnect" => condition \in {"live", "retrying"}
  /\ name = "reconnect_success" => condition = "retrying"

(* The blocks of q for d, in their order, are signals an output may give   *)
(* one after the other on its way from one condition to another.           *)
Chain(q, d, from, to) ==
  /\ (\A i \in 1..Len(q) : ~SignalFor(q, i, d)) => from = to
  /\ \A i \in 1..Len(q) : SignalFor(q, i, d) =>
       /\ (\A k \in 1..(i - 1) : ~SignalFor(q, k, d)) => Follows(from, q[i].name)
       /\ (\A k \in (i + 1)..Len(q) : ~SignalFor(q, k, d)) => to = Announced[q[i].name]
       /\ \A j \in (i + 1)..Len(q) :
            SignalFor(q, j, d) /\ (\A k \in (i + 1)..(j - 1) : ~SignalFor(q, k, d))
              => Follows(Announced[q[i].name], q[j].name)

Chains == \A d \in Dest : Chain(queue, d, posted[d], told[d])

LEMMA ChainAppendOther ==
  ASSUME NEW q \in Seq(Block), NEW b \in Block, NEW d, NEW from, NEW to,
         Chain(q, d, from, to), ~(b.kind = "signal" /\ b.dest = d)
  PROVE  Chain(Append(q, b), d, from, to)
<1> DEFINE r == Append(q, b)
<1>1. /\ Len(r) = Len(q) + 1 /\ r[Len(q) + 1] = b /\ Len(q) \in Nat
      /\ \A i \in 1..Len(q) : r[i] = q[i]
  OBVIOUS
<1> HIDE DEF r
<1>2. /\ \A i \in 1..Len(q) : SignalFor(r, i, d) <=> SignalFor(q, i, d)
      /\ ~SignalFor(r, Len(q) + 1, d)
  BY <1>1 DEF SignalFor
<1>3. (\A i \in 1..Len(r) : ~SignalFor(r, i, d)) => from = to
  BY <1>1, <1>2 DEF Chain
<1>4. ASSUME NEW i \in 1..Len(r), SignalFor(r, i, d)
      PROVE  /\ i \in 1..Len(q) /\ SignalFor(q, i, d) /\ r[i] = q[i]
  BY <1>1, <1>2, <1>4
<1>5. ASSUME NEW i \in 1..Len(r), SignalFor(r, i, d), \A k \in 1..(i - 1) : ~SignalFor(r, k, d)
      PROVE  Follows(from, r[i].name)
  <2>1. \A k \in 1..(i - 1) : ~SignalFor(q, k, d)
    BY <1>1, <1>2, <1>4, <1>5
  <2> QED  BY <1>4, <1>5, <2>1 DEF Chain
<1>6. ASSUME NEW i \in 1..Len(r), SignalFor(r, i, d),
             \A k \in (i + 1)..Len(r) : ~SignalFor(r, k, d)
      PROVE  to = Announced[r[i].name]
  <2>1. \A k \in (i + 1)..Len(q) : ~SignalFor(q, k, d)
    BY <1>1, <1>2, <1>4, <1>6
  <2> QED  BY <1>4, <1>6, <2>1 DEF Chain
<1>7. ASSUME NEW i \in 1..Len(r), SignalFor(r, i, d), NEW j \in (i + 1)..Len(r),
             SignalFor(r, j, d), \A k \in (i + 1)..(j - 1) : ~SignalFor(r, k, d)
      PROVE  Follows(Announced[r[i].name], r[j].name)
  <2>1. /\ i \in 1..Len(q) /\ SignalFor(q, i, d) /\ r[i] = q[i]
        /\ j \in (i + 1)..Len(q) /\ SignalFor(q, j, d) /\ r[j] = q[j]
    BY <1>1, <1>4, <1>7
  <2>2. \A k \in (i + 1)..(j - 1) : ~SignalFor(q, k, d)
    BY <1>1, <1>2, <1>7, <2>1
  <2> QED  BY <2>1, <2>2 DEF Chain
<1> QED  BY <1>3, <1>5, <1>6, <1>7 DEF Chain, r

(* One more block for d, among others for other outputs: it is the last.   *)
LEMMA ChainJoined ==
  ASSUME NEW q \in Seq(Block), NEW r \in Seq(Block), NEW d, NEW from, NEW to,
         Chain(q, d, from, to),
         NEW p \in 1..Len(r), Len(q) < p,
         \A i \in 1..Len(q) : r[i] = q[i],
         \A i \in (Len(q) + 1)..Len(r) : SignalFor(r, i, d) <=> i = p,
         Follows(to, r[p].name)
  PROVE  Chain(r, d, from, Announced[r[p].name])
<1>1. \A i \in 1..Len(q) : SignalFor(r, i, d) <=> SignalFor(q, i, d)
  BY DEF SignalFor
<1>2. Len(q) \in Nat /\ Len(r) \in Nat /\ p \in (Len(q) + 1)..Len(r)
  OBVIOUS
<1>3. SignalFor(r, p, d)
  BY <1>2
<1>4. ASSUME NEW i \in 1..Len(r), SignalFor(r, i, d), i # p
      PROVE  i \in 1..Len(q) /\ SignalFor(q, i, d) /\ r[i] = q[i]
  <2>1. i \in 1..Len(q)
    BY <1>2, <1>4
  <2> QED  BY <1>1, <1>4, <2>1
<1>5. ASSUME NEW i \in 1..Len(r), SignalFor(r, i, d), \A k \in 1..(i - 1) : ~SignalFor(r, k, d)
      PROVE  Follows(from, r[i].name)
  <2>1. CASE i = p
    <3>1. \A k \in 1..Len(q) : ~SignalFor(q, k, d)
      BY <1>1, <1>2, <1>5, <2>1
    <3> QED  BY <2>1, <3>1 DEF Chain
  <2>2. CASE i # p
    <3>1. \A k \in 1..(i - 1) : ~SignalFor(q, k, d)
      BY <1>1, <1>2, <1>4, <1>5, <2>2
    <3> QED  BY <1>4, <1>5, <2>2, <3>1 DEF Chain
  <2> QED  BY <2>1, <2>2
<1>6. ASSUME NEW i \in 1..Len(r), SignalFor(r, i, d),
             \A k \in (i + 1)..Len(r) : ~SignalFor(r, k, d)
      PROVE  i = p
  <2>1. i < p => p \in (i + 1)..Len(r)
    BY <1>2
  <2>2. i # p => i < p
    BY <1>2, <1>4, <1>6
  <2> QED  BY <1>3, <1>6, <2>1, <2>2
<1>7. ASSUME NEW i \in 1..Len(r), SignalFor(r, i, d), NEW j \in (i + 1)..Len(r),
             SignalFor(r, j, d), \A k \in (i + 1)..(j - 1) : ~SignalFor(r, k, d)
      PROVE  Follows(Announced[r[i].name], r[j].name)
  <2>1. i \in 1..Len(q) /\ SignalFor(q, i, d) /\ r[i] = q[i]
    <3>1. i # p
      BY <1>2, <1>4, <1>7
    <3> QED  BY <1>4, <1>7, <3>1
  <2>2. CASE j = p
    <3>1. \A k \in (i + 1)..Len(q) : ~SignalFor(q, k, d)
      BY <1>1, <1>2, <1>7, <2>1, <2>2
    <3> QED  BY <2>1, <2>2, <3>1 DEF Chain
  <2>3. CASE j # p
    <3>1. j \in 1..Len(q) /\ SignalFor(q, j, d) /\ r[j] = q[j]
      BY <1>2, <1>4, <1>7, <2>1, <2>3
    <3>2. j \in (i + 1)..Len(q) /\ \A k \in (i + 1)..(j - 1) : ~SignalFor(q, k, d)
      BY <1>1, <1>2, <1>7, <2>1, <3>1
    <3> QED  BY <2>1, <3>1, <3>2 DEF Chain
  <2> QED  BY <2>2, <2>3
<1> QED  BY <1>3, <1>5, <1>6, <1>7 DEF Chain

(* The first block goes: what it tells is what the rest starts from.       *)
LEMMA ChainTail ==
  ASSUME NEW q \in Seq(Block), q # <<>>, NEW d, NEW from, NEW to, Chain(q, d, from, to)
  PROVE  Chain(Tail(q), d, IF SignalFor(q, 1, d) THEN Announced[q[1].name] ELSE from, to)
<1> DEFINE r == Tail(q)
           start == IF SignalFor(q, 1, d) THEN Announced[q[1].name] ELSE from
<1>1. /\ Len(q) \in Nat \ {0} /\ Len(r) = Len(q) - 1
      /\ \A i \in 1..Len(r) : r[i] = q[i + 1]
  OBVIOUS
<1> HIDE DEF r
<1>2. \A i \in 1..Len(r) : SignalFor(r, i, d) <=> SignalFor(q, i + 1, d)
  BY <1>1 DEF SignalFor
<1>3. (\A i \in 1..Len(r) : ~SignalFor(r, i, d)) => start = to
  <2> SUFFICES ASSUME \A i \in 1..Len(r) : ~SignalFor(r, i, d) PROVE start = to
    OBVIOUS
  <2>1. \A k \in 2..Len(q) : ~SignalFor(q, k, d)
    <3> TAKE k \in 2..Len(q)
    <3>1. k - 1 \in 1..Len(r) /\ (k - 1) + 1 = k
      BY <1>1
    <3> QED  BY <1>2, <3>1
  <2>2. CASE SignalFor(q, 1, d)
    BY <1>1, <2>1, <2>2 DEF Chain
  <2>3. CASE ~SignalFor(q, 1, d)
    <3>1. \A k \in 1..Len(q) : ~SignalFor(q, k, d)
      BY <1>1, <2>1, <2>3
    <3> QED  BY <2>3, <3>1 DEF Chain
  <2> QED  BY <2>2, <2>3
<1>4. ASSUME NEW i \in 1..Len(r), SignalFor(r, i, d)
      PROVE  /\ i + 1 \in 1..Len(q) /\ SignalFor(q, i + 1, d) /\ r[i] = q[i + 1]
             /\ i + 1 \in (1 + 1)..Len(q)
  BY <1>1, <1>2, <1>4
<1>5. ASSUME NEW i \in 1..Len(r), SignalFor(r, i, d), \A k \in 1..(i - 1) : ~SignalFor(r, k, d)
      PROVE  Follows(start, r[i].name)
  <2>1. \A k \in (1 + 1)..((i + 1) - 1) : ~SignalFor(q, k, d)
    <3> TAKE k \in (1 + 1)..((i + 1) - 1)
    <3>1. k - 1 \in 1..(i - 1) /\ k - 1 \in 1..Len(r) /\ (k - 1) + 1 = k
      BY <1>1
    <3> QED  BY <1>2, <1>5, <3>1
  <2>2. CASE SignalFor(q, 1, d)
    BY <1>1, <1>4, <1>5, <2>1, <2>2 DEF Chain
  <2>3. CASE ~SignalFor(q, 1, d)
    <3>1. \A k \in 1..((i + 1) - 1) : ~SignalFor(q, k, d)
      BY <1>1, <2>1, <2>3
    <3> QED  BY <1>4, <1>5, <2>3, <3>1 DEF Chain
  <2> QED  BY <2>2, <2>3
<1>6. ASSUME NEW i \in 1..Len(r), SignalFor(r, i, d),
             \A k \in (i + 1)..Len(r) : ~SignalFor(r, k, d)
      PROVE  to = Announced[r[i].name]
  <2>1. \A k \in ((i + 1) + 1)..Len(q) : ~SignalFor(q, k, d)
    <3> TAKE k \in ((i + 1) + 1)..Len(q)
    <3>1. k - 1 \in (i + 1)..Len(r) /\ k - 1 \in 1..Len(r) /\ (k - 1) + 1 = k
      BY <1>1
    <3> QED  BY <1>2, <1>6, <3>1
  <2> QED  BY <1>4, <1>6, <2>1 DEF Chain
<1>7. ASSUME NEW i \in 1..Len(r), SignalFor(r, i, d), NEW j \in (i + 1)..Len(r),
             SignalFor(r, j, d), \A k \in (i + 1)..(j - 1) : ~SignalFor(r, k, d)
      PROVE  Follows(Announced[r[i].name], r[j].name)
  <2>1. /\ j \in 1..Len(r) /\ j + 1 \in ((i + 1) + 1)..Len(q)
        /\ SignalFor(q, j + 1, d) /\ r[j] = q[j + 1]
    BY <1>1, <1>2, <1>7
  <2>2. \A k \in ((i + 1) + 1)..((j + 1) - 1) : ~SignalFor(q, k, d)
    <3> TAKE k \in ((i + 1) + 1)..((j + 1) - 1)
    <3>1. k - 1 \in (i + 1)..(j - 1) /\ k - 1 \in 1..Len(r) /\ (k - 1) + 1 = k
      BY <1>1, <2>1
    <3> QED  BY <1>2, <1>7, <3>1
  <2> QED  BY <1>4, <1>7, <2>1, <2>2 DEF Chain
<1> QED  BY <1>3, <1>5, <1>6, <1>7 DEF Chain, r

-----------------------------------------------------------------------------
(* The main thread gets to a start once, and before it nothing runs; what  *)
(* was asked to stop stays stopped unless that start comes after it.       *)

Waiting(kind) == \E i \in 1..Len(queue) : queue[i].kind = kind

StartsOnce ==
  /\ ~isPlaying => later["start"] = 0 /\ ~Waiting("start")
  /\ later["start"] <= 1
  /\ later["start"] = 1 => ~Waiting("start")
  /\ \A i, j \in 1..Len(queue) :
       queue[i].kind = "start" /\ queue[j].kind = "start" => i = j

MayStart == ~isPlaying \/ later["start"] > 0 \/ Waiting("start")

QuietBefore ==
  MayStart => /\ ~isStreaming /\ ~Waiting("signal")
              /\ \A d \in Dest : told[d] = "off" /\ posted[d] = "off"

(* Once a request was made the blocks that tell of the stop are ahead of   *)
(* the one that terminates.                                                *)
StopsAhead ==
  /\ later["terminate"] > 0 \/ Waiting("terminate") => requests > 0
  /\ requests > 0 /\ ~tardy => ~isStreaming
  /\ ~tardy => \A i, j \in 1..Len(queue) :
                 i < j /\ queue[i].kind = "terminate" => queue[j].kind # "signal"
  /\ byRequest => didTerminate

HInv == IInv /\ Chains /\ StartsOnce /\ QuietBefore /\ StopsAhead /\ StopsHeardBeforeExit

(* r is q with blocks of one kind behind it.                               *)
Longer(q, r, kind) ==
  /\ Len(r) >= Len(q)
  /\ \A i \in 1..Len(q) : r[i] = q[i]
  /\ \A i \in (Len(q) + 1)..Len(r) : r[i].kind = kind

LEMMA AppendLonger ==
  ASSUME NEW q \in Seq(Block), NEW b \in Block
  PROVE  Longer(q, Append(q, b), b.kind) /\ Len(Append(q, b)) = Len(q) + 1
  BY DEF Longer

LEMMA StopLonger ==
  ASSUME IInv, NEW waiting \in Seq(Block), stopStreaming(waiting)
  PROVE  /\ Longer(waiting, queue', "signal")
         /\ ~isStreaming => queue' = waiting
<1>1. CASE isStreaming
  <2> DEFINE stops == [i \in 1..numStreams |-> SignalBlock(i - 1, "stop")]
  <2>1. queue' = waiting \o stops
    BY <1>1 DEF stopStreaming
  <2>2. \A i \in 1..numStreams : SignalBlock(i - 1, "stop") \in Block
    <3> TAKE i \in 1..numStreams
    <3>1. i - 1 \in Dest
      BY StreamerAssumption DEF Dest
    <3> QED  BY <3>1, SignalBlockType DEF Announced
  <2>3. stops \in Seq(Block) /\ Len(stops) = numStreams
    BY <2>2, StreamerAssumption
  <2>4. \A i \in 1..numStreams : stops[i].kind = "signal"
    BY DEF SignalBlock
  <2> HIDE DEF stops
  <2> QED  BY <1>1, <2>1, <2>3, <2>4, StreamerAssumption DEF Longer
<1>2. CASE ~isStreaming
  BY <1>2 DEF stopStreaming, Longer
<1> QED  BY <1>1, <1>2

(* stopStreaming leaves one "stop" of each destination behind the others.  *)
LEMMA StopChain ==
  ASSUME IInv, NEW waiting \in Seq(Block), stopStreaming(waiting),
         NEW d \in Dest, NEW from, Chain(waiting, d, from, told[d])
  PROVE  Chain(queue', d, from, told'[d])
<1>1. CASE isStreaming
  <2> DEFINE stops == [i \in 1..numStreams |-> SignalBlock(i - 1, "stop")]
             p == Len(waiting) + d + 1
  <2>1. queue' = waiting \o stops /\ told'[d] = "off"
    BY <1>1 DEF stopStreaming
  <2>2. queue' \in Seq(Block)
    BY StopTypes
  <2>3. Len(stops) = numStreams /\ d \in 0..(numStreams - 1) /\ Len(waiting) \in Nat
    BY StreamerAssumption DEF Dest
  <2>4. /\ Len(queue') = Len(waiting) + numStreams /\ p \in 1..Len(queue') /\ Len(waiting) < p
        /\ \A i \in 1..Len(waiting) : queue'[i] = waiting[i]
        /\ \A i \in (Len(waiting) + 1)..Len(queue') :
             queue'[i] = SignalBlock(i - Len(waiting) - 1, "stop")
    BY <2>1, <2>3, StreamerAssumption
  <2>5. \A i \in (Len(waiting) + 1)..Len(queue') : SignalFor(queue', i, d) <=> i = p
    <3> TAKE i \in (Len(waiting) + 1)..Len(queue')
    <3>1. queue'[i] = SignalBlock(i - Len(waiting) - 1, "stop")
      BY <2>4
    <3>2. queue'[i].kind = "signal" /\ queue'[i].dest = i - Len(waiting) - 1
      BY <3>1 DEF SignalBlock
    <3> QED  BY <2>3, <2>4, <3>2 DEF SignalFor
  <2>6. queue'[p].name = "stop"
    <3>1. p \in (Len(waiting) + 1)..Len(queue')
      BY <2>3, <2>4
    <3>2. queue'[p] = SignalBlock(p - Len(waiting) - 1, "stop")
      BY <2>4, <3>1
    <3> QED  BY <3>2 DEF SignalBlock
  <2> HIDE DEF p
  <2>7. Follows(told[d], queue'[p].name) /\ Announced[queue'[p].name] = "off"
    BY <2>6 DEF Follows, Announced
  <2>8. Chain(queue', d, from, Announced[queue'[p].name])
    BY <2>2, <2>4, <2>5, <2>7, ChainJoined
  <2> QED  BY <2>1, <2>7, <2>8
<1>2. CASE ~isStreaming
  BY <1>2 DEF stopStreaming
<1> QED  BY <1>1, <1>2

LEMMA InitHInv == Init => HInv
<1> SUFFICES ASSUME Init PROVE HInv
  OBVIOUS
<1>1. queue = <<>> /\ Len(queue) = 0
  BY DEF Init
<1>2. Chains
  BY <1>1 DEF Init, Chains, Chain
<1>3. StartsOnce /\ QuietBefore /\ StopsAhead /\ StopsHeardBeforeExit
  BY <1>1 DEF Init, StartsOnce, QuietBefore, StopsAhead, StopsHeardBeforeExit, Waiting, Delayed
<1> QED  BY <1>2, <1>3, InitInv DEF HInv

LEMMA SignalsKeepHistory ==
  ASSUME HInv, NEW d \in Dest, OutputSignals(d)
  PROVE  HInv'
<1>1. told[d] # "off"
  BY DEF OutputSignals, Lifecycle!Started, Lifecycle!Reconnecting,
     Lifecycle!Reconnected
<1>2. PICK name \in DOMAIN Announced : Signals(d, name) /\ Follows(told[d], name)
  BY DEF OutputSignals, Announced, Follows, Lifecycle!Started, Lifecycle!Reconnecting,
     Lifecycle!Reconnected, Lifecycle!Stopped
<1> DEFINE b == SignalBlock(d, name)
<1>3. /\ b \in Block /\ b.kind = "signal" /\ b.dest = d /\ b.name = name
      /\ queue \in Seq(Block) /\ queue' = Append(queue, b)
  BY <1>2, SignalBlockType DEF SignalBlock, Signals, HInv, IInv, Types
<1>4. /\ Longer(queue, queue', "signal") /\ Len(queue') = Len(queue) + 1
      /\ queue'[Len(queue) + 1] = b /\ queue' \in Seq(Block)
  BY <1>3, AppendLonger
<1>5. ~MayStart /\ isStreaming
  BY <1>1 DEF HInv, QuietBefore, IInv, KnownToRun, AllOff
<1>6. requests > 0 => tardy
  BY <1>5 DEF HInv, StopsAhead
<1> HIDE DEF b
<1>7. IInv'
  BY SignalsKeep DEF HInv
<1>8. Chains'
  <2> SUFFICES ASSUME NEW e \in Dest PROVE Chain(queue', e, posted'[e], told'[e])
    BY DEF Chains
  <2>1. Chain(queue, e, posted[e], told[e]) /\ posted' = posted
    BY <1>2 DEF HInv, Chains, Signals
  <2>2. told' = [told EXCEPT ![d] = Announced[name]] /\ told \in [Dest -> Condition]
    BY <1>2 DEF HInv, IInv, Types, Signals
  <2>3. CASE e = d
    <3> DEFINE p == Len(queue) + 1
    <3>1. p \in 1..Len(queue') /\ Len(queue) < p /\ queue'[p] = b
      BY <1>3, <1>4
    <3>2. \A i \in (Len(queue) + 1)..Len(queue') : SignalFor(queue', i, d) <=> i = p
      BY <1>3, <1>4 DEF SignalFor
    <3>3. Follows(told[d], queue'[p].name)
      BY <1>2, <1>3, <3>1
    <3>4. \A i \in 1..Len(queue) : queue'[i] = queue[i]
      BY <1>4 DEF Longer
    <3> HIDE DEF p
    <3>5. Chain(queue', d, posted[d], Announced[queue'[p].name])
      BY <1>3, <1>4, <2>1, <2>3, <3>1, <3>2, <3>3, <3>4, ChainJoined
    <3> QED  BY <1>3, <2>1, <2>2, <2>3, <3>1, <3>5
  <2>4. CASE e # d
    BY <1>3, <2>1, <2>2, <2>4, ChainAppendOther
  <2> QED  BY <2>3, <2>4
<1>9. StartsOnce' /\ QuietBefore'
  <2>1. Waiting("start")' <=> Waiting("start")
    BY <1>3, <1>4 DEF Longer, Waiting
  <2>2. \A i \in 1..Len(queue') : queue'[i].kind = "start" => i \in 1..Len(queue)
    BY <1>3, <1>4 DEF Longer
  <2> QED  BY <1>2, <1>4, <1>5, <2>1, <2>2 DEF HInv, StartsOnce, QuietBefore, MayStart, Signals, Longer
<1>10. StopsAhead'
  <2>1. Waiting("terminate")' <=> Waiting("terminate")
    BY <1>3, <1>4 DEF Longer, Waiting
  <2> QED  BY <1>2, <1>4, <1>6, <2>1 DEF HInv, StopsAhead, Signals, Longer, streamer, history, Waiting
<1>11. StopsHeardBeforeExit'
  BY <1>2 DEF HInv, StopsHeardBeforeExit, Signals, history
<1> QED  BY <1>7, <1>8, <1>9, <1>10, <1>11 DEF HInv

LEMMA ReceiveKeepsHistory ==
  ASSUME HInv, ReceiveData
  PROVE  HInv'
<1>1. /\ queue' = queue /\ told' = told /\ posted' = posted /\ isStreaming' = isStreaming
      /\ requests' = requests /\ tardy' = tardy /\ byRequest' = byRequest
      /\ didTerminate' = didTerminate /\ ~isPlaying /\ isPlaying'
      /\ later \in [Delayed -> Nat] /\ later' = [later EXCEPT !["start"] = @ + 1]
  BY DEF ReceiveData, After, streamer, outputs, history, HInv, IInv, Types
<1>2. later'["start"] = later["start"] + 1 /\ later'["terminate"] = later["terminate"]
  BY <1>1 DEF Delayed
<1>3. later["start"] = 0 /\ \A i \in 1..Len(queue) : queue[i].kind # "start"
  BY <1>1 DEF HInv, StartsOnce, Waiting
<1>4. IInv' /\ Chains'
  BY <1>1, CallbacksKeep DEF HInv, Chains
<1>5. StartsOnce' /\ QuietBefore'
  BY <1>1, <1>2, <1>3 DEF HInv, StartsOnce, QuietBefore, MayStart, Waiting
<1>6. StopsAhead' /\ StopsHeardBeforeExit'
  BY <1>1, <1>2 DEF HInv, StopsAhead, StopsHeardBeforeExit, Waiting
<1> QED  BY <1>4, <1>5, <1>6 DEF HInv

(* A call of stopStreaming on the queue, or on what is left of it.         *)
LEMMA StopKeepsHistory ==
  ASSUME HInv, ~didTerminate, stopStreaming(queue), posted' = posted, isPlaying' = isPlaying,
         requests' \in Nat, requests' >= requests, tardy' = tardy, byRequest' = byRequest,
         \/ later' = later
         \/ later' = After("terminate") /\ requests' > 0
  PROVE  Chains' /\ StartsOnce' /\ QuietBefore' /\ StopsAhead' /\ StopsHeardBeforeExit'
<1>1. queue \in Seq(Block) /\ later \in [Delayed -> Nat] /\ requests \in Nat
  BY StreamerAssumption DEF HInv, IInv, Types
<1>2. /\ Longer(queue, queue', "signal") /\ queue' \in Seq(Block) /\ isStreaming' = FALSE
      /\ ~isStreaming => queue' = queue /\ told' = told
  BY <1>1, StopLonger, StopTypes DEF stopStreaming, HInv
<1>3. later'["start"] = later["start"]
  BY <1>1 DEF After, Delayed
<1>4. Len(queue) \in Nat /\ Len(queue') \in Nat
  BY <1>1, <1>2
<1>5. \A k \in {"start", "terminate"} : Waiting(k)' <=> Waiting(k)
  BY <1>2, <1>4 DEF Longer, Waiting
<1>6. Chains'
  BY <1>1, StopChain DEF HInv, Chains
<1>7. StartsOnce'
  <2>1. \A i \in 1..Len(queue') : queue'[i].kind = "start"
          => i \in 1..Len(queue) /\ queue[i].kind = "start"
    BY <1>2, <1>4 DEF Longer
  <2> QED  BY <1>3, <1>5, <2>1 DEF HInv, StartsOnce
<1>8. QuietBefore'
  BY <1>2, <1>3, <1>5 DEF HInv, QuietBefore, MayStart, Waiting
<1>9. StopsAhead'
  <2>1. later'["terminate"] > 0 \/ Waiting("terminate")' => requests' > 0
    BY <1>1, <1>5 DEF HInv, StopsAhead
  <2>2. ASSUME ~tardy, NEW i \in 1..Len(queue'), NEW j \in 1..Len(queue'),
               i < j, queue'[i].kind = "terminate"
        PROVE  queue'[j].kind # "signal"
    <3>1. i \in 1..Len(queue) /\ queue[i].kind = "terminate"
      BY <1>2, <1>4, <2>2 DEF Longer
    <3>2. ~isStreaming /\ queue' = queue
      BY <1>2, <2>2, <3>1 DEF HInv, StopsAhead, Waiting
    <3> QED  BY <2>2, <3>2 DEF HInv, StopsAhead
  <2>3. byRequest' => didTerminate'
    BY DEF HInv, StopsAhead
  <2> QED  BY <1>2, <2>1, <2>2, <2>3 DEF StopsAhead
<1>10. StopsHeardBeforeExit'
  BY DEF HInv, StopsHeardBeforeExit
<1> QED  BY <1>6, <1>7, <1>8, <1>9, <1>10

LEMMA StopsKeepHistory ==
  ASSUME HInv, ShouldTerminate \/ Quit
  PROVE  HInv'
<1>1. IInv' /\ requests \in Nat
  BY CallbacksKeep, StreamerAssumption DEF HInv, IInv, Types
<1>2. CASE ShouldTerminate
  BY <1>1, <1>2, StopKeepsHistory DEF ShouldTerminate, history, HInv
<1>3. CASE Quit
  BY <1>1, <1>3, StopKeepsHistory DEF Quit, WillTerminate, HInv
<1> QED  BY <1>2, <1>3

LEMMA DelaysKeepHistory ==
  ASSUME HInv, NEW kind \in Delayed, DelayOver(kind)
  PROVE  HInv'
<1> DEFINE b == [kind |-> kind]
<1>1. /\ told' = told /\ posted' = posted /\ isStreaming' = isStreaming
      /\ requests' = requests /\ tardy' = tardy /\ byRequest' = byRequest
      /\ didTerminate' = didTerminate /\ isPlaying' = isPlaying
      /\ later \in [Delayed -> Nat] /\ later[kind] > 0
      /\ later' = [later EXCEPT ![kind] = @ - 1]
  BY DEF DelayOver, streamer, outputs, history, HInv, IInv, Types
<1>2. queue \in Seq(Block) /\ b \in Block /\ b.kind = kind /\ queue' = Append(queue, b)
  BY DelayedBlockType DEF DelayOver, JoinsQueue, HInv, IInv, Types
<1>3. Longer(queue, queue', kind) /\ Len(queue') = Len(queue) + 1 /\ Len(queue) \in Nat
  BY <1>2, AppendLonger
<1> HIDE DEF b
<1>4. IInv'
  BY DelaysKeep DEF HInv
<1>5. Chains'
  BY <1>1, <1>2, ChainAppendOther DEF HInv, Chains, Delayed
<1>6. \A k \in {"start", "signal", "terminate"} : k # kind => (Waiting(k)' <=> Waiting(k))
  BY <1>3 DEF Longer, Waiting
<1>7. kind = "start" \/ later'["start"] = later["start"]
  BY <1>1 DEF Delayed
<1>8. kind = "start" => later["start"] = 1 /\ later'["start"] = 0 /\ isPlaying /\ ~Waiting("start")
  BY <1>1 DEF HInv, StartsOnce, Delayed
<1>9. StartsOnce'
  <2>1. \A i, j \in 1..Len(queue') :
          queue'[i].kind = "start" /\ queue'[j].kind = "start" => i = j
    BY <1>3, <1>8 DEF Longer, HInv, StartsOnce, Waiting
  <2> QED  BY <1>1, <1>6, <1>7, <1>8, <2>1 DEF HInv, StartsOnce
<1>10. QuietBefore'
  <2>1. MayStart' => MayStart
    BY <1>1, <1>6, <1>7, <1>8 DEF MayStart
  <2>2. Waiting("signal")' => Waiting("signal")
    BY <1>6 DEF Delayed
  <2> QED  BY <1>1, <2>1, <2>2 DEF HInv, QuietBefore
<1>11. StopsAhead'
  <2>1. later'["terminate"] > 0 \/ Waiting("terminate")' => requests' > 0
    BY <1>1, <1>6 DEF HInv, StopsAhead, Delayed
  <2>2. ~tardy => \A i, j \in 1..Len(queue') :
          i < j /\ queue'[i].kind = "terminate" => queue'[j].kind # "signal"
    BY <1>3 DEF Longer, HInv, StopsAhead, Delayed
  <2> QED  BY <1>1, <2>1, <2>2 DEF HInv, StopsAhead
<1>12. StopsHeardBeforeExit'
  BY <1>1 DEF HInv, StopsHeardBeforeExit
<1> QED  BY <1>4, <1>5, <1>9, <1>10, <1>11, <1>12 DEF HInv

(* The head of the main queue goes and nothing joins.                      *)
LEMMA TailKeeps ==
  ASSUME HInv, queue # <<>>
  PROVE  /\ Tail(queue) \in Seq(Block) /\ Len(queue) \in Nat \ {0}
         /\ Len(Tail(queue)) = Len(queue) - 1 /\ Head(queue) = queue[1]
         /\ \A i \in 1..Len(Tail(queue)) :
              Tail(queue)[i] = queue[i + 1] /\ i + 1 \in 1..Len(queue)
  BY DEF HInv, IInv, Types

LEMMA RunStartKeepsHistory ==
  ASSUME HInv, RunStart
  PROVE  HInv'
<1>1. /\ queue # <<>> /\ queue[1].kind = "start" /\ queue' = Tail(queue) /\ startStreaming
      /\ tardy' = (tardy \/ requests > 0) /\ isPlaying' = isPlaying /\ later' = later
      /\ didTerminate' = didTerminate /\ requests' = requests /\ byRequest' = byRequest
      /\ ~didTerminate
  BY DEF RunStart, Dequeue, HInv, IInv, Types
<1>2. Waiting("start") /\ MayStart
  BY <1>1, TailKeeps DEF Waiting, MayStart
<1>3. ~isStreaming /\ (\A d \in Dest : told[d] = "off" /\ posted[d] = "off")
  BY <1>2 DEF HInv, QuietBefore
<1>4. \A i \in 1..Len(queue') : queue'[i].kind \notin {"start", "signal"}
  <2> TAKE i \in 1..Len(queue')
  <2>1. queue'[i] = queue[i + 1] /\ i + 1 \in 1..Len(queue) /\ i + 1 # 1 /\ 1 \in 1..Len(queue)
    BY <1>1, TailKeeps
  <2>2. queue[i + 1].kind # "start"
    BY <1>1, <2>1 DEF HInv, StartsOnce
  <2>3. queue[i + 1].kind # "signal"
    BY <1>2, <2>1 DEF HInv, QuietBefore, Waiting
  <2> QED  BY <2>1, <2>2, <2>3
<1>5. IInv'
  BY BlocksKeep DEF RunBlock, HInv
<1>6. \A d \in Dest : told'[d] = posted'[d]
  <2>1. PICK started \in SUBSET Dest :
          /\ told' = [d \in Dest |-> IF d \in started THEN "opening" ELSE told[d]]
          /\ posted' = [d \in Dest |-> IF d \in started THEN "opening" ELSE posted[d]]
    BY <1>1, <1>3 DEF startStreaming
  <2> QED  BY <1>3, <2>1
<1>7. Chains'
  BY <1>4, <1>6 DEF Chains, Chain, SignalFor
<1>8. later["start"] = 0 /\ isPlaying
  BY <1>2 DEF HInv, StartsOnce, IInv, Types, Delayed
<1>9. StartsOnce' /\ QuietBefore'
  BY <1>1, <1>4, <1>8 DEF StartsOnce, QuietBefore, MayStart, Waiting
<1>10. StopsAhead' /\ StopsHeardBeforeExit'
  <2>1. Waiting("terminate")' => Waiting("terminate")
    BY <1>1, TailKeeps DEF Waiting
  <2>2. requests' > 0 /\ ~tardy' => FALSE
    BY <1>1
  <2>3. ~tardy' => \A i, j \in 1..Len(queue') :
          i < j /\ queue'[i].kind = "terminate" => queue'[j].kind # "signal"
    BY <1>4
  <2> QED  BY <1>1, <2>1, <2>2, <2>3 DEF HInv, StopsAhead, StopsHeardBeforeExit
<1> QED  BY <1>5, <1>7, <1>9, <1>10 DEF HInv

(* A block that is no start and leaves told alone: the chains go on.       *)
LEMMA BlockKeepsOrder ==
  ASSUME HInv, queue # <<>>, queue' = Tail(queue), isPlaying' = isPlaying,
         later' = later \/ later' = After("unping"),
         requests' = requests, tardy' = tardy, byRequest' = byRequest,
         didTerminate' = didTerminate, isStreaming' = isStreaming, told' = told
  PROVE  /\ StartsOnce' /\ StopsAhead'
         /\ Waiting("signal")' => Waiting("signal")
         /\ MayStart' => MayStart
<1>1. \A k \in {"start", "signal", "terminate"} : Waiting(k)' => Waiting(k)
  BY TailKeeps DEF Waiting
<1>2. later'["start"] = later["start"] /\ later'["terminate"] = later["terminate"]
  BY DEF After, HInv, IInv, Types, Delayed
<1>3. \A i \in 1..Len(queue') : queue'[i] = queue[i + 1] /\ i + 1 \in 1..Len(queue)
  BY TailKeeps
<1>4. \A i, j \in 1..Len(queue') : queue'[i].kind = "start" /\ queue'[j].kind = "start" => i = j
  <2> TAKE i, j \in 1..Len(queue')
  <2>1. queue[i + 1].kind = "start" /\ queue[j + 1].kind = "start" => i + 1 = j + 1
    BY <1>3 DEF HInv, StartsOnce
  <2> QED  BY <1>3, <2>1
<1>5. StartsOnce'
  BY <1>1, <1>2, <1>4 DEF HInv, StartsOnce
<1>6. ~tardy => \A i, j \in 1..Len(queue') :
        i < j /\ queue'[i].kind = "terminate" => queue'[j].kind # "signal"
  <2> SUFFICES ASSUME ~tardy, NEW i \in 1..Len(queue'), NEW j \in 1..Len(queue'), i < j
               PROVE  queue'[i].kind = "terminate" => queue'[j].kind # "signal"
    OBVIOUS
  <2>1. queue[i + 1].kind = "terminate" => queue[j + 1].kind # "signal"
    BY <1>3 DEF HInv, StopsAhead
  <2> QED  BY <1>3, <2>1
<1>7. StopsAhead'
  BY <1>1, <1>2, <1>6 DEF HInv, StopsAhead
<1> QED  BY <1>1, <1>2, <1>5, <1>7 DEF MayStart

LEMMA RunSignalKeepsHistory ==
  ASSUME HInv, RunSignal
  PROVE  HInv'
<1> DEFINE e == queue[1].dest
           name == queue[1].name
<1>0. RunSignal /\ Head(queue) = queue[1]
  BY TailKeeps DEF RunSignal, Dequeue
<1>1. /\ queue # <<>> /\ queue[1].kind = "signal" /\ queue' = Tail(queue) /\ ~didTerminate
      /\ posted' = [posted EXCEPT ![e] = Announced[name]] /\ told' = told
      /\ requests' = requests /\ tardy' = tardy /\ byRequest' = byRequest
      /\ didTerminate' = didTerminate /\ isStreaming' = isStreaming /\ isPlaying' = isPlaying
      /\ later' = later \/ later' = After("unping")
  BY <1>0 DEF RunSignal, Dequeue, streamer, outputs, HInv, IInv, Types
<1>2. e \in Dest /\ name \in DOMAIN Announced /\ posted \in [Dest -> Condition]
  BY <1>1, TailKeeps DEF HInv, IInv, Types, Block, SignalBlocks, Delayed
<1>3. IInv'
  BY BlocksKeep DEF RunBlock, HInv
<1>4. Chains'
  <2> SUFFICES ASSUME NEW d \in Dest PROVE Chain(queue', d, posted'[d], told'[d])
    BY DEF Chains
  <2>1. queue \in Seq(Block) /\ Chain(queue, d, posted[d], told[d])
    BY DEF HInv, IInv, Types, Chains
  <2>2. posted'[d] = IF SignalFor(queue, 1, d) THEN Announced[queue[1].name] ELSE posted[d]
    BY <1>1, <1>2 DEF SignalFor
  <2> QED  BY <1>1, <2>1, <2>2, ChainTail
<1>5. Waiting("signal") /\ ~MayStart
  BY <1>1, TailKeeps DEF Waiting, HInv, QuietBefore
<1>6. StartsOnce' /\ StopsAhead' /\ QuietBefore'
  BY <1>1, <1>5, BlockKeepsOrder DEF QuietBefore
<1>7. StopsHeardBeforeExit'
  BY <1>1 DEF HInv, StopsAhead, StopsHeardBeforeExit
<1> QED  BY <1>3, <1>4, <1>6, <1>7 DEF HInv

LEMMA RunUnpingKeepsHistory ==
  ASSUME HInv, RunUnping
  PROVE  HInv'
<1>1. /\ queue # <<>> /\ queue[1].kind = "unping" /\ queue' = Tail(queue)
      /\ posted' = posted /\ told' = told /\ later' = later
      /\ requests' = requests /\ tardy' = tardy /\ byRequest' = byRequest
      /\ didTerminate' = didTerminate /\ isStreaming' = isStreaming /\ isPlaying' = isPlaying
  BY DEF RunUnping, Dequeue, streamer, outputs, history, HInv, IInv, Types
<1>2. IInv'
  BY BlocksKeep DEF RunBlock, HInv
<1>3. Chains'
  BY <1>1, ChainTail DEF SignalFor, HInv, IInv, Types, Chains
<1>4. StartsOnce' /\ StopsAhead' /\ QuietBefore'
  BY <1>1, BlockKeepsOrder DEF HInv, QuietBefore
<1>5. StopsHeardBeforeExit'
  BY <1>1 DEF HInv, StopsHeardBeforeExit
<1> QED  BY <1>2, <1>3, <1>4, <1>5 DEF HInv

(* When the terminate block runs, no "stop" of a request is left behind it.*)
LEMMA RunTerminateKeepsHistory ==
  ASSUME HInv, RunTerminate
  PROVE  HInv'
<1> DEFINE q == Tail(queue)
<1>1. /\ queue # <<>> /\ queue[1].kind = "terminate" /\ stopStreaming(q)
      /\ posted' = posted /\ later' = later /\ requests' = requests /\ tardy' = tardy
      /\ isPlaying' = isPlaying /\ didTerminate' = TRUE /\ byRequest' = TRUE
  BY DEF RunTerminate, Dequeue, WillTerminate, HInv, IInv, Types
<1>2. /\ q \in Seq(Block) /\ Len(queue) \in Nat \ {0} /\ Len(q) = Len(queue) - 1
      /\ \A i \in 1..Len(q) : q[i] = queue[i + 1] /\ i + 1 \in 1..Len(queue)
  BY <1>1, TailKeeps
<1> HIDE DEF q
<1>3. Longer(q, queue', "signal") /\ (~isStreaming => queue' = q /\ told' = told)
  BY <1>1, <1>2, StopLonger DEF HInv, stopStreaming
<1>4. IInv' /\ queue' \in Seq(Block) /\ isStreaming' = FALSE
  BY <1>1, <1>2, BlocksKeep, StopTypes DEF RunBlock, HInv
<1>5. Chains'
  <2> SUFFICES ASSUME NEW d \in Dest PROVE Chain(queue', d, posted[d], told'[d])
    BY <1>1 DEF Chains
  <2>1. Chain(queue, d, posted[d], told[d]) /\ queue \in Seq(Block)
    BY DEF HInv, IInv, Types, Chains
  <2>2. Chain(q, d, posted[d], told[d])
    BY <1>1, <2>1, ChainTail DEF SignalFor, q
  <2> QED  BY <1>1, <1>2, <2>2, StopChain DEF HInv
<1>6. \A i \in 1..Len(queue') : queue'[i].kind # "signal"
        => i \in 1..Len(q) /\ queue'[i] = queue[i + 1] /\ i + 1 \in 1..Len(queue)
  BY <1>2, <1>3, <1>4 DEF Longer
<1>7. StartsOnce'
  <2>1. Waiting("start")' => Waiting("start")
    BY <1>6 DEF Waiting
  <2>2. ASSUME NEW i \in 1..Len(queue'), NEW j \in 1..Len(queue'),
               queue'[i].kind = "start", queue'[j].kind = "start"
        PROVE  i = j
    <3>1. i + 1 = j + 1
      BY <1>6, <2>2 DEF HInv, StartsOnce
    <3> QED  BY <3>1
  <2> QED  BY <1>1, <2>1, <2>2 DEF HInv, StartsOnce
<1>8. QuietBefore'
  <2>1. MayStart' => MayStart
    BY <1>1, <1>6 DEF MayStart, Waiting
  <2>2. MayStart => queue' = q /\ told' = told /\ ~Waiting("signal")
    BY <1>3 DEF HInv, QuietBefore
  <2>3. queue' = q /\ ~Waiting("signal") => ~Waiting("signal")'
    BY <1>2 DEF Waiting
  <2> QED  BY <1>1, <1>4, <2>1, <2>2, <2>3 DEF HInv, QuietBefore
<1>9. ~tardy => ~isStreaming /\ \A i \in 1..Len(q) : q[i].kind # "signal"
  <2> SUFFICES ASSUME ~tardy
               PROVE  ~isStreaming /\ \A i \in 1..Len(q) : q[i].kind # "signal"
    OBVIOUS
  <2>1. 1 \in 1..Len(queue) /\ Waiting("terminate")
    BY <1>1, <1>2 DEF Waiting
  <2>2. ~isStreaming
    BY <2>1 DEF HInv, StopsAhead
  <2>3. \A i \in 1..Len(q) : q[i].kind # "signal"
    <3> TAKE i \in 1..Len(q)
    <3>1. 1 < i + 1 /\ q[i] = queue[i + 1] /\ i + 1 \in 1..Len(queue)
      BY <1>2
    <3> QED  BY <1>1, <2>1, <3>1 DEF HInv, StopsAhead
  <2> QED  BY <2>2, <2>3
<1>10. StopsAhead'
  <2>1. Waiting("terminate")' => Waiting("terminate")
    BY <1>6 DEF Waiting
  <2>2. ~tardy' => \A i, j \in 1..Len(queue') :
          i < j /\ queue'[i].kind = "terminate" => queue'[j].kind # "signal"
    BY <1>1, <1>3, <1>9
  <2> QED  BY <1>1, <1>4, <2>1, <2>2 DEF HInv, StopsAhead
<1>11. StopsHeardBeforeExit'
  <2> SUFFICES ASSUME ~tardy, NEW d \in Dest PROVE posted[d] = "off"
    BY <1>1 DEF StopsHeardBeforeExit
  <2>1. \A i \in 1..Len(queue') : ~SignalFor(queue', i, d)
    BY <1>3, <1>9 DEF SignalFor
  <2>2. posted[d] = told'[d]
    BY <1>1, <1>5, <2>1 DEF Chains, Chain
  <2>3. told'[d] = "off"
    BY <1>1, <1>2, StopTypes DEF HInv
  <2> QED  BY <2>2, <2>3
<1> QED  BY <1>4, <1>5, <1>7, <1>8, <1>10, <1>11 DEF HInv

LEMMA HistoryInductive == HInv /\ [Next]_vars => HInv'
<1> SUFFICES ASSUME HInv, [Next]_vars PROVE HInv'
  OBVIOUS
<1>1. CASE \E d \in Dest : OutputSignals(d)
  BY <1>1, SignalsKeepHistory
<1>2. CASE ReceiveData \/ ShouldTerminate \/ Quit
  BY <1>2, ReceiveKeepsHistory, StopsKeepHistory
<1>3. CASE \E kind \in Delayed : DelayOver(kind)
  BY <1>3, DelaysKeepHistory
<1>4. CASE RunBlock
  BY <1>4, RunStartKeepsHistory, RunSignalKeepsHistory, RunUnpingKeepsHistory,
     RunTerminateKeepsHistory DEF RunBlock
<1>5. CASE UNCHANGED vars
  <2>1. IInv'
    BY <1>5, Inductive DEF HInv
  <2>2. Chains' /\ StartsOnce' /\ QuietBefore' /\ StopsAhead' /\ StopsHeardBeforeExit'
    BY <1>5 DEF vars, HInv, Chains, StartsOnce, QuietBefore, StopsAhead, MayStart, Waiting,
       StopsHeardBeforeExit
  <2> QED  BY <2>1, <2>2 DEF HInv
<1> QED  BY <1>1, <1>2, <1>3, <1>4, <1>5 DEF Next

(* The block that terminates 10 ms after a request (VPEncodingHelperApp-   *)
(* Delegate.m:337) is behind the blocks that tell of the stop, for any     *)
(* number of destinations, unless the delayed start ran in between.        *)
THEOREM StopsHeard == Spec => []StopsHeardBeforeExit
<1>1. HInv => StopsHeardBeforeExit
  BY DEF HInv
<1> QED  BY <1>1, InitHInv, HistoryInductive, PTL DEF Spec

(* What the main app is told of each destination is a path through the     *)
(* conditions of OutputLifecycle, whatever is still waiting to be told.    *)
THEOREM ViewFollowsLifecycle == Spec => ViewIsLifecycle
<1>1. HInv /\ [Next]_vars
        => [\A d \in Dest : View(d)!Next \/ UNCHANGED posted[d]]_posted
  <2> SUFFICES ASSUME HInv, [Next]_vars, posted' # posted, NEW d \in Dest
               PROVE  View(d)!Next \/ UNCHANGED posted[d]
    OBVIOUS
  <2>1. RunStart \/ RunSignal
    BY DEF Next, vars, OutputSignals, Signals, ReceiveData, ShouldTerminate, Quit,
       WillTerminate, DelayOver, RunBlock, RunUnping, RunTerminate
  <2>2. CASE RunStart
    <3>1. startStreaming /\ Waiting("start")
      BY <2>2, TailKeeps DEF RunStart, Dequeue, Waiting
    <3>2. ~isStreaming /\ posted[d] = "off"
      BY <3>1 DEF HInv, QuietBefore, MayStart
    <3>3. posted'[d] = "opening" \/ posted'[d] = posted[d]
      BY <3>1, <3>2 DEF startStreaming
    <3> QED  BY <3>2, <3>3 DEF View!Next, View!Open
  <2>3. CASE RunSignal
    <3>0. Head(queue) = queue[1]
      BY <2>3, TailKeeps DEF RunSignal, Dequeue
    <3>1. /\ queue # <<>> /\ queue[1].kind = "signal" /\ posted \in [Dest -> Condition]
          /\ posted' = [posted EXCEPT ![queue[1].dest] = Announced[queue[1].name]]
      BY <2>3, <3>0 DEF RunSignal, Dequeue, HInv, IInv, Types
    <3>2. /\ 1 \in 1..Len(queue) /\ queue[1].dest \in Dest
          /\ queue[1].name \in DOMAIN Announced
      BY <3>1, TailKeeps DEF HInv, IInv, Types, Block, SignalBlocks, Delayed
    <3>3. CASE queue[1].dest = d
      <4>1. SignalFor(queue, 1, d) /\ Chain(queue, d, posted[d], told[d])
        BY <3>1, <3>3 DEF SignalFor, HInv, Chains
      <4>2. Follows(posted[d], queue[1].name)
        BY <3>2, <4>1 DEF Chain
      <4>3. posted'[d] = Announced[queue[1].name]
        BY <3>1, <3>3
      <4> QED  BY <3>2, <4>2, <4>3 DEF Follows, Announced, View!Next, View!Started,
                  View!Reconnecting, View!Reconnected, View!Stopped
    <3>4. CASE queue[1].dest # d
      BY <3>1, <3>4
    <3> QED  BY <3>3, <3>4
  <2> QED  BY <2>1, <2>2, <2>3
<1> QED  BY <1>1, InitHInv, HistoryInductive, PTL DEF Spec, ViewIsLifecycle
=============================================================================
