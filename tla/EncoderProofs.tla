---------------------------- MODULE EncoderProofs ----------------------------
(***************************************************************************)
(* For any number of outputs and captures, and whichever encodings fail:   *)
(* no packet after a stop, no codec destroyed in use unless its encoding   *)
(* failed, and every capture is fed.                                       *)
(***************************************************************************)
EXTENDS MCEncoder, SequenceTheorems, TLAPS

(* The calls in which a thread holds init_mutex of e.                      *)
Holding(e) ==
  {<<"push", e>>, <<"connect", e>>, <<"erase", e>>, <<"disconnect", e>>}

Call ==
  {"idle", "initialize", "pair", "start", "push", "connect", "capturing", "stop", "erase",
   "disconnect"}

Place ==
  {"wait", "received", "buffered", "encode", "packet", "deliver", "full_stop", "shutdown"}

(* The thread is past the push of its callback of e, and before its erase. *)
Pushed(e) ==
  {<<"capturing", "video">>, <<"connect", "video">>, <<"stop", "video">>, <<"erase", "video">>}
    \cup IF e = "video" THEN {}
         ELSE {<<"connect", "audio">>, <<"start", "video">>, <<"push", "video">>,
               <<"disconnect", "video">>, <<"stop", "audio">>, <<"erase", "audio">>}

Types ==
  /\ TypeOK
  /\ pc \in [Output -> Call \X Enc] /\ at \in [Enc -> Place \X Nat]
  /\ \A o \in Output : pc[o][1] \in {"idle", "pair", "capturing"} => pc[o][2] = "video"

(* Who holds the mutexes.                                                  *)
Owners ==
  /\ \A o \in Output, e \in Enc : pc[o] \in Holding(e) <=> init[e] = o
  /\ \A e \in Enc :
       /\ init[e] \in Output \cup {Free}
       /\ cb[e] = IF at[e][1] \in {"deliver", "shutdown"} THEN e ELSE Free
       /\ input[e] = IF at[e][1] = "wait" THEN Free ELSE e

(* A connected encoder is active, and an active one has a codec; a thread  *)
(* that encodes does so with an active one unless it failed.  One that     *)
(* failed has lost its codec for good, because it stays initialized, and   *)
(* only the audio thread may still be in the loop in which it failed.      *)
Codec(e) ==
  /\ enc[e].connected => enc[e].active
  /\ enc[e].active => enc[e].data
  /\ enc[e].initialized /\ e \notin failed => enc[e].data
  /\ at[e][1] # "wait" /\ e \notin failed => enc[e].active
  /\ at[e][1] \in {"full_stop", "shutdown"} => enc[e].active /\ e \in failed
  /\ init[e] \in Output /\ pc[init[e]][1] \in {"push", "connect"} => enc[e].data
  /\ enc[e].data => enc[e].initialized
  /\ e \in failed =>
       /\ enc[e].initialized
       /\ at[e][1] \notin {"full_stop", "shutdown"} => ~enc[e].data
       /\ at[e][1] # "received"
       /\ e = "video" => at[e][1] \in {"wait", "full_stop", "shutdown"}

(* How the connection follows the callbacks, while nobody changes either   *)
(* and in the middle of a change.                                          *)
Changing(e) == IF init[e] = Free THEN "no" ELSE pc[init[e]][1]

Connection(e) ==
  /\ at[e][1] = "shutdown" => ~enc[e].connected /\ enc[e].callbacks = <<>>
  /\ Changing(e) = "connect" => enc[e].callbacks # <<>> /\ ~enc[e].active
  /\ Changing(e) = "disconnect" => enc[e].callbacks = <<>> /\ enc[e].active
  /\ at[e][1] # "shutdown" /\ Changing(e) \notin {"connect", "disconnect"} =>
       /\ enc[e].active <=> enc[e].callbacks # <<>>
       /\ enc[e].connected <=> enc[e].active

(* Who is in the callbacks: only outputs that are between their push and   *)
(* their erase, and all of those that were not undercut.                   *)
Member(e) ==
  /\ \A o \in Output : Contains(enc[e].callbacks, o) => pc[o] \in Pushed(e)
  /\ at[e][1] = "deliver" => at[e][2] <= Len(enc[e].callbacks)
  /\ e \notin failed => \A o \in Output \ undercut :
       /\ o \in Between(e) => enc[e].data
       /\ pc[o] \in Pushed(e) => Contains(enc[e].callbacks, o)

Codecs == \A e \in Enc : Codec(e)
Connections == \A e \in Enc : Connection(e)
Members == \A e \in Enc : Member(e)

IInv == Types /\ Owners /\ Codecs /\ Connections /\ Members


-----------------------------------------------------------------------------
(* The callbacks: what push_back and da_erase do to who is in them.        *)

LEMMA PushAdds ==
  ASSUME NEW s \in Seq(Output), NEW o \in Output, IsInjective(s), ~Contains(s, o)
  PROVE  /\ Append(s, o) \in Seq(Output) /\ IsInjective(Append(s, o))
         /\ Append(s, o) # <<>> /\ Len(Append(s, o)) > Len(s)
         /\ \A x \in Output : Contains(Append(s, o), x) <=> Contains(s, x) \/ x = o
<1>1. /\ Append(s, o) \in Seq(Output) /\ Len(Append(s, o)) = Len(s) + 1 /\ Len(s) \in Nat
      /\ \A i \in 1..Len(s) : Append(s, o)[i] = s[i]
      /\ Append(s, o)[Len(s) + 1] = o
      /\ DOMAIN s = 1..Len(s) /\ DOMAIN Append(s, o) = 1..Len(s) + 1
  OBVIOUS
<1>2. IsInjective(Append(s, o))
  BY <1>1 DEF IsInjective, Contains
<1>3. \A x \in Output : Contains(Append(s, o), x) <=> Contains(s, x) \/ x = o
  BY <1>1 DEF Contains
<1> QED  BY <1>1, <1>2, <1>3

LEMMA EraseTakes ==
  ASSUME NEW s \in Seq(Output), NEW o \in Output, IsInjective(s)
  PROVE  /\ Erased(s, o) \in Seq(Output) /\ IsInjective(Erased(s, o))
         /\ Erased(s, o) = <<>> <=> s = <<>> \/ s = <<o>>
         /\ \A x \in Output : Contains(Erased(s, o), x) <=> Contains(s, x) /\ x # o
<1>1. CASE ~Contains(s, o)
  <2>1. Len(<<o>>) = 1 /\ <<o>>[1] = o
    OBVIOUS
  <2>2. s = <<o>> => 1 \in 1..Len(s) /\ s[1] = o
    BY <2>1
  <2>3. s # <<o>>
    BY <1>1, <2>2 DEF Contains
  <2> QED  BY <1>1, <2>3 DEF Erased
<1>2. CASE Contains(s, o)
  <2> DEFINE k == CallbackIdx(s, o)
             n == Len(s)
             t == Erased(s, o)
  <2>1. k \in 1..n /\ s[k] = o /\ n \in Nat
    BY <1>2 DEF Contains, CallbackIdx
  <2>2. /\ SubSeq(s, 1, k - 1) \in Seq(Output) /\ Len(SubSeq(s, 1, k - 1)) = k - 1
        /\ \A i \in 1..k - 1 : SubSeq(s, 1, k - 1)[i] = s[i]
    BY <2>1, SubSeqProperties
  <2>3. /\ SubSeq(s, k + 1, n) \in Seq(Output) /\ Len(SubSeq(s, k + 1, n)) = n - k
        /\ \A i \in 1..n - k : SubSeq(s, k + 1, n)[i] = s[k + i]
    BY <2>1, SubSeqProperties
  <2>4. t = SubSeq(s, 1, k - 1) \o SubSeq(s, k + 1, n)
    BY <1>2 DEF Erased, RemoveAt
  <2> HIDE DEF k, n, t
  <2>5. /\ t \in Seq(Output) /\ Len(t) = n - 1
        /\ \A i \in 1..n - 1 : t[i] = IF i < k THEN s[i] ELSE s[i + 1]
    <3>1. /\ t \in Seq(Output) /\ Len(t) = (k - 1) + (n - k)
          /\ \A i \in 1..(k - 1) + (n - k) :
               t[i] = IF i <= k - 1 THEN SubSeq(s, 1, k - 1)[i]
                      ELSE SubSeq(s, k + 1, n)[i - (k - 1)]
      BY <2>2, <2>3, <2>4, ConcatProperties, SMTT(30)
    <3> QED  BY <2>1, <2>2, <2>3, <3>1
  <2>6. DOMAIN t = 1..n - 1 /\ DOMAIN s = 1..n /\ Len(s) = n
    BY <2>5 DEF n
  <2>7. \A i, j \in 1..n : s[i] = s[j] => i = j
    BY <2>6 DEF IsInjective
  <2>8. IsInjective(t)
    BY <2>1, <2>5, <2>6, <2>7 DEF IsInjective
  <2>9. \A x \in Output : Contains(t, x) <=> Contains(s, x) /\ x # o
    <3> TAKE x \in Output
    <3>1. ASSUME Contains(t, x) PROVE Contains(s, x) /\ x # o
      BY <2>1, <2>5, <2>6, <2>7, <3>1 DEF Contains
    <3>2. ASSUME Contains(s, x), x # o PROVE Contains(t, x)
      <4>1. PICK i \in 1..n : s[i] = x
        BY <2>6, <3>2 DEF Contains
      <4>2. CASE i < k
        BY <2>1, <2>5, <4>1, <4>2 DEF Contains
      <4>3. CASE i > k
        <5>1. i - 1 \in 1..n - 1 /\ ~(i - 1 < k) /\ (i - 1) + 1 = i
          BY <2>1, <4>1, <4>3
        <5>2. t[i - 1] = x
          BY <2>5, <4>1, <5>1
        <5> QED  BY <2>5, <5>1, <5>2 DEF Contains
      <4> QED  BY <2>1, <3>2, <4>1, <4>2, <4>3
    <3> QED  BY <3>1, <3>2
  <2>10. t = <<>> <=> s = <<o>>
    <3>1. t = <<>> <=> n = 1
      BY <2>1, <2>5
    <3>2. n = 1 => s = <<o>>
      BY <2>1, <2>6
    <3>3. s = <<o>> => n = 1
      BY <2>6
    <3> QED  BY <3>1, <3>2, <3>3
  <2>11. s # <<>>
    BY <2>1, <2>6
  <2> QED  BY <2>5, <2>8, <2>9, <2>10, <2>11 DEF t
<1> QED  BY <1>1, <1>2

(* Which call follows which.                                               *)
LEMMA Followers ==
  /\ Follower(<<"initialize", "video">>) = <<"initialize", "audio">>
  /\ Follower(<<"initialize", "audio">>) = <<"pair", "video">>
  /\ Follower(<<"pair", "video">>) = <<"start", "audio">>
  /\ Follower(<<"start", "audio">>) = <<"start", "video">>
  /\ Follower(<<"start", "video">>) = <<"capturing", "video">>
  /\ Follower(<<"capturing", "video">>) = <<"stop", "video">>
  /\ Follower(<<"stop", "video">>) = <<"stop", "audio">>
  /\ Follower(<<"stop", "audio">>) = <<"idle", "video">>
<1>1. /\ Len(Calls) - 1 = 8
      /\ Calls[1] = <<"initialize", "video">> /\ Calls[2] = <<"initialize", "audio">>
      /\ Calls[3] = <<"pair", "video">> /\ Calls[4] = <<"start", "audio">>
      /\ Calls[5] = <<"start", "video">> /\ Calls[6] = <<"capturing", "video">>
      /\ Calls[7] = <<"stop", "video">> /\ Calls[8] = <<"stop", "audio">>
      /\ Calls[9] = <<"idle", "video">>
  BY DEF Calls
<1>2. \A i, k \in 1..8 : Calls[i] = Calls[k] => i = k
  BY <1>1
<1>3. ASSUME NEW k \in 1..8 PROVE Follower(Calls[k]) = Calls[k + 1]
  <2>1. \A i \in 1..Len(Calls) - 1 : Calls[i] = Calls[k] => i = k
    BY <1>1, <1>2
  <2>2. k \in 1..Len(Calls) - 1
    BY <1>1
  <2>3. (CHOOSE i \in 1..Len(Calls) - 1 : Calls[i] = Calls[k]) = k
    BY <2>1, <2>2
  <2>4. 1 + k = k + 1
    OBVIOUS
  <2> QED  BY <2>3, <2>4 DEF Follower
<1> QED  BY <1>1, <1>3


-----------------------------------------------------------------------------

(* Where a thread is when it has initialized e and not yet started it.     *)
Awaits(e) ==
  {<<"pair", "video">>, <<"start", e>>}
    \cup IF e = "video" THEN {<<"initialize", "audio">>, <<"start", "audio">>,
                              <<"push", "audio">>, <<"connect", "audio">>} ELSE {}

LEMMA FieldSet ==
  ASSUME NEW r \in Fields, NEW b \in BOOLEAN
  PROVE  /\ [r EXCEPT !.data = b] \in Fields /\ [r EXCEPT !.initialized = b] \in Fields
         /\ [r EXCEPT !.active = b] \in Fields /\ [r EXCEPT !.connected = b] \in Fields
         /\ [r EXCEPT !.paired = b] \in Fields /\ [r EXCEPT !.started = b] \in Fields
         /\ [r EXCEPT !.firstReceived = b] \in Fields
         /\ \A s \in Seq(Output) : [r EXCEPT !.callbacks = s] \in Fields
BY DEF Fields

LEMMA ShutdownsLeave ==
  ASSUME NEW r \in Fields
  PROVE  /\ Unconnected(r) \in Fields /\ ~Unconnected(r).active /\ ~Unconnected(r).connected
         /\ Unconnected(r).callbacks = r.callbacks
         /\ Unconnected(r).initialized = r.initialized /\ ~Unconnected(r).data
         /\ Stopped(r) \in Fields /\ ~Stopped(r).active /\ ~Stopped(r).connected
         /\ Stopped(r).callbacks = r.callbacks /\ ~Stopped(r).initialized /\ ~Stopped(r).data
BY DEF Stopped, Unconnected, Shutdown, Fields

LEMMA InitializedHas ==
  ASSUME NEW r \in Fields
  PROVE  /\ Initialized(r) \in Fields
         /\ Initialized(r).active = r.active /\ Initialized(r).connected = r.connected
         /\ Initialized(r).callbacks = r.callbacks
         /\ r.data \/ (~r.active /\ ~r.initialized) => Initialized(r).data
         /\ Initialized(r).initialized => r.initialized \/ Initialized(r).data
         /\ (r.data => r.initialized) => (Initialized(r).data => Initialized(r).initialized)
         /\ r.initialized => Initialized(r) = r
BY DEF Initialized, Shutdown, Fields

LEMMA InitInv == Init => IInv
<1> SUFFICES ASSUME Init PROVE IInv
  OBVIOUS
<1> USE EncoderConstants DEF Init
<1>1. Types
  <2>1. <<>> \in Seq(Output) /\ IsInjective(<<>>)
    BY DEF IsInjective
  <2>2. TypeOK
    BY <2>1 DEF TypeOK, Fields
  <2>3. <<"idle", "video">> \in Call \X Enc /\ <<"idle", "video">>[2] = "video"
        /\ <<"wait", 0>> \in Place \X Nat
    BY DEF Call, Place, Enc
  <2> QED  BY <2>2, <2>3 DEF Types
<1>2. Owners
  BY DEF Owners, Holding
<1>3. Codecs /\ Connections
  BY DEF Codecs, Connections, Codec, Connection, Changing
<1>4. Members
  BY DEF Members, Member, Pushed, Between, Contains
<1> QED  BY <1>1, <1>2, <1>3, <1>4 DEF IInv

LEMMA ReceiveKeeps ==
  ASSUME IInv, NEW e \in Enc, Receive(e)
  PROVE  IInv'
<1> USE EncoderConstants DEF Receive, Be
<1> USE DEF IInv, Types, TypeOK, Place
<1>1. Types'
  <2>1. enc' \in [Enc -> Fields]
    BY FieldSet
  <2>2. \A x \in Enc : enc'[x].callbacks = enc[x].callbacks
    BY DEF Fields
  <2> QED  BY <2>1, <2>2
<1>2. Owners'
  BY DEF Owners
<1>3. Codecs'
  BY DEF Fields, Owners, Codecs, Codec
<1>4. Connections'
  BY DEF Fields, Owners, Connections, Connection, Changing
<1>5. Members'
  BY DEF Fields, Members, Member, Between
<1> QED  BY <1>1, <1>2, <1>3, <1>4, <1>5 DEF IInv


LEMMA WaitForOtherKeeps ==
  ASSUME IInv, NEW e \in Enc, WaitForOther(e)
  PROVE  IInv'
<1> USE EncoderConstants DEF WaitForOther, Leave, Be, locks, IInv, Types, TypeOK, Place
<1>1. Types'
  OBVIOUS
<1>2. Owners'
  BY DEF Owners
<1>3. Codecs'
  BY DEF Fields, Owners, Codecs, Codec
<1>4. Connections'
  BY DEF Fields, Owners, Codecs, Codec, Connections, Connection, Changing
<1>5. Members'
  BY DEF Fields, Owners, Codecs, Codec, Connections, Connection, Changing, Members, Member, Between
<1> QED  BY <1>1, <1>2, <1>3, <1>4, <1>5 DEF IInv

LEMMA ProceedKeeps ==
  ASSUME IInv, NEW e \in Enc, Proceed(e)
  PROVE  IInv'
<1> USE EncoderConstants DEF Proceed, Be, locks, IInv, Types, TypeOK, Place
<1>1. Types'
  <2>1. enc' \in [Enc -> Fields]
    BY FieldSet
  <2>2. \A x \in Enc : IsInjective(enc[x].callbacks)'
    BY DEF Fields
  <2> QED  BY <2>1, <2>2
<1>2. Owners'
  BY DEF Owners
<1>3. Codecs'
  BY DEF Fields, Owners, Codecs, Codec
<1>4. Connections'
  BY DEF Fields, Owners, Codecs, Codec, Connections, Connection, Changing
<1>5. Members'
  BY DEF Fields, Owners, Codecs, Codec, Connections, Connection, Changing, Members, Member, Between
<1> QED  BY <1>1, <1>2, <1>3, <1>4, <1>5 DEF IInv

LEMMA NextBufferedKeeps ==
  ASSUME IInv, NEW e \in Enc, NextBuffered(e)
  PROVE  IInv'
<1> USE EncoderConstants DEF NextBuffered, Be, locks, IInv, Types, TypeOK, Place
<1>1. Types'
  OBVIOUS
<1>2. Owners'
  BY DEF Owners
<1>3. Codecs'
  BY DEF Fields, Owners, Codecs, Codec
<1>4. Connections'
  BY DEF Fields, Owners, Codecs, Codec, Connections, Connection, Changing
<1>5. Members'
  BY DEF Fields, Owners, Codecs, Codec, Connections, Connection, Changing, Members, Member, Between
<1> QED  BY <1>1, <1>2, <1>3, <1>4, <1>5 DEF IInv

LEMMA NoneBufferedKeeps ==
  ASSUME IInv, NEW e \in Enc, NoneBuffered(e)
  PROVE  IInv'
<1> USE EncoderConstants DEF NoneBuffered, Leave, Be, locks, IInv, Types, TypeOK, Place
<1>1. Types'
  OBVIOUS
<1>2. Owners'
  BY DEF Owners
<1>3. Codecs'
  BY DEF Fields, Owners, Codecs, Codec
<1>4. Connections'
  BY DEF Fields, Owners, Codecs, Codec, Connections, Connection, Changing
<1>5. Members'
  BY DEF Fields, Owners, Codecs, Codec, Connections, Connection, Changing, Members, Member, Between
<1> QED  BY <1>1, <1>2, <1>3, <1>4, <1>5 DEF IInv

LEMMA EncodedLeaves ==
  ASSUME Types, NEW e \in Enc, Encoded(e)
  PROVE  /\ at' \in [Enc -> Place \X Nat] /\ input' \in [Enc -> Output \cup Enc \cup {Free}]
         /\ \A x \in Enc : x # e => at'[x] = at[x] /\ input'[x] = input[x]
         /\ \/ at'[e][1] = "wait" /\ input'[e] = Free
            \/ e = "audio" /\ at'[e][1] = "buffered" /\ input'[e] = input[e]
<1>1. \/ at' = [at EXCEPT ![e] = <<"wait", 0>>] /\ input' = [input EXCEPT ![e] = Free]
      \/ e = "audio" /\ at' = [at EXCEPT ![e] = <<"buffered", 0>>] /\ input' = input
  BY DEF Encoded, Leave, Be, Enc
<1>2. /\ at \in [Enc -> Place \X Nat] /\ input \in [Enc -> Output \cup Enc \cup {Free}]
      /\ <<"wait", 0>> \in Place \X Nat /\ <<"buffered", 0>> \in Place \X Nat
      /\ <<"wait", 0>>[1] = "wait" /\ <<"buffered", 0>>[1] = "buffered"
  BY DEF Types, TypeOK, Place
<1> QED  BY <1>1, <1>2

LEMMA EncodeDelayedKeeps ==
  ASSUME IInv, NEW e \in Enc, EncodeDelayed(e)
  PROVE  IInv'
<1> USE EncoderConstants DEF locks, IInv, Types, TypeOK, Place
<1>1. /\ at' \in [Enc -> Place \X Nat] /\ input' \in [Enc -> Output \cup Enc \cup {Free}]
      /\ \A x \in Enc : x # e => at'[x] = at[x] /\ input'[x] = input[x]
      /\ \/ at'[e][1] = "wait" /\ input'[e] = Free
         \/ e = "audio" /\ at'[e][1] = "buffered" /\ input'[e] = input[e]
  BY EncodedLeaves DEF EncodeDelayed
<1>2. at[e][1] = "encode" /\ UNCHANGED <<enc, init, cb, pc, undercut, failed>>
  BY DEF EncodeDelayed
<1>3. \A x \in Enc : /\ at'[x][1] = "shutdown" <=> at[x][1] = "shutdown"
                     /\ at'[x][1] = "deliver" => at'[x] = at[x]
  BY <1>1, <1>2
<1>4. \A x \in Enc : Between(x)' = Between(x)
  BY <1>2 DEF Between
<1>5. Types'
  BY <1>1, <1>2, <1>3, <1>4
<1>6. Owners'
  BY <1>1, <1>2, <1>3, <1>4 DEF Owners
<1>7. Codecs'
  <2>1. SUFFICES ASSUME NEW x \in Enc
                 PROVE  Codec(x)'
    BY DEF Codecs
  <2>2. Codec(x)
    BY DEF Codecs
  <2>3. CASE x = e
    <3>1. /\ at[x][1] = "encode"
          /\ at'[x][1] = "wait" \/ (x = "audio" /\ at'[x][1] = "buffered")
      BY <1>1, <1>2, <2>3
    <3> QED  BY <1>2, <2>2, <3>1, EncoderConstants DEF Codec
  <2>4. CASE x # e
    <3>1. at'[x] = at[x]
      BY <1>1, <2>4
    <3> QED  BY <1>2, <2>2, <3>1 DEF Codec
  <2> QED  BY <2>3, <2>4
<1>8. Connections'
  BY <1>1, <1>2, <1>3, <1>4 DEF Fields, Owners, Codecs, Codec, Connections, Connection, Changing
<1>9. Members'
  BY <1>1, <1>2, <1>3, <1>4 DEF Fields, Owners, Codecs, Codec, Connections, Connection, Changing, Members, Member, Between
<1> QED  BY <1>5, <1>6, <1>7, <1>8, <1>9 DEF IInv

LEMMA EncodePacketKeeps ==
  ASSUME IInv, NEW e \in Enc, EncodePacket(e)
  PROVE  IInv'
<1> USE EncoderConstants DEF EncodePacket, Be, locks, IInv, Types, TypeOK, Place
<1>1. Types'
  <2>1. enc' \in [Enc -> Fields]
    BY FieldSet
  <2>2. \A x \in Enc : IsInjective(enc[x].callbacks)'
    BY DEF Fields
  <2> QED  BY <2>1, <2>2
<1>2. Owners'
  BY DEF Owners
<1>3. Codecs'
  BY DEF Fields, Owners, Codecs, Codec
<1>4. Connections'
  BY DEF Fields, Owners, Codecs, Codec, Connections, Connection, Changing
<1>5. Members'
  BY DEF Fields, Owners, Codecs, Codec, Connections, Connection, Changing, Members, Member, Between
<1> QED  BY <1>1, <1>2, <1>3, <1>4, <1>5 DEF IInv

LEMMA EncodeFailsKeeps ==
  ASSUME IInv, NEW e \in Enc, EncodeFails(e)
  PROVE  IInv'
<1> USE EncoderConstants DEF EncodeFails, Be, locks, IInv, Types, TypeOK, Place
<1>1. Types'
  OBVIOUS
<1>2. Owners'
  BY DEF Owners
<1>3. Codecs'
  BY DEF Fields, Owners, Codecs, Codec
<1>4. Connections'
  BY DEF Fields, Owners, Codecs, Codec, Connections, Connection, Changing
<1>5. Members'
  BY DEF Fields, Owners, Codecs, Codec, Connections, Connection, Changing, Members, Member, Between
<1> QED  BY <1>1, <1>2, <1>3, <1>4, <1>5 DEF IInv

LEMMA LockCallbacksKeeps ==
  ASSUME IInv, NEW e \in Enc, LockCallbacks(e)
  PROVE  IInv'
<1> USE EncoderConstants DEF LockCallbacks, TakeCallbacks, locks, IInv, Types, TypeOK, Place
<1>1. Types'
  OBVIOUS
<1>2. Owners'
  BY DEF Owners
<1>3. Codecs'
  BY DEF Fields, Owners, Codecs, Codec
<1>4. Connections'
  BY DEF Fields, Owners, Codecs, Codec, Connections, Connection, Changing
<1>5. Members'
  BY DEF Fields, Owners, Codecs, Codec, Connections, Connection, Changing, Members, Member, Between
<1> QED  BY <1>1, <1>2, <1>3, <1>4, <1>5 DEF IInv

LEMMA DeliverKeeps ==
  ASSUME IInv, NEW e \in Enc, Deliver(e)
  PROVE  IInv'
<1> USE EncoderConstants DEF Deliver, locks, IInv, Types, TypeOK, Place
<1>1. Types'
  OBVIOUS
<1>2. Owners'
  BY DEF Owners
<1>3. Codecs'
  BY DEF Fields, Owners, Codecs, Codec
<1>4. Connections'
  BY DEF Fields, Owners, Codecs, Codec, Connections, Connection, Changing
<1>5. Members'
  BY DEF Fields, Owners, Codecs, Codec, Connections, Connection, Changing, Members, Member, Between
<1> QED  BY <1>1, <1>2, <1>3, <1>4, <1>5 DEF IInv

LEMMA UnlockCallbacksKeeps ==
  ASSUME IInv, NEW e \in Enc, UnlockCallbacks(e)
  PROVE  IInv'
<1> USE EncoderConstants DEF locks, IInv, Types, TypeOK, Place
<1>1. /\ at' \in [Enc -> Place \X Nat] /\ input' \in [Enc -> Output \cup Enc \cup {Free}]
      /\ \A x \in Enc : x # e => at'[x] = at[x] /\ input'[x] = input[x]
      /\ \/ at'[e][1] = "wait" /\ input'[e] = Free
         \/ e = "audio" /\ at'[e][1] = "buffered" /\ input'[e] = input[e]
  BY EncodedLeaves DEF UnlockCallbacks
<1>2. /\ at[e][1] = "deliver" /\ cb' = [cb EXCEPT ![e] = Free]
      /\ UNCHANGED <<enc, init, pc, undercut, failed>>
  BY DEF UnlockCallbacks
<1>3. \A x \in Enc : /\ at'[x][1] = "shutdown" <=> at[x][1] = "shutdown"
                     /\ at'[x][1] = "deliver" => at'[x] = at[x]
  BY <1>1, <1>2
<1>4. \A x \in Enc : Between(x)' = Between(x)
  BY <1>2 DEF Between
<1>5. Types'
  BY <1>1, <1>2, <1>3, <1>4
<1>6. Owners'
  BY <1>1, <1>2, <1>3, <1>4 DEF Owners
<1>7. Codecs'
  <2>1. SUFFICES ASSUME NEW x \in Enc
                 PROVE  Codec(x)'
    BY DEF Codecs
  <2>2. Codec(x)
    BY DEF Codecs
  <2>3. CASE x = e
    <3>1. /\ at[x][1] = "deliver"
          /\ at'[x][1] = "wait" \/ (x = "audio" /\ at'[x][1] = "buffered")
      BY <1>1, <1>2, <2>3
    <3> QED  BY <1>2, <2>2, <3>1, EncoderConstants DEF Codec
  <2>4. CASE x # e
    <3>1. at'[x] = at[x]
      BY <1>1, <2>4
    <3> QED  BY <1>2, <2>2, <3>1 DEF Codec
  <2> QED  BY <2>3, <2>4
<1>8. Connections'
  BY <1>1, <1>2, <1>3, <1>4 DEF Fields, Owners, Codecs, Codec, Connections, Connection, Changing
<1>9. Members'
  BY <1>1, <1>2, <1>3, <1>4 DEF Fields, Owners, Codecs, Codec, Connections, Connection, Changing, Members, Member, Between
<1> QED  BY <1>5, <1>6, <1>7, <1>8, <1>9 DEF IInv

LEMMA FullStopKeeps ==
  ASSUME IInv, NEW e \in Enc, FullStop(e)
  PROVE  IInv'
<1> USE EncoderConstants DEF locks, IInv, Types, TypeOK, Place
<1> DEFINE r == [[enc[e] EXCEPT !.callbacks = <<>>] EXCEPT !.connected = FALSE]
<1>1. <<>> \in Seq(Output) /\ IsInjective(<<>>) /\ \A o \in Output : ~Contains(<<>>, o)
  BY DEF IsInjective, Contains
<1>2. /\ r \in Fields /\ ~r.connected /\ r.callbacks = <<>>
      /\ r.active = enc[e].active /\ r.data = enc[e].data /\ r.initialized = enc[e].initialized
  <2>1. enc[e] \in Fields
    OBVIOUS
  <2>2. r \in Fields
    BY <1>1, <2>1, FieldSet
  <2> QED  BY <2>1, <2>2 DEF Fields
<1>3. enc' = [enc EXCEPT ![e] = r]
  BY DEF FullStop
<1>4. /\ at[e][1] = "full_stop" /\ at' = [at EXCEPT ![e] = <<"shutdown", 0>>]
      /\ cb[e] = Free /\ cb' = [cb EXCEPT ![e] = e]
      /\ UNCHANGED <<init, input, pc, undercut, failed>>
  BY DEF FullStop, TakeCallbacks, Be
<1> HIDE DEF r
<1>5. Types'
  <2>1. enc' \in [Enc -> Fields]
    BY <1>1, <1>2, <1>3, <1>4, FieldSet
  <2>2. \A x \in Enc : IsInjective(enc[x].callbacks)'
    BY <1>1, <1>2, <1>3, <1>4 DEF Fields
  <2> QED  BY <1>1, <1>2, <1>3, <1>4, <2>1, <2>2
<1>6. Owners'
  BY <1>1, <1>2, <1>3, <1>4 DEF Owners
<1>7. Codecs'
  BY <1>1, <1>2, <1>3, <1>4 DEF Fields, Owners, Codecs, Codec
<1>8. Connections'
  <2>1. ASSUME NEW x \in Enc, x # e PROVE Connection(x)'
    BY <1>1, <1>2, <1>3, <1>4, <2>1 DEF Connections, Connection, Changing
  <2>2. Connection(e)'
    <3>1. enc'[e] = r /\ at'[e][1] = "shutdown" /\ enc[e].active
      BY <1>1, <1>2, <1>3, <1>4 DEF Codecs, Codec
    <3>2. Changing(e) # "connect" /\ Changing(e)' = Changing(e)
      BY <1>1, <1>2, <1>3, <1>4, <3>1 DEF Connections, Connection, Changing
    <3> QED  BY <1>1, <1>2, <1>3, <1>4, <3>1, <3>2 DEF Connection
  <2> QED  BY <1>1, <1>2, <1>3, <1>4, <2>1, <2>2 DEF Connections
<1>9. Members'
  BY <1>1, <1>2, <1>3, <1>4 DEF Fields, Owners, Codecs, Codec, Connections, Connection, Changing, Members, Member, Between
<1> QED  BY <1>5, <1>6, <1>7, <1>8, <1>9 DEF IInv

LEMMA FullStopShutdownKeeps ==
  ASSUME IInv, NEW e \in Enc, FullStopShutdown(e)
  PROVE  IInv'
<1> USE EncoderConstants DEF locks, IInv, Types, TypeOK, Place
<1>1. /\ at' \in [Enc -> Place \X Nat] /\ input' \in [Enc -> Output \cup Enc \cup {Free}]
      /\ \A x \in Enc : x # e => at'[x] = at[x] /\ input'[x] = input[x]
      /\ \/ at'[e][1] = "wait" /\ input'[e] = Free
         \/ e = "audio" /\ at'[e][1] = "buffered" /\ input'[e] = input[e]
  BY EncodedLeaves DEF FullStopShutdown
<1> DEFINE r == Unconnected(enc[e])
<1>2. /\ r \in Fields /\ ~r.active /\ ~r.connected
      /\ r.callbacks = enc[e].callbacks /\ r.initialized = enc[e].initialized /\ ~r.data
  BY ShutdownsLeave
<1>3. /\ at[e][1] = "shutdown" /\ init[e] = Free /\ cb' = [cb EXCEPT ![e] = Free]
      /\ enc' = [enc EXCEPT ![e] = r] /\ undercut' = undercut \cup Between(e)
      /\ UNCHANGED <<init, pc, failed>>
  BY DEF FullStopShutdown
<1> HIDE DEF r
<1>4. Types'
  <2>1. enc' \in [Enc -> Fields]
    BY <1>1, <1>2, <1>3, FieldSet
  <2>2. \A x \in Enc : IsInjective(enc[x].callbacks)'
    BY <1>1, <1>2, <1>3 DEF Fields
  <2> QED  BY <1>1, <1>2, <1>3, <2>1, <2>2
<1>5. Owners'
  BY <1>1, <1>2, <1>3 DEF Owners
<1>6. Codecs'
  <2>1. SUFFICES ASSUME NEW x \in Enc
                 PROVE  Codec(x)'
    BY DEF Codecs
  <2>2. Codec(x)
    BY DEF Codecs
  <2>3. CASE x = e
    <3>1. e \in failed /\ enc[e].active /\ enc[e].data /\ enc[e].initialized
      BY <1>3, <2>2, <2>3 DEF Codec
    <3>2. /\ enc'[x] = r /\ init'[x] = Free
          /\ at'[x][1] = "wait" \/ (x = "audio" /\ at'[x][1] = "buffered")
      BY <1>1, <1>3, <2>3
    <3> QED  BY <1>2, <1>3, <2>3, <3>1, <3>2 DEF Codec
  <2>4. CASE x # e
    <3>1. at'[x] = at[x] /\ enc'[x] = enc[x]
      BY <1>1, <1>3, <2>4
    <3> QED  BY <1>3, <2>2, <3>1 DEF Codec
  <2> QED  BY <2>3, <2>4
<1>7. Connections'
  BY <1>1, <1>2, <1>3 DEF Fields, Owners, Codecs, Codec, Connections, Connection, Changing
<1>8. Members'
  BY <1>1, <1>2, <1>3 DEF Fields, Owners, Codecs, Codec, Connections, Connection, Changing, Members, Member, Between
<1> QED  BY <1>4, <1>5, <1>6, <1>7, <1>8 DEF IInv

LEMMA BeginCaptureKeeps ==
  ASSUME IInv, NEW o \in Output, BeginCapture(o)
  PROVE  IInv'
<1> USE EncoderConstants DEF locks, IInv, Types, TypeOK, Place
<1>1. /\ pc[o] = <<"idle", "video">> /\ pc' = [pc EXCEPT ![o] = <<"initialize", "video">>]
      /\ undercut' = undercut \ {o} /\ UNCHANGED <<enc, locks, at, failed>>
  BY DEF BeginCapture, Goto
<1>2. \A p \in Output, x \in Enc :
        /\ p \in Between(x) <=> pc[p] \in Awaits(x)
        /\ p \in Between(x)' <=> pc'[p] \in Awaits(x)
  BY DEF Between, Awaits, Enc
<1>3. Types'
  BY <1>1, <1>2 DEF Call, Holding
<1>4. Owners'
  BY <1>1, <1>2 DEF Owners, Holding
<1>5. Codecs'
  BY <1>1, <1>2 DEF Fields, Owners, Codecs, Codec, Holding
<1>6. Connections'
  BY <1>1, <1>2 DEF Fields, Owners, Codecs, Codec, Connections, Connection, Changing, Holding
<1>7. Members'
  <2> SUFFICES ASSUME NEW x \in Enc PROVE Member(x)'
    BY DEF Members
  <2>1. \A p \in Output : p # o => pc'[p] = pc[p]
    BY <1>1, <1>2
  <2>2. pc'[o] \notin Pushed(x) /\ pc[o] \notin Pushed(x)
    BY <1>1, <1>2 DEF Pushed, Enc
  <2>3. pc'[o] \notin Awaits(x)
    BY <1>1, <1>2 DEF Awaits, Enc
  <2> QED  BY <1>1, <1>2, <2>1, <2>2, <2>3 DEF Members, Member
<1> QED  BY <1>3, <1>4, <1>5, <1>6, <1>7 DEF IInv

LEMMA EndCaptureKeeps ==
  ASSUME IInv, NEW o \in Output, EndCapture(o)
  PROVE  IInv'
<1> USE EncoderConstants DEF locks, IInv, Types, TypeOK, Place
<1>1. pc[o] = <<"capturing", "video">>
  BY DEF EndCapture
<1>2. /\ pc[o] = <<"capturing", "video">> /\ pc' = [pc EXCEPT ![o] = <<"stop", "video">>]
      /\ UNCHANGED <<enc, locks, at, undercut, failed>>
  BY <1>1, Followers DEF EndCapture, Return
<1>3. \A p \in Output, x \in Enc :
        /\ p \in Between(x) <=> pc[p] \in Awaits(x)
        /\ p \in Between(x)' <=> pc'[p] \in Awaits(x)
  BY DEF Between, Awaits, Enc
<1>4. Types'
  BY <1>1, <1>2, <1>3 DEF Call, Holding
<1>5. Owners'
  BY <1>1, <1>2, <1>3 DEF Owners, Holding
<1>6. Codecs'
  BY <1>1, <1>2, <1>3 DEF Fields, Owners, Codecs, Codec, Holding
<1>7. Connections'
  BY <1>1, <1>2, <1>3 DEF Fields, Owners, Codecs, Codec, Connections, Connection, Changing, Holding
<1>8. Members'
  BY <1>1, <1>2, <1>3 DEF Fields, Owners, Codecs, Codec, Connections, Connection, Changing, Members, Member, Pushed, Awaits, Holding
<1> QED  BY <1>4, <1>5, <1>6, <1>7, <1>8 DEF IInv

LEMMA StopKeeps ==
  ASSUME IInv, NEW o \in Output, NEW e \in Enc, Stop(o, e)
  PROVE  IInv'
<1> USE EncoderConstants DEF locks, IInv, Types, TypeOK, Place
<1>1. /\ pc[o] = <<"stop", e>> /\ pc' = [pc EXCEPT ![o] = <<"erase", e>>]
      /\ init[e] = Free /\ init' = [init EXCEPT ![e] = o]
      /\ UNCHANGED <<enc, cb, input, at, undercut, failed>>
  BY DEF Stop, Goto
<1>2. \A p \in Output, x \in Enc :
        /\ p \in Between(x) <=> pc[p] \in Awaits(x)
        /\ p \in Between(x)' <=> pc'[p] \in Awaits(x)
  BY DEF Between, Awaits, Enc
<1>3. Types'
  BY <1>1, <1>2 DEF Call, Holding
<1>4. Owners'
  BY <1>1, <1>2 DEF Owners, Holding
<1>5. Codecs'
  BY <1>1, <1>2 DEF Fields, Owners, Codecs, Codec, Holding
<1>6. Connections'
  BY <1>1, <1>2 DEF Fields, Owners, Codecs, Codec, Connections, Connection, Changing, Holding
<1>7. Members'
  <2> SUFFICES ASSUME NEW x \in Enc PROVE Member(x)'
    BY DEF Members
  <2>1. \A p \in Output : p # o => pc'[p] = pc[p]
    BY <1>1, <1>2
  <2>2. pc[o] \in Pushed(x) <=> pc'[o] \in Pushed(x)
    BY <1>1, <1>2 DEF Pushed, Enc
  <2>3. pc'[o] \in Awaits(x) => pc[o] \in Awaits(x)
    BY <1>1, <1>2 DEF Awaits, Enc
  <2> QED  BY <1>1, <1>2, <2>1, <2>2, <2>3 DEF Members, Member
<1> QED  BY <1>3, <1>4, <1>5, <1>6, <1>7 DEF IInv

LEMMA InitializeKeeps ==
  ASSUME IInv, NEW o \in Output, NEW e \in Enc, Initialize(o, e)
  PROVE  IInv'
<1> USE EncoderConstants DEF locks, IInv, Types, TypeOK, Place
<1> DEFINE r == Initialized(enc[e])
           c == IF e = "video" THEN <<"initialize", "audio">> ELSE <<"pair", "video">>
<1>1. /\ r \in Fields /\ r.active = enc[e].active /\ r.connected = enc[e].connected
      /\ r.callbacks = enc[e].callbacks
      /\ enc[e].data \/ (~enc[e].active /\ ~enc[e].initialized) => r.data
      /\ r.initialized => enc[e].initialized \/ r.data
      /\ (enc[e].data => enc[e].initialized) => (r.data => r.initialized)
      /\ enc[e].initialized => r = enc[e]
  BY InitializedHas
<1>2. c = Follower(<<"initialize", e>>)
  BY Followers DEF Enc
<1>3. /\ pc[o] = <<"initialize", e>> /\ pc' = [pc EXCEPT ![o] = c]
      /\ init[e] = Free /\ enc' = [enc EXCEPT ![e] = r]
      /\ UNCHANGED <<locks, at, undercut, failed>>
  BY <1>2 DEF Initialize, Return
<1>4. c \in Call \X Enc /\ (c[1] \in {"idle", "pair", "capturing"} => c[2] = "video")
  BY DEF Call, Enc
<1> HIDE DEF r
<1>5. \A p \in Output, x \in Enc :
        /\ p \in Between(x) <=> pc[p] \in Awaits(x)
        /\ p \in Between(x)' <=> pc'[p] \in Awaits(x)
  BY DEF Between, Awaits, Enc
<1>6. Types'
  <2>1. enc' \in [Enc -> Fields] /\ \A x \in Enc : IsInjective(enc[x].callbacks)'
    BY <1>1, <1>2, <1>3, <1>4, <1>5 DEF Fields
  <2>2. /\ pc' \in [Output -> Call \X Enc]
        /\ \A p \in Output : pc'[p][1] \in {"idle", "pair", "capturing"} => pc'[p][2] = "video"
    BY <1>1, <1>2, <1>3, <1>4, <1>5
  <2> QED  BY <1>1, <1>2, <1>3, <1>4, <1>5, <2>1, <2>2
<1>7. Owners'
  BY <1>1, <1>2, <1>3, <1>4, <1>5 DEF Owners, Holding
<1>8. Codecs'
  <2>1. SUFFICES ASSUME NEW x \in Enc
                 PROVE  Codec(x)'
    BY DEF Codecs
  <2>2. Codec(x)
    BY DEF Codecs
  <2>3. CASE x = e
    <3>1. enc'[x] = r /\ init[x] = Free
      BY <1>3, <2>3
    <3>2. x \in failed => r = enc[x]
      BY <1>1, <2>2, <2>3 DEF Codec
    <3>3. CASE x \in failed
      BY <1>3, <2>2, <3>1, <3>2, <3>3 DEF Codec
    <3>4. CASE x \notin failed
      BY <1>1, <1>3, <2>2, <2>3, <3>1, <3>4 DEF Codec
    <3> QED  BY <3>3, <3>4
  <2>4. CASE x # e
    <3>1. enc'[x] = enc[x]
      BY <1>3, <2>4
    <3>2. init[x] \in Output /\ pc'[init[x]][1] \in {"push", "connect"}
            => pc[init[x]][1] \in {"push", "connect"}
      BY <1>3
    <3> QED  BY <1>3, <2>2, <3>1, <3>2 DEF Codec
  <2> QED  BY <2>3, <2>4
<1>9. Connections'
  BY <1>1, <1>2, <1>3, <1>4, <1>5 DEF Fields, Owners, Codecs, Codec, Connections, Connection, Changing, Holding
<1>10. Members'
  <2> SUFFICES ASSUME NEW x \in Enc PROVE Member(x)'
    BY DEF Members
  <2>1. \A p \in Output : p # o => pc'[p] = pc[p]
    BY <1>1, <1>2, <1>3, <1>4, <1>5
  <2>2. /\ pc[o] \in Pushed(x) <=> pc'[o] \in Pushed(x)
        /\ pc'[o] \in Awaits(x) => pc[o] \in Awaits(x) \/ x = e
    BY <1>1, <1>2, <1>3, <1>4, <1>5 DEF Pushed, Awaits, Enc
  <2>3. /\ enc'[x].callbacks = enc[x].callbacks /\ (enc[x].data => enc'[x].data)
        /\ e \notin failed => enc'[e].data
    BY <1>1, <1>2, <1>3, <1>4, <1>5 DEF Codecs, Codec
  <2> QED  BY <1>1, <1>2, <1>3, <1>4, <1>5, <2>1, <2>2, <2>3, ZenonT(40) DEF Members, Member
<1> QED  BY <1>6, <1>7, <1>8, <1>9, <1>10 DEF IInv

LEMMA PairEncodersKeeps ==
  ASSUME IInv, NEW o \in Output, PairEncoders(o)
  PROVE  IInv'
<1> USE EncoderConstants DEF locks, IInv, Types, TypeOK, Place
<1>1. pc[o] = <<"pair", "video">>
  BY DEF PairEncoders
<1>2. /\ pc' = [pc EXCEPT ![o] = <<"start", "audio">>]
      /\ UNCHANGED <<locks, at, undercut, failed>>
  BY <1>1, Followers DEF PairEncoders, Return
<1>3. enc' \in [Enc -> Fields]
  <2>1. [x \in Enc |-> [enc[x] EXCEPT !.paired = TRUE]] \in [Enc -> Fields]
    BY FieldSet
  <2> QED  BY <2>1 DEF PairEncoders
<1>4. \A x \in Enc :
        /\ enc'[x].data = enc[x].data /\ enc'[x].active = enc[x].active
        /\ enc'[x].connected = enc[x].connected /\ enc'[x].callbacks = enc[x].callbacks
        /\ enc'[x].initialized = enc[x].initialized
  BY DEF PairEncoders, Fields
<1>5. /\ <<"start", "audio">> \in Call \X Enc
      /\ <<"start", "audio">>[1] \notin {"idle", "pair", "capturing"}
  BY DEF Call, Enc
<1>6. \A p \in Output, x \in Enc :
        /\ p \in Between(x) <=> pc[p] \in Awaits(x)
        /\ p \in Between(x)' <=> pc'[p] \in Awaits(x)
  BY DEF Between, Awaits, Enc
<1>7. Types'
  <2>1. enc' \in [Enc -> Fields] /\ \A x \in Enc : IsInjective(enc[x].callbacks)'
    BY <1>1, <1>2, <1>3, <1>4, <1>5, <1>6
  <2>2. /\ pc' \in [Output -> Call \X Enc]
        /\ \A p \in Output : pc'[p][1] \in {"idle", "pair", "capturing"} => pc'[p][2] = "video"
    BY <1>1, <1>2, <1>3, <1>4, <1>5, <1>6
  <2> QED  BY <1>1, <1>2, <1>3, <1>4, <1>5, <1>6, <2>1, <2>2
<1>8. Owners'
  BY <1>1, <1>2, <1>3, <1>4, <1>5, <1>6 DEF Owners, Holding
<1>9. Codecs'
  BY <1>1, <1>2, <1>3, <1>4, <1>5, <1>6 DEF Fields, Owners, Codecs, Codec, Holding
<1>10. Connections'
  BY <1>1, <1>2, <1>3, <1>4, <1>5, <1>6 DEF Fields, Owners, Codecs, Codec, Connections, Connection, Changing, Holding
<1>11. Members'
  <2> SUFFICES ASSUME NEW x \in Enc PROVE Member(x)'
    BY DEF Members
  <2>1. \A p \in Output : p # o => pc'[p] = pc[p]
    BY <1>1, <1>2, <1>3, <1>4, <1>5, <1>6
  <2>2. /\ pc[o] \in Pushed(x) <=> pc'[o] \in Pushed(x)
        /\ pc'[o] \in Awaits(x) => pc[o] \in Awaits(x)
    BY <1>1, <1>2, <1>3, <1>4, <1>5, <1>6 DEF Pushed, Awaits, Enc
  <2>3. /\ enc'[x].callbacks = enc[x].callbacks /\ (enc[x].data => enc'[x].data)
    BY <1>1, <1>2, <1>3, <1>4, <1>5, <1>6
  <2> QED  BY <1>1, <1>2, <1>3, <1>4, <1>5, <1>6, <2>1, <2>2, <2>3, ZenonT(40) DEF Members, Member
<1> QED  BY <1>7, <1>8, <1>9, <1>10, <1>11 DEF IInv

LEMMA ConnectKeeps ==
  ASSUME IInv, NEW o \in Output, NEW e \in Enc, Connect(o, e)
  PROVE  IInv'
<1> USE EncoderConstants DEF locks, IInv, Types, TypeOK, Place
<1> DEFINE r == [[enc[e] EXCEPT !.connected = TRUE] EXCEPT !.active = TRUE]
           c == IF e = "audio" THEN <<"start", "video">> ELSE <<"capturing", "video">>
<1>1. c \in Call \X Enc /\ (c[1] \in {"idle", "pair", "capturing"} => c[2] = "video")
  BY DEF Call, Enc
<1>2. /\ r \in Fields /\ r.active /\ r.connected /\ r.callbacks = enc[e].callbacks
      /\ r.data = enc[e].data /\ r.initialized = enc[e].initialized
  <2>1. enc[e] \in Fields
    OBVIOUS
  <2>2. r \in Fields
    BY <2>1, FieldSet
  <2> QED  BY <2>1, <2>2 DEF Fields
<1>3. c = Follower(<<"start", e>>)
  BY Followers DEF Enc
<1>4. /\ pc[o] = <<"connect", e>> /\ pc' = [pc EXCEPT ![o] = c]
      /\ init' = [init EXCEPT ![e] = Free] /\ enc' = [enc EXCEPT ![e] = r]
      /\ UNCHANGED <<cb, input, at, undercut, failed>>
  BY <1>3 DEF Connect, Return
<1>5. init[e] = o
  BY <1>4 DEF Owners, Holding
<1> HIDE DEF r
<1>6. \A p \in Output, x \in Enc :
        /\ p \in Between(x) <=> pc[p] \in Awaits(x)
        /\ p \in Between(x)' <=> pc'[p] \in Awaits(x)
  BY DEF Between, Awaits, Enc
<1>7. Types'
  <2>1. enc' \in [Enc -> Fields] /\ \A x \in Enc : IsInjective(enc[x].callbacks)'
    BY <1>1, <1>2, <1>3, <1>4, <1>5, <1>6 DEF Fields
  <2>2. /\ pc' \in [Output -> Call \X Enc]
        /\ \A p \in Output : pc'[p][1] \in {"idle", "pair", "capturing"} => pc'[p][2] = "video"
    BY <1>1, <1>2, <1>3, <1>4, <1>5, <1>6
  <2> QED  BY <1>1, <1>2, <1>3, <1>4, <1>5, <1>6, <2>1, <2>2
<1>8. Owners'
  BY <1>1, <1>2, <1>3, <1>4, <1>5, <1>6 DEF Owners, Holding
<1>9. Codecs'
  BY <1>1, <1>2, <1>3, <1>4, <1>5, <1>6 DEF Fields, Owners, Codecs, Codec, Holding
<1>10. Connections'
  BY <1>1, <1>2, <1>3, <1>4, <1>5, <1>6 DEF Fields, Owners, Codecs, Codec, Connections, Connection, Changing, Holding
<1>11. Members'
  <2> SUFFICES ASSUME NEW x \in Enc PROVE Member(x)'
    BY DEF Members
  <2>1. \A p \in Output : p # o => pc'[p] = pc[p]
    BY <1>1, <1>2, <1>3, <1>4, <1>5, <1>6
  <2>2. /\ pc[o] \in Pushed(x) <=> pc'[o] \in Pushed(x)
        /\ pc'[o] \in Awaits(x) => pc[o] \in Awaits(x)
    BY <1>1, <1>2, <1>3, <1>4, <1>5, <1>6 DEF Pushed, Awaits, Enc
  <2>3. /\ enc'[x].callbacks = enc[x].callbacks /\ (enc[x].data => enc'[x].data)
    BY <1>1, <1>2, <1>3, <1>4, <1>5, <1>6
  <2> QED  BY <1>1, <1>2, <1>3, <1>4, <1>5, <1>6, <2>1, <2>2, <2>3 DEF Members, Member
<1> QED  BY <1>7, <1>8, <1>9, <1>10, <1>11 DEF IInv

LEMMA DisconnectKeeps ==
  ASSUME IInv, NEW o \in Output, NEW e \in Enc, Disconnect(o, e)
  PROVE  IInv'
<1> USE EncoderConstants DEF locks, IInv, Types, TypeOK, Place
<1> DEFINE r == Stopped(enc[e])
           c == IF e = "video" THEN <<"stop", "audio">> ELSE <<"idle", "video">>
<1>1. c \in Call \X Enc /\ (c[1] \in {"idle", "pair", "capturing"} => c[2] = "video")
  BY DEF Call, Enc
<1>2. /\ r \in Fields /\ ~r.active /\ ~r.connected /\ r.callbacks = enc[e].callbacks
      /\ ~r.initialized /\ ~r.data
  BY ShutdownsLeave
<1>3. c = Follower(<<"stop", e>>)
  BY Followers DEF Enc
<1>4. /\ pc[o] = <<"disconnect", e>> /\ pc' = [pc EXCEPT ![o] = c]
      /\ init' = [init EXCEPT ![e] = Free] /\ enc' = [enc EXCEPT ![e] = r]
      /\ undercut' = undercut \cup Between(e) /\ input[e] = Free
      /\ UNCHANGED <<cb, input, at, failed>>
  BY <1>3 DEF Disconnect, NotEncoding, Return
<1>5. init[e] = o /\ at[e][1] = "wait"
  BY <1>4 DEF Owners, Holding
<1> HIDE DEF r
<1>6. \A p \in Output, x \in Enc :
        /\ p \in Between(x) <=> pc[p] \in Awaits(x)
        /\ p \in Between(x)' <=> pc'[p] \in Awaits(x)
  BY DEF Between, Awaits, Enc
<1>7. Types'
  <2>1. enc' \in [Enc -> Fields] /\ \A x \in Enc : IsInjective(enc[x].callbacks)'
    BY <1>1, <1>2, <1>3, <1>4, <1>5, <1>6 DEF Fields
  <2>2. /\ pc' \in [Output -> Call \X Enc]
        /\ \A p \in Output : pc'[p][1] \in {"idle", "pair", "capturing"} => pc'[p][2] = "video"
    BY <1>1, <1>2, <1>3, <1>4, <1>5, <1>6
  <2> QED  BY <1>1, <1>2, <1>3, <1>4, <1>5, <1>6, <2>1, <2>2
<1>8. Owners'
  BY <1>1, <1>2, <1>3, <1>4, <1>5, <1>6 DEF Owners, Holding
<1>9. Codecs'
  <2>1. SUFFICES ASSUME NEW x \in Enc
                 PROVE  Codec(x)'
    BY DEF Codecs
  <2>2. Codec(x) /\ Connection(x)
    BY DEF Codecs, Connections
  <2>3. CASE x = e
    <3>1. enc[x].active
      BY <1>4, <1>5, <2>2, <2>3 DEF Connection, Changing
    <3>2. x \notin failed
      BY <1>5, <2>2, <2>3, <3>1 DEF Codec
    <3>3. enc'[x] = r /\ init'[x] = Free /\ at'[x][1] = "wait"
      BY <1>4, <1>5, <2>3
    <3> QED  BY <1>2, <1>4, <3>2, <3>3 DEF Codec
  <2>4. CASE x # e
    <3>1. enc'[x] = enc[x] /\ init'[x] = init[x]
      BY <1>4, <2>4
    <3>2. init[x] \in Output /\ pc'[init[x]][1] \in {"push", "connect"}
            => pc[init[x]][1] \in {"push", "connect"}
      BY <1>1, <1>4
    <3> QED  BY <1>4, <2>2, <3>1, <3>2 DEF Codec
  <2> QED  BY <2>3, <2>4
<1>10. Connections'
  BY <1>1, <1>2, <1>3, <1>4, <1>5, <1>6 DEF Fields, Owners, Codecs, Codec, Connections, Connection, Changing, Holding
<1>11. Members'
  <2> SUFFICES ASSUME NEW x \in Enc PROVE Member(x)'
    BY DEF Members
  <2>1. \A p \in Output : p # o => pc'[p] = pc[p]
    BY <1>1, <1>2, <1>3, <1>4, <1>5, <1>6
  <2>2. /\ pc[o] \in Pushed(x) <=> pc'[o] \in Pushed(x)
        /\ pc'[o] \notin Awaits(x)
    BY <1>1, <1>2, <1>3, <1>4, <1>5, <1>6 DEF Pushed, Awaits, Enc
  <2>3. /\ enc'[x].callbacks = enc[x].callbacks
        /\ x # e => enc'[x] = enc[x]
    BY <1>1, <1>2, <1>3, <1>4, <1>5, <1>6
  <2> QED  BY <1>1, <1>2, <1>3, <1>4, <1>5, <1>6, <2>1, <2>2, <2>3, ZenonT(40) DEF Members, Member
<1> QED  BY <1>7, <1>8, <1>9, <1>10, <1>11 DEF IInv

LEMMA StartFindsKeeps ==
  ASSUME IInv, NEW o \in Output, NEW e \in Enc, Start(o, e), enc[e].data
  PROVE  IInv'
<1> USE EncoderConstants DEF locks, IInv, Types, TypeOK, Place
<1> DEFINE c == <<"push", e>>
<1>1. c \in Call \X Enc /\ (c[1] \in {"idle", "pair", "capturing"} => c[2] = "video")
  BY DEF Call, Enc
<1>2. /\ Follower(<<"start", "audio">>) = <<"start", "video">>
      /\ Follower(<<"start", "video">>) = <<"capturing", "video">>
  BY Followers
<1>3. /\ pc[o] = <<"start", e>> /\ pc' = [pc EXCEPT ![o] = c]
      /\ init[e] = Free /\ init' = [init EXCEPT ![e] = o]
      /\ UNCHANGED <<enc, cb, input, at, undercut, failed>>
  BY <1>2 DEF Start, Return, Goto, Enc
<1>4. \A p \in Output, x \in Enc :
        /\ p \in Between(x) <=> pc[p] \in Awaits(x)
        /\ p \in Between(x)' <=> pc'[p] \in Awaits(x)
  BY DEF Between, Awaits, Enc
<1>5. Types'
  <2>1. enc' \in [Enc -> Fields] /\ \A x \in Enc : IsInjective(enc[x].callbacks)'
    BY <1>1, <1>2, <1>3, <1>4
  <2>2. /\ pc' \in [Output -> Call \X Enc]
        /\ \A p \in Output : pc'[p][1] \in {"idle", "pair", "capturing"} => pc'[p][2] = "video"
    BY <1>1, <1>2, <1>3, <1>4
  <2> QED  BY <1>1, <1>2, <1>3, <1>4, <2>1, <2>2
<1>6. Owners'
  BY <1>1, <1>2, <1>3, <1>4 DEF Owners, Holding
<1>7. Codecs'
  BY <1>1, <1>2, <1>3, <1>4 DEF Fields, Owners, Codecs, Codec, Holding
<1>8. Connections'
  BY <1>1, <1>2, <1>3, <1>4 DEF Fields, Owners, Codecs, Codec, Connections, Connection, Changing, Holding
<1>9. Members'
  <2> SUFFICES ASSUME NEW x \in Enc PROVE Member(x)'
    BY DEF Members
  <2>1. \A p \in Output : p # o => pc'[p] = pc[p]
    BY <1>1, <1>2, <1>3, <1>4
  <2>2. x # e => (pc[o] \in Pushed(x) <=> pc'[o] \in Pushed(x))
    BY <1>1, <1>2, <1>3, <1>4 DEF Pushed, Enc
  <2>3. pc'[o] \in Awaits(x) => pc[o] \in Awaits(x)
    BY <1>1, <1>2, <1>3, <1>4 DEF Awaits, Enc
  <2>4. pc[o] \notin Pushed(e) /\ pc[o] \in Awaits(e) /\ (enc[e].data => pc'[o] \notin Pushed(e))
    BY <1>1, <1>2, <1>3, <1>4 DEF Pushed, Awaits, Enc
  <2> QED  BY <1>1, <1>2, <1>3, <1>4, <2>1, <2>2, <2>3, <2>4 DEF Members, Member
<1> QED  BY <1>5, <1>6, <1>7, <1>8, <1>9 DEF IInv

LEMMA StartGivesUpKeeps ==
  ASSUME IInv, NEW o \in Output, NEW e \in Enc, Start(o, e), ~enc[e].data
  PROVE  IInv'
<1> USE EncoderConstants DEF locks, IInv, Types, TypeOK, Place
<1> DEFINE c == IF e = "audio" THEN <<"start", "video">> ELSE <<"capturing", "video">>
<1>1. c \in Call \X Enc /\ (c[1] \in {"idle", "pair", "capturing"} => c[2] = "video")
  BY DEF Call, Enc
<1>2. /\ Follower(<<"start", "audio">>) = <<"start", "video">>
      /\ Follower(<<"start", "video">>) = <<"capturing", "video">>
  BY Followers
<1>3. /\ pc[o] = <<"start", e>> /\ pc' = [pc EXCEPT ![o] = c]
      /\ init[e] = Free /\ init' = init
      /\ UNCHANGED <<enc, cb, input, at, undercut, failed>>
  BY <1>2 DEF Start, Return, Goto, Enc
<1>4. \A p \in Output, x \in Enc :
        /\ p \in Between(x) <=> pc[p] \in Awaits(x)
        /\ p \in Between(x)' <=> pc'[p] \in Awaits(x)
  BY DEF Between, Awaits, Enc
<1>5. Types'
  <2>1. enc' \in [Enc -> Fields] /\ \A x \in Enc : IsInjective(enc[x].callbacks)'
    BY <1>1, <1>2, <1>3, <1>4
  <2>2. /\ pc' \in [Output -> Call \X Enc]
        /\ \A p \in Output : pc'[p][1] \in {"idle", "pair", "capturing"} => pc'[p][2] = "video"
    BY <1>1, <1>2, <1>3, <1>4
  <2> QED  BY <1>1, <1>2, <1>3, <1>4, <2>1, <2>2
<1>6. Owners'
  BY <1>1, <1>2, <1>3, <1>4 DEF Owners, Holding
<1>7. Codecs'
  BY <1>1, <1>2, <1>3, <1>4 DEF Fields, Owners, Codecs, Codec, Holding
<1>8. Connections'
  BY <1>1, <1>2, <1>3, <1>4 DEF Fields, Owners, Codecs, Codec, Connections, Connection, Changing, Holding
<1>9. Members'
  <2> SUFFICES ASSUME NEW x \in Enc PROVE Member(x)'
    BY DEF Members
  <2>1. \A p \in Output : p # o => pc'[p] = pc[p]
    BY <1>1, <1>2, <1>3, <1>4
  <2>2. x # e => (pc[o] \in Pushed(x) <=> pc'[o] \in Pushed(x))
    BY <1>1, <1>2, <1>3, <1>4 DEF Pushed, Enc
  <2>3. pc'[o] \in Awaits(x) => pc[o] \in Awaits(x)
    BY <1>1, <1>2, <1>3, <1>4 DEF Awaits, Enc
  <2>4. pc[o] \notin Pushed(e) /\ pc[o] \in Awaits(e) /\ (enc[e].data => pc'[o] \notin Pushed(e))
    BY <1>1, <1>2, <1>3, <1>4 DEF Pushed, Awaits, Enc
  <2> QED  BY <1>1, <1>2, <1>3, <1>4, <2>1, <2>2, <2>3, <2>4 DEF Members, Member
<1> QED  BY <1>5, <1>6, <1>7, <1>8, <1>9 DEF IInv

LEMMA PushFirstKeeps ==
  ASSUME IInv, NEW o \in Output, NEW e \in Enc, Push(o, e), enc[e].callbacks = <<>>
  PROVE  IInv'
<1> USE EncoderConstants DEF locks, IInv, Types, TypeOK, Place
<1> DEFINE s == IF Contains(enc[e].callbacks, o) THEN enc[e].callbacks ELSE Append(enc[e].callbacks, o)
           r == [enc[e] EXCEPT !.callbacks = s]
           c == <<"connect", e>>
<1>1. c \in Call \X Enc /\ (c[1] \in {"idle", "pair", "capturing"} => c[2] = "video")
  BY DEF Call, Enc
<1>2. enc[e] \in Fields /\ enc[e].callbacks \in Seq(Output) /\ IsInjective(enc[e].callbacks)
  BY DEF Fields
<1>3. /\ s \in Seq(Output) /\ IsInjective(s) /\ s # <<>> /\ Len(s) >= Len(enc[e].callbacks)
      /\ \A x \in Output : Contains(s, x) <=> Contains(enc[e].callbacks, x) \/ x = o
  <2>1. CASE Contains(enc[e].callbacks, o)
    BY <1>2, <2>1 DEF Contains
  <2>2. CASE ~Contains(enc[e].callbacks, o)
    <3> DEFINE t == Append(enc[e].callbacks, o)
    <3>1. s = t
      BY <2>2
    <3>2. /\ t \in Seq(Output) /\ IsInjective(t) /\ t # <<>> /\ Len(t) > Len(enc[e].callbacks)
          /\ \A x \in Output : Contains(t, x) <=> Contains(enc[e].callbacks, x) \/ x = o
      BY <1>2, <2>2, PushAdds
    <3> HIDE DEF s, t
    <3>3. Len(enc[e].callbacks) \in Nat /\ Len(t) \in Nat
      BY <1>2, <3>2
    <3> QED  BY <3>1, <3>2, <3>3
  <2> QED  BY <2>1, <2>2
<1> HIDE DEF s
<1>4. /\ r \in Fields /\ r.callbacks = s /\ r.active = enc[e].active /\ r.data = enc[e].data
       /\ r.connected = enc[e].connected /\ r.initialized = enc[e].initialized
  <2>1. r \in Fields
    BY <1>2, <1>3, FieldSet
  <2> QED  BY <1>2, <1>3, <2>1 DEF Fields
<1>5. /\ Follower(<<"start", "audio">>) = <<"start", "video">>
      /\ Follower(<<"start", "video">>) = <<"capturing", "video">>
  BY Followers
<1>6. /\ pc[o] = <<"push", e>> /\ pc' = [pc EXCEPT ![o] = c] /\ cb[e] = Free
       /\ enc' = [enc EXCEPT ![e] = r] /\ init' = init
       /\ UNCHANGED <<cb, input, at, undercut, failed>>
  BY <1>5 DEF Push, Return, Goto, Enc, s
<1>7. init[e] = o
  BY <1>6 DEF Owners, Holding
<1> HIDE DEF r
<1>8. \A p \in Output, x \in Enc :
        /\ p \in Between(x) <=> pc[p] \in Awaits(x)
        /\ p \in Between(x)' <=> pc'[p] \in Awaits(x)
  BY DEF Between, Awaits, Enc
<1>9. Types'
  <2>1. enc' \in [Enc -> Fields] /\ \A x \in Enc : IsInjective(enc[x].callbacks)'
    BY <1>1, <1>2, <1>3, <1>4, <1>5, <1>6, <1>7, <1>8 DEF Fields
  <2>2. /\ pc' \in [Output -> Call \X Enc]
        /\ \A p \in Output : pc'[p][1] \in {"idle", "pair", "capturing"} => pc'[p][2] = "video"
    BY <1>1, <1>2, <1>3, <1>4, <1>5, <1>6, <1>7, <1>8
  <2> QED  BY <1>1, <1>2, <1>3, <1>4, <1>5, <1>6, <1>7, <1>8, <2>1, <2>2
<1>10. Owners'
  BY <1>1, <1>2, <1>3, <1>4, <1>5, <1>6, <1>7, <1>8 DEF Owners, Holding
<1>11. Codecs'
  BY <1>1, <1>2, <1>3, <1>4, <1>5, <1>6, <1>7, <1>8 DEF Fields, Owners, Codecs, Codec, Holding
<1>12. Connections'
  <2>1. ASSUME NEW x \in Enc, x # e PROVE Connection(x)'
    <3>1. init'[x] = init[x] /\ (init[x] # Free => init[x] # o)
      BY <1>1, <1>2, <1>3, <1>4, <1>5, <1>6, <1>7, <1>8, <2>1 DEF Owners, Holding
    <3>2. Changing(x)' = Changing(x)
      BY <1>1, <1>2, <1>3, <1>4, <1>5, <1>6, <1>7, <1>8, <2>1, <3>1 DEF Changing, Owners
    <3> QED  BY <1>1, <1>2, <1>3, <1>4, <1>5, <1>6, <1>7, <1>8, <2>1, <3>2 DEF Connections, Connection
  <2>2. Connection(e)'
    <3>1. /\ Changing(e) # "connect" /\ Changing(e) # "disconnect"
          /\ at[e][1] # "shutdown" /\ enc'[e] = r
      BY <1>1, <1>2, <1>3, <1>4, <1>5, <1>6, <1>7, <1>8 DEF Changing, Owners
    <3>2. /\ enc[e].active <=> enc[e].callbacks # <<>>
          /\ enc[e].connected <=> enc[e].active
      BY <1>1, <1>2, <1>3, <1>4, <1>5, <1>6, <1>7, <1>8, <3>1 DEF Connections, Connection
    <3>3. Changing(e)' = "connect"
      BY <1>1, <1>2, <1>3, <1>4, <1>5, <1>6, <1>7, <1>8 DEF Changing
    <3> QED  BY <1>1, <1>2, <1>3, <1>4, <1>5, <1>6, <1>7, <1>8, <3>1, <3>2, <3>3 DEF Connection
  <2> QED  BY <1>1, <1>2, <1>3, <1>4, <1>5, <1>6, <1>7, <1>8, <2>1, <2>2 DEF Connections
<1>13. Members'
  <2> SUFFICES ASSUME NEW x \in Enc PROVE Member(x)'
    BY DEF Members
  <2>1. \A p \in Output : p # o => pc'[p] = pc[p]
    BY <1>1, <1>2, <1>3, <1>4, <1>5, <1>6, <1>7, <1>8
  <2>2. /\ x # e => (pc[o] \in Pushed(x) <=> pc'[o] \in Pushed(x))
        /\ pc'[o] \in Awaits(x) => pc[o] \in Awaits(x)
        /\ pc'[o] \in Pushed(e)
    BY <1>1, <1>2, <1>3, <1>4, <1>5, <1>6, <1>7, <1>8 DEF Pushed, Awaits, Enc
  <2>3. x # e => enc'[x] = enc[x]
    BY <1>1, <1>2, <1>3, <1>4, <1>5, <1>6, <1>7, <1>8
  <2>4. enc'[e] = r /\ at[e][1] # "deliver"
    BY <1>1, <1>2, <1>3, <1>4, <1>5, <1>6, <1>7, <1>8 DEF Owners
  <2>5. Member(x)
    BY DEF IInv, Members
  <2>6. CASE x # e
    BY <1>1, <1>2, <1>3, <1>4, <1>5, <1>6, <1>7, <1>8, <2>1, <2>2, <2>3, <2>5, <2>6 DEF Member
  <2>7. CASE x = e
    <3>1. \A p \in Output : Contains(enc'[e].callbacks, p) => pc'[p] \in Pushed(e)
      BY <1>1, <1>2, <1>3, <1>4, <1>5, <1>6, <1>7, <1>8, <2>1, <2>2, <2>4, <2>5, <2>7 DEF Member
    <3>2. ASSUME e \notin failed, NEW p \in Output \ undercut
          PROVE  /\ pc'[p] \in Awaits(e) => enc'[e].data
                 /\ pc'[p] \in Pushed(e) => Contains(enc'[e].callbacks, p)
      BY <1>1, <1>2, <1>3, <1>4, <1>5, <1>6, <1>7, <1>8, <2>1, <2>2, <2>4, <2>5, <2>7, <3>2 DEF Member
    <3> QED  BY <1>1, <1>2, <1>3, <1>4, <1>5, <1>6, <1>7, <1>8, <2>4, <2>7, <3>1, <3>2 DEF Member
  <2> QED  BY <2>6, <2>7
<1> QED  BY <1>9, <1>10, <1>11, <1>12, <1>13 DEF IInv

LEMMA PushNextKeeps ==
  ASSUME IInv, NEW o \in Output, NEW e \in Enc, Push(o, e), enc[e].callbacks # <<>>
  PROVE  IInv'
<1> USE EncoderConstants DEF locks, IInv, Types, TypeOK, Place
<1> DEFINE s == IF Contains(enc[e].callbacks, o) THEN enc[e].callbacks ELSE Append(enc[e].callbacks, o)
           r == [enc[e] EXCEPT !.callbacks = s]
           c == IF e = "audio" THEN <<"start", "video">> ELSE <<"capturing", "video">>
<1>1. c \in Call \X Enc /\ (c[1] \in {"idle", "pair", "capturing"} => c[2] = "video")
  BY DEF Call, Enc
<1>2. enc[e] \in Fields /\ enc[e].callbacks \in Seq(Output) /\ IsInjective(enc[e].callbacks)
  BY DEF Fields
<1>3. /\ s \in Seq(Output) /\ IsInjective(s) /\ s # <<>> /\ Len(s) >= Len(enc[e].callbacks)
      /\ \A x \in Output : Contains(s, x) <=> Contains(enc[e].callbacks, x) \/ x = o
  <2>1. CASE Contains(enc[e].callbacks, o)
    BY <1>2, <2>1, SMTT(30) DEF Contains
  <2>2. CASE ~Contains(enc[e].callbacks, o)
    <3> DEFINE t == Append(enc[e].callbacks, o)
    <3>1. s = t
      BY <2>2
    <3>2. /\ t \in Seq(Output) /\ IsInjective(t) /\ t # <<>> /\ Len(t) > Len(enc[e].callbacks)
          /\ \A x \in Output : Contains(t, x) <=> Contains(enc[e].callbacks, x) \/ x = o
      BY <1>2, <2>2, PushAdds
    <3> HIDE DEF s, t
    <3>3. Len(enc[e].callbacks) \in Nat /\ Len(t) \in Nat
      BY <1>2, <3>2
    <3> QED  BY <3>1, <3>2, <3>3
  <2> QED  BY <2>1, <2>2
<1> HIDE DEF s
<1>4. /\ r \in Fields /\ r.callbacks = s /\ r.active = enc[e].active /\ r.data = enc[e].data
       /\ r.connected = enc[e].connected /\ r.initialized = enc[e].initialized
  <2>1. r \in Fields
    BY <1>2, <1>3, FieldSet
  <2> QED  BY <1>2, <1>3, <2>1 DEF Fields
<1>5. /\ Follower(<<"start", "audio">>) = <<"start", "video">>
      /\ Follower(<<"start", "video">>) = <<"capturing", "video">>
  BY Followers
<1>6. /\ pc[o] = <<"push", e>> /\ pc' = [pc EXCEPT ![o] = c] /\ cb[e] = Free
       /\ enc' = [enc EXCEPT ![e] = r] /\ init' = [init EXCEPT ![e] = Free]
       /\ UNCHANGED <<cb, input, at, undercut, failed>>
  BY <1>5 DEF Push, Return, Goto, Enc, s
<1>7. init[e] = o
  BY <1>6 DEF Owners, Holding
<1> HIDE DEF r
<1>8. \A p \in Output, x \in Enc :
        /\ p \in Between(x) <=> pc[p] \in Awaits(x)
        /\ p \in Between(x)' <=> pc'[p] \in Awaits(x)
  BY DEF Between, Awaits, Enc
<1>9. Types'
  <2>1. enc' \in [Enc -> Fields] /\ \A x \in Enc : IsInjective(enc[x].callbacks)'
    BY <1>1, <1>2, <1>3, <1>4, <1>5, <1>6, <1>7, <1>8 DEF Fields
  <2>2. /\ pc' \in [Output -> Call \X Enc]
        /\ \A p \in Output : pc'[p][1] \in {"idle", "pair", "capturing"} => pc'[p][2] = "video"
    BY <1>1, <1>2, <1>3, <1>4, <1>5, <1>6, <1>7, <1>8
  <2> QED  BY <1>1, <1>2, <1>3, <1>4, <1>5, <1>6, <1>7, <1>8, <2>1, <2>2
<1>10. Owners'
  BY <1>1, <1>2, <1>3, <1>4, <1>5, <1>6, <1>7, <1>8 DEF Owners, Holding
<1>11. Codecs'
  BY <1>1, <1>2, <1>3, <1>4, <1>5, <1>6, <1>7, <1>8, SMTT(30) DEF Fields, Owners, Codecs, Codec, Holding
<1>12. Connections'
  <2>1. ASSUME NEW x \in Enc, x # e PROVE Connection(x)'
    <3>1. init'[x] = init[x] /\ (init[x] # Free => init[x] # o)
      BY <1>1, <1>2, <1>3, <1>4, <1>5, <1>6, <1>7, <1>8, <2>1 DEF Owners, Holding
    <3>2. Changing(x)' = Changing(x)
      BY <1>1, <1>2, <1>3, <1>4, <1>5, <1>6, <1>7, <1>8, <2>1, <3>1 DEF Changing, Owners
    <3> QED  BY <1>1, <1>2, <1>3, <1>4, <1>5, <1>6, <1>7, <1>8, <2>1, <3>2 DEF Connections, Connection
  <2>2. Connection(e)'
    <3>1. /\ Changing(e) # "connect" /\ Changing(e) # "disconnect"
          /\ at[e][1] # "shutdown" /\ enc'[e] = r
      BY <1>1, <1>2, <1>3, <1>4, <1>5, <1>6, <1>7, <1>8 DEF Changing, Owners
    <3>2. /\ enc[e].active <=> enc[e].callbacks # <<>>
          /\ enc[e].connected <=> enc[e].active
      BY <1>1, <1>2, <1>3, <1>4, <1>5, <1>6, <1>7, <1>8, <3>1 DEF Connections, Connection
    <3>3. Changing(e)' = "no"
      BY <1>1, <1>2, <1>3, <1>4, <1>5, <1>6, <1>7, <1>8 DEF Changing
    <3> QED  BY <1>1, <1>2, <1>3, <1>4, <1>5, <1>6, <1>7, <1>8, <3>1, <3>2, <3>3 DEF Connection
  <2> QED  BY <1>1, <1>2, <1>3, <1>4, <1>5, <1>6, <1>7, <1>8, <2>1, <2>2 DEF Connections
<1>13. Members'
  <2> SUFFICES ASSUME NEW x \in Enc PROVE Member(x)'
    BY DEF Members
  <2>1. \A p \in Output : p # o => pc'[p] = pc[p]
    BY <1>1, <1>2, <1>3, <1>4, <1>5, <1>6, <1>7, <1>8
  <2>2. /\ x # e => (pc[o] \in Pushed(x) <=> pc'[o] \in Pushed(x))
        /\ pc'[o] \in Awaits(x) => pc[o] \in Awaits(x)
        /\ pc'[o] \in Pushed(e)
    BY <1>1, <1>2, <1>3, <1>4, <1>5, <1>6, <1>7, <1>8 DEF Pushed, Awaits, Enc
  <2>3. x # e => enc'[x] = enc[x]
    BY <1>1, <1>2, <1>3, <1>4, <1>5, <1>6, <1>7, <1>8
  <2>4. enc'[e] = r /\ at[e][1] # "deliver"
    BY <1>1, <1>2, <1>3, <1>4, <1>5, <1>6, <1>7, <1>8 DEF Owners
  <2>5. Member(x)
    BY DEF IInv, Members
  <2>6. CASE x # e
    BY <1>1, <1>2, <1>3, <1>4, <1>5, <1>6, <1>7, <1>8, <2>1, <2>2, <2>3, <2>5, <2>6 DEF Member
  <2>7. CASE x = e
    <3>1. \A p \in Output : Contains(enc'[e].callbacks, p) => pc'[p] \in Pushed(e)
      BY <1>1, <1>2, <1>3, <1>4, <1>5, <1>6, <1>7, <1>8, <2>1, <2>2, <2>4, <2>5, <2>7 DEF Member
    <3>2. ASSUME e \notin failed, NEW p \in Output \ undercut
          PROVE  /\ pc'[p] \in Awaits(e) => enc'[e].data
                 /\ pc'[p] \in Pushed(e) => Contains(enc'[e].callbacks, p)
      BY <1>1, <1>2, <1>3, <1>4, <1>5, <1>6, <1>7, <1>8, <2>1, <2>2, <2>4, <2>5, <2>7, <3>2 DEF Member
    <3> QED  BY <1>1, <1>2, <1>3, <1>4, <1>5, <1>6, <1>7, <1>8, <2>4, <2>7, <3>1, <3>2 DEF Member
  <2> QED  BY <2>6, <2>7
<1> QED  BY <1>9, <1>10, <1>11, <1>12, <1>13 DEF IInv

LEMMA EraseLastKeeps ==
  ASSUME IInv, NEW o \in Output, NEW e \in Enc, Erase(o, e), enc[e].callbacks = <<o>>
  PROVE  IInv'
<1> USE EncoderConstants DEF locks, IInv, Types, TypeOK, Place
<1> DEFINE s == Erased(enc[e].callbacks, o)
           r == [enc[e] EXCEPT !.callbacks = s]
           c == <<"disconnect", e>>
<1>1. c \in Call \X Enc /\ (c[1] \in {"idle", "pair", "capturing"} => c[2] = "video")
  BY DEF Call, Enc
<1>2. enc[e] \in Fields /\ enc[e].callbacks \in Seq(Output) /\ IsInjective(enc[e].callbacks)
  BY DEF Fields
<1>3. /\ s \in Seq(Output) /\ IsInjective(s)
      /\ s = <<>> <=> enc[e].callbacks = <<>> \/ enc[e].callbacks = <<o>>
      /\ \A x \in Output : Contains(s, x) <=> Contains(enc[e].callbacks, x) /\ x # o
  BY <1>2, EraseTakes
<1> HIDE DEF s
<1>4. /\ r \in Fields /\ r.callbacks = s /\ r.active = enc[e].active /\ r.data = enc[e].data
       /\ r.connected = enc[e].connected /\ r.initialized = enc[e].initialized
  <2>1. r \in Fields
    BY <1>2, <1>3, FieldSet
  <2> QED  BY <1>2, <1>3, <2>1 DEF Fields
<1>5. /\ Follower(<<"stop", "video">>) = <<"stop", "audio">>
      /\ Follower(<<"stop", "audio">>) = <<"idle", "video">>
  BY Followers
<1>6. /\ pc[o] = <<"erase", e>> /\ pc' = [pc EXCEPT ![o] = c] /\ cb[e] = Free
       /\ enc' = [enc EXCEPT ![e] = r] /\ init' = init
       /\ UNCHANGED <<cb, input, at, undercut, failed>>
  BY <1>5 DEF Erase, Return, Goto, Enc, s
<1>7. init[e] = o
  BY <1>6 DEF Owners, Holding
<1> HIDE DEF r
<1>8. \A p \in Output, x \in Enc :
        /\ p \in Between(x) <=> pc[p] \in Awaits(x)
        /\ p \in Between(x)' <=> pc'[p] \in Awaits(x)
  BY DEF Between, Awaits, Enc
<1>9. Types'
  <2>1. enc' \in [Enc -> Fields] /\ \A x \in Enc : IsInjective(enc[x].callbacks)'
    BY <1>1, <1>2, <1>3, <1>4, <1>5, <1>6, <1>7, <1>8 DEF Fields
  <2>2. /\ pc' \in [Output -> Call \X Enc]
        /\ \A p \in Output : pc'[p][1] \in {"idle", "pair", "capturing"} => pc'[p][2] = "video"
    BY <1>1, <1>2, <1>3, <1>4, <1>5, <1>6, <1>7, <1>8
  <2> QED  BY <1>1, <1>2, <1>3, <1>4, <1>5, <1>6, <1>7, <1>8, <2>1, <2>2
<1>10. Owners'
  BY <1>1, <1>2, <1>3, <1>4, <1>5, <1>6, <1>7, <1>8 DEF Owners, Holding
<1>11. Codecs'
  BY <1>1, <1>2, <1>3, <1>4, <1>5, <1>6, <1>7, <1>8 DEF Fields, Owners, Codecs, Codec, Holding
<1>12. Connections'
  <2>1. ASSUME NEW x \in Enc, x # e PROVE Connection(x)'
    <3>1. init'[x] = init[x] /\ (init[x] # Free => init[x] # o)
      BY <1>1, <1>2, <1>3, <1>4, <1>5, <1>6, <1>7, <1>8, <2>1 DEF Owners, Holding
    <3>2. Changing(x)' = Changing(x)
      BY <1>1, <1>2, <1>3, <1>4, <1>5, <1>6, <1>7, <1>8, <2>1, <3>1 DEF Changing, Owners
    <3> QED  BY <1>1, <1>2, <1>3, <1>4, <1>5, <1>6, <1>7, <1>8, <2>1, <3>2 DEF Connections, Connection
  <2>2. Connection(e)'
    <3>1. /\ Changing(e) # "connect" /\ Changing(e) # "disconnect"
          /\ at[e][1] # "shutdown" /\ enc'[e] = r
      BY <1>1, <1>2, <1>3, <1>4, <1>5, <1>6, <1>7, <1>8 DEF Changing, Owners
    <3>2. /\ enc[e].active <=> enc[e].callbacks # <<>>
          /\ enc[e].connected <=> enc[e].active
      BY <1>1, <1>2, <1>3, <1>4, <1>5, <1>6, <1>7, <1>8, <3>1 DEF Connections, Connection
    <3>3. Changing(e)' = "disconnect"
      BY <1>1, <1>2, <1>3, <1>4, <1>5, <1>6, <1>7, <1>8 DEF Changing
    <3> QED  BY <1>1, <1>2, <1>3, <1>4, <1>5, <1>6, <1>7, <1>8, <3>1, <3>2, <3>3 DEF Connection
  <2> QED  BY <1>1, <1>2, <1>3, <1>4, <1>5, <1>6, <1>7, <1>8, <2>1, <2>2 DEF Connections
<1>13. Members'
  <2> SUFFICES ASSUME NEW x \in Enc PROVE Member(x)'
    BY DEF Members
  <2>1. \A p \in Output : p # o => pc'[p] = pc[p]
    BY <1>1, <1>2, <1>3, <1>4, <1>5, <1>6, <1>7, <1>8
  <2>2. /\ x # e => (pc[o] \in Pushed(x) <=> pc'[o] \in Pushed(x))
        /\ pc'[o] \notin Awaits(x) /\ pc'[o] \notin Pushed(e)
    BY <1>1, <1>2, <1>3, <1>4, <1>5, <1>6, <1>7, <1>8 DEF Pushed, Awaits, Enc
  <2>3. x # e => enc'[x] = enc[x]
    BY <1>1, <1>2, <1>3, <1>4, <1>5, <1>6, <1>7, <1>8
  <2>4. enc'[e] = r /\ at[e][1] # "deliver"
    BY <1>1, <1>2, <1>3, <1>4, <1>5, <1>6, <1>7, <1>8 DEF Owners
  <2>5. Member(x)
    BY DEF IInv, Members
  <2>6. CASE x # e
    BY <1>1, <1>2, <1>3, <1>4, <1>5, <1>6, <1>7, <1>8, <2>1, <2>2, <2>3, <2>5, <2>6 DEF Member
  <2>7. CASE x = e
    <3>1. \A p \in Output : Contains(enc'[e].callbacks, p) => pc'[p] \in Pushed(e)
      BY <1>1, <1>2, <1>3, <1>4, <1>5, <1>6, <1>7, <1>8, <2>1, <2>2, <2>4, <2>5, <2>7 DEF Member
    <3>2. ASSUME e \notin failed, NEW p \in Output \ undercut
          PROVE  /\ pc'[p] \in Awaits(e) => enc'[e].data
                 /\ pc'[p] \in Pushed(e) => Contains(enc'[e].callbacks, p)
      BY <1>1, <1>2, <1>3, <1>4, <1>5, <1>6, <1>7, <1>8, <2>1, <2>2, <2>4, <2>5, <2>7, <3>2 DEF Member
    <3> QED  BY <1>1, <1>2, <1>3, <1>4, <1>5, <1>6, <1>7, <1>8, <2>4, <2>7, <3>1, <3>2 DEF Member
  <2> QED  BY <2>6, <2>7
<1> QED  BY <1>9, <1>10, <1>11, <1>12, <1>13 DEF IInv

LEMMA EraseOneKeeps ==
  ASSUME IInv, NEW o \in Output, NEW e \in Enc, Erase(o, e), enc[e].callbacks # <<o>>
  PROVE  IInv'
<1> USE EncoderConstants DEF locks, IInv, Types, TypeOK, Place
<1> DEFINE s == Erased(enc[e].callbacks, o)
           r == [enc[e] EXCEPT !.callbacks = s]
           c == IF e = "video" THEN <<"stop", "audio">> ELSE <<"idle", "video">>
<1>1. c \in Call \X Enc /\ (c[1] \in {"idle", "pair", "capturing"} => c[2] = "video")
  BY DEF Call, Enc
<1>2. enc[e] \in Fields /\ enc[e].callbacks \in Seq(Output) /\ IsInjective(enc[e].callbacks)
  BY DEF Fields
<1>3. /\ s \in Seq(Output) /\ IsInjective(s)
      /\ s = <<>> <=> enc[e].callbacks = <<>> \/ enc[e].callbacks = <<o>>
      /\ \A x \in Output : Contains(s, x) <=> Contains(enc[e].callbacks, x) /\ x # o
  BY <1>2, EraseTakes
<1> HIDE DEF s
<1>4. /\ r \in Fields /\ r.callbacks = s /\ r.active = enc[e].active /\ r.data = enc[e].data
       /\ r.connected = enc[e].connected /\ r.initialized = enc[e].initialized
  <2>1. r \in Fields
    BY <1>2, <1>3, FieldSet
  <2> QED  BY <1>2, <1>3, <2>1 DEF Fields
<1>5. /\ Follower(<<"stop", "video">>) = <<"stop", "audio">>
      /\ Follower(<<"stop", "audio">>) = <<"idle", "video">>
  BY Followers
<1>6. /\ pc[o] = <<"erase", e>> /\ pc' = [pc EXCEPT ![o] = c] /\ cb[e] = Free
       /\ enc' = [enc EXCEPT ![e] = r] /\ init' = [init EXCEPT ![e] = Free]
       /\ UNCHANGED <<cb, input, at, undercut, failed>>
  BY <1>5 DEF Erase, Return, Goto, Enc, s
<1>7. init[e] = o
  BY <1>6 DEF Owners, Holding
<1> HIDE DEF r
<1>8. \A p \in Output, x \in Enc :
        /\ p \in Between(x) <=> pc[p] \in Awaits(x)
        /\ p \in Between(x)' <=> pc'[p] \in Awaits(x)
  BY DEF Between, Awaits, Enc
<1>9. Types'
  <2>1. enc' \in [Enc -> Fields] /\ \A x \in Enc : IsInjective(enc[x].callbacks)'
    BY <1>1, <1>2, <1>3, <1>4, <1>5, <1>6, <1>7, <1>8 DEF Fields
  <2>2. /\ pc' \in [Output -> Call \X Enc]
        /\ \A p \in Output : pc'[p][1] \in {"idle", "pair", "capturing"} => pc'[p][2] = "video"
    BY <1>1, <1>2, <1>3, <1>4, <1>5, <1>6, <1>7, <1>8
  <2> QED  BY <1>1, <1>2, <1>3, <1>4, <1>5, <1>6, <1>7, <1>8, <2>1, <2>2
<1>10. Owners'
  BY <1>1, <1>2, <1>3, <1>4, <1>5, <1>6, <1>7, <1>8 DEF Owners, Holding
<1>11. Codecs'
  BY <1>1, <1>2, <1>3, <1>4, <1>5, <1>6, <1>7, <1>8 DEF Fields, Owners, Codecs, Codec, Holding
<1>12. Connections'
  <2>1. ASSUME NEW x \in Enc, x # e PROVE Connection(x)'
    <3>1. init'[x] = init[x] /\ (init[x] # Free => init[x] # o)
      BY <1>1, <1>2, <1>3, <1>4, <1>5, <1>6, <1>7, <1>8, <2>1 DEF Owners, Holding
    <3>2. Changing(x)' = Changing(x)
      BY <1>1, <1>2, <1>3, <1>4, <1>5, <1>6, <1>7, <1>8, <2>1, <3>1 DEF Changing, Owners
    <3> QED  BY <1>1, <1>2, <1>3, <1>4, <1>5, <1>6, <1>7, <1>8, <2>1, <3>2 DEF Connections, Connection
  <2>2. Connection(e)'
    <3>1. /\ Changing(e) # "connect" /\ Changing(e) # "disconnect"
          /\ at[e][1] # "shutdown" /\ enc'[e] = r
      BY <1>1, <1>2, <1>3, <1>4, <1>5, <1>6, <1>7, <1>8 DEF Changing, Owners
    <3>2. /\ enc[e].active <=> enc[e].callbacks # <<>>
          /\ enc[e].connected <=> enc[e].active
      BY <1>1, <1>2, <1>3, <1>4, <1>5, <1>6, <1>7, <1>8, <3>1 DEF Connections, Connection
    <3>3. Changing(e)' = "no"
      BY <1>1, <1>2, <1>3, <1>4, <1>5, <1>6, <1>7, <1>8 DEF Changing
    <3> QED  BY <1>1, <1>2, <1>3, <1>4, <1>5, <1>6, <1>7, <1>8, <3>1, <3>2, <3>3 DEF Connection
  <2> QED  BY <1>1, <1>2, <1>3, <1>4, <1>5, <1>6, <1>7, <1>8, <2>1, <2>2 DEF Connections
<1>13. Members'
  <2> SUFFICES ASSUME NEW x \in Enc PROVE Member(x)'
    BY DEF Members
  <2>1. \A p \in Output : p # o => pc'[p] = pc[p]
    BY <1>1, <1>2, <1>3, <1>4, <1>5, <1>6, <1>7, <1>8
  <2>2. /\ x # e => (pc[o] \in Pushed(x) <=> pc'[o] \in Pushed(x))
        /\ pc'[o] \notin Awaits(x) /\ pc'[o] \notin Pushed(e)
    BY <1>1, <1>2, <1>3, <1>4, <1>5, <1>6, <1>7, <1>8 DEF Pushed, Awaits, Enc
  <2>3. x # e => enc'[x] = enc[x]
    BY <1>1, <1>2, <1>3, <1>4, <1>5, <1>6, <1>7, <1>8
  <2>4. enc'[e] = r /\ at[e][1] # "deliver"
    BY <1>1, <1>2, <1>3, <1>4, <1>5, <1>6, <1>7, <1>8 DEF Owners
  <2>5. Member(x)
    BY DEF IInv, Members
  <2>6. CASE x # e
    BY <1>1, <1>2, <1>3, <1>4, <1>5, <1>6, <1>7, <1>8, <2>1, <2>2, <2>3, <2>5, <2>6 DEF Member
  <2>7. CASE x = e
    <3>1. \A p \in Output : Contains(enc'[e].callbacks, p) => pc'[p] \in Pushed(e)
      BY <1>1, <1>2, <1>3, <1>4, <1>5, <1>6, <1>7, <1>8, <2>1, <2>2, <2>4, <2>5, <2>7 DEF Member
    <3>2. ASSUME e \notin failed, NEW p \in Output \ undercut
          PROVE  /\ pc'[p] \in Awaits(e) => enc'[e].data
                 /\ pc'[p] \in Pushed(e) => Contains(enc'[e].callbacks, p)
      BY <1>1, <1>2, <1>3, <1>4, <1>5, <1>6, <1>7, <1>8, <2>1, <2>2, <2>4, <2>5, <2>7, <3>2 DEF Member
    <3> QED  BY <1>1, <1>2, <1>3, <1>4, <1>5, <1>6, <1>7, <1>8, <2>4, <2>7, <3>1, <3>2 DEF Member
  <2> QED  BY <2>6, <2>7
<1> QED  BY <1>9, <1>10, <1>11, <1>12, <1>13 DEF IInv


-----------------------------------------------------------------------------

LEMMA Inductive == IInv /\ [Next]_vars => IInv'
<1> SUFFICES ASSUME IInv, [Next]_vars PROVE IInv'
  OBVIOUS
<1>1. ASSUME NEW o \in Output, BeginCapture(o) \/ EndCapture(o) PROVE IInv'
  BY <1>1, BeginCaptureKeeps, EndCaptureKeeps
<1>2. ASSUME NEW o \in Output, OutputStep(o) PROVE IInv'
  <2>1. CASE PairEncoders(o)
    BY <2>1, PairEncodersKeeps
  <2>2. ASSUME NEW e \in Enc,
               \/ Initialize(o, e) \/ Start(o, e) \/ Push(o, e) \/ Connect(o, e) \/ Stop(o, e)
               \/ Erase(o, e) \/ Disconnect(o, e)
        PROVE  IInv'
    BY <2>2, InitializeKeeps, StartFindsKeeps, StartGivesUpKeeps, PushFirstKeeps, PushNextKeeps,
       ConnectKeeps, StopKeeps, EraseLastKeeps, EraseOneKeeps, DisconnectKeeps
  <2> QED  BY <1>2, <2>1, <2>2 DEF OutputStep
<1>3. ASSUME NEW e \in Enc, MediaStep(e) PROVE IInv'
  BY <1>3, ReceiveKeeps, WaitForOtherKeeps, ProceedKeeps, NextBufferedKeeps, NoneBufferedKeeps,
     EncodeDelayedKeeps, EncodePacketKeeps, EncodeFailsKeeps, LockCallbacksKeeps, DeliverKeeps,
     UnlockCallbacksKeeps, FullStopKeeps, FullStopShutdownKeeps DEF MediaStep
<1>4. CASE UNCHANGED vars
  <2> USE <1>4 DEF vars, locks
  <2>1. Types' /\ Owners'
    BY DEF IInv, Types, TypeOK, Owners
  <2>2. Codecs' /\ Connections'
    BY DEF IInv, Codecs, Codec, Connections, Connection, Changing
  <2>3. Members'
    BY DEF IInv, Members, Member, Between
  <2> QED  BY <2>1, <2>2, <2>3 DEF IInv
<1> QED  BY <1>1, <1>2, <1>3, <1>4 DEF Next

(* After obs_encoder_stop has returned no packet comes any more: who is in *)
(* the callbacks has not called stop, and while the callbacks are called   *)
(* their mutex keeps the list as it is.                                    *)
THEOREM QuietAfterStop == Spec => []NoPacketAfterStop
<1>1. IInv => NoPacketAfterStop
  <2> SUFFICES ASSUME IInv, NEW e \in Enc, at[e][1] = "deliver", at[e][2] > 0
               PROVE  /\ at[e][2] \in DOMAIN enc[e].callbacks
                      /\ ~NoUse(enc[e].callbacks[at[e][2]], e)
    BY DEF NoPacketAfterStop
  <2> DEFINE s == enc[e].callbacks
             o == s[at[e][2]]
  <2>1. s \in Seq(Output) /\ at[e][2] \in Nat
    BY DEF IInv, Types, TypeOK, Fields
  <2>2. at[e][2] \in 1..Len(s)
    BY <2>1 DEF IInv, Members, Member
  <2>3. o \in Output /\ Contains(s, o) /\ at[e][2] \in DOMAIN s
    BY <2>1, <2>2 DEF Contains
  <2>4. pc[o] \in Pushed(e)
    BY <2>3 DEF IInv, Members, Member
  <2>5. ~NoUse(o, e)
    BY <2>4 DEF Pushed, NoUse, Enc
  <2> QED  BY <2>3, <2>5
<1> QED  BY <1>1, InitInv, Inductive, PTL DEF Spec

(* The codec is not destroyed under the thread that encodes with it: the   *)
(* only encodings without a codec are those of the call of receive_audio   *)
(* in which an encoding failed, and an encoder that failed is never fed or *)
(* given a codec again.  An encoder that nobody is changing is connected,  *)
(* active and has a codec exactly as its callbacks say.                    *)
THEOREM CodecOutlivesUse == Spec => []CodecAlive
<1>1. IInv => CodecAlive
  <2> SUFFICES ASSUME IInv PROVE CodecAlive
    OBVIOUS
  <2> USE DEF IInv
  <2>1. \A e \in Enc : at[e][1] \in {"encode", "packet"} => enc[e].data \/ LoopsAfterError(e)
    <3>1. SUFFICES ASSUME NEW e \in Enc, at[e][1] \in {"encode", "packet"}
                   PROVE  enc[e].data \/ LoopsAfterError(e)
      OBVIOUS
    <3>2. Codec(e)
      BY DEF Codecs
    <3> QED  BY <3>1, <3>2 DEF Codec, LoopsAfterError, Enc
  <2>2. \A e \in Enc : e \in failed /\ at[e][1] = "wait" => ~enc[e].connected /\ ~enc[e].data
    BY DEF Codecs, Codec, Types, TypeOK
  <2>3. ASSUME NEW e \in Enc, init[e] = Free, at[e][1] # "shutdown"
        PROVE  /\ enc[e].active <=> enc[e].callbacks # <<>>
               /\ enc[e].connected <=> enc[e].active
               /\ enc[e].active => enc[e].data
               /\ enc[e].initialized /\ e \notin failed => enc[e].data
    <3>1. Codec(e) /\ Connection(e) /\ Changing(e) = "no"
      BY <2>3 DEF Codecs, Connections, Changing
    <3> QED  BY <2>3, <3>1 DEF Codec, Connection
  <2> QED  BY <2>1, <2>2, <2>3 DEF CodecAlive, Types
<1> QED  BY <1>1, InitInv, Inductive, PTL DEF Spec

(* A capture that has begun is fed with both media, unless an encoder was  *)
(* shut down or failed between its being initialized and started.          *)
THEOREM EachCaptureIsFed == Spec => []CaptureIsFed
<1>1. IInv => CaptureIsFed
  <2> SUFFICES ASSUME IInv, NEW o \in Output, NEW e \in Enc,
                      pc[o][1] = "capturing", o \notin undercut, e \notin failed
               PROVE  Contains(enc[e].callbacks, o)
    BY DEF CaptureIsFed
  <2>1. pc[o] = <<"capturing", "video">>
    BY DEF IInv, Types
  <2>2. pc[o] \in Pushed(e)
    BY <2>1 DEF Pushed
  <2> QED  BY <2>2 DEF IInv, Members, Member
<1> QED  BY <1>1, InitInv, Inductive, PTL DEF Spec
=============================================================================
