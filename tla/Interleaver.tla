----------------------------- MODULE Interleaver -----------------------------
(***************************************************************************)
(* The interleaving of one output's encoded packets (obs-output.c): two    *)
(* encoder threads call interleave_packets, which queues the packets by    *)
(* timestamp, decides where the stream starts and hands them to the output *)
(* plugin one at a time.  The encoders are shared by all outputs and keep  *)
(* running while this output is hooked to them and unhooked, so a capture  *)
(* may begin at any point of the two streams.                              *)
(*                                                                         *)
(* The streamer gives every output one audio track, so audio[0] is the     *)
(* only one here.  Times are ticks of one clock: both encoders count from  *)
(* the same moment (they are paired, obs-output.c:1400), dts is the time   *)
(* since then and a packet's first dts_usec is dts on the system's clock.  *)
(***************************************************************************)
EXTENDS Integers, Sequences, SequencesExt

CONSTANTS
  Period,       \* ticks from a packet to the next one of its type
  Ahead,        \* how far a type's packets may arrive ahead of the other's
  Epoch,        \* the system's clock when the encoders started
  KeyGap,       \* ticks from a keyframe to the next one, at least
  Joins,        \* where the encoders may be when the first capture begins
  EndTime,      \* bound: no packet is encoded past this dts
  MaxCaptures   \* bound: captures begun

Type == {"audio", "video"}
Opposing == [audio |-> "video", video |-> "audio"]

ASSUME PeriodAssumption == Period \in [Type -> Nat \ {0}]
ASSUME TimeAssumption == /\ Epoch \in Nat \ {0} /\ Ahead \in [Type -> Nat]
                         /\ KeyGap \in Nat /\ EndTime \in Nat /\ MaxCaptures \in Nat
ASSUME JoinsAssumption ==
  Joins \subseteq {c \in [Type -> Nat] :
                  \A t \in Type : c[t] <= c[Opposing[t]] + Ahead[t] + Period[t]}

VARIABLES
  clock,      \* the dts of the next packet each encoder makes
  lastKey,    \* the dts of the video encoder's last keyframe
  hooked,     \* how far hook_data_capture or obs_output_end_data_capture is
  sentFirst,  \* sent_first_packet of the output's callback in the video encoder
  output,     \* the fields of obs_output interleave_packets works on
  stopped,    \* output->stopped
  sent,       \* history: what the plugin was handed in this capture
  seen,       \* history: of this capture, the first audio and the last key frame
              \* passed, and whether video was passed before the audio up to it
  captures    \* bound: captures begun so far

vars == << clock, lastKey, hooked, sentFirst, output, stopped, sent, seen, captures >>

(* reset_packet_data; received holds the types whose received_ flag is set *)
Empty == [received |-> {}, offset |-> [t \in Type |-> 0],
          highest |-> [t \in Type |-> 0], packets |-> << >>]

None == -1
Unseen == [audioFrom |-> None, lastKey |-> None, behind |-> FALSE]

Packet(t, key) == [type |-> t, keyframe |-> key, dts |-> clock[t], ts |-> Epoch + clock[t]]

(* The types whose encoder has a callback of this output.                  *)
Connected == CASE hooked = "none" -> {}
               [] hooked \in {"audio", "ending"} -> {"audio"}
               [] hooked = "both" -> Type

Init ==
  /\ clock \in Joins
  /\ lastKey = -KeyGap
  /\ hooked = "none" /\ sentFirst = FALSE
  /\ output = Empty /\ stopped = FALSE
  /\ sent = << >> /\ seen = Unseen /\ captures = 0

-----------------------------------------------------------------------------
(* The helpers of interleave_packets, each from the fields before to the   *)
(* fields after.                                                           *)

FirstOf(o, t) == SelectInSeq(o.packets, LAMBDA p : p.type = t)

Has(o, t) == FirstOf(o, t) # 0
First(o, t) == o.packets[FirstOf(o, t)]

apply_interleaved_packet_offset(o, p) ==
  LET dts == p.dts - o.offset[p.type]
  IN  [p EXCEPT !.dts = dts, !.ts = dts]

(* insert_interleaved_packet: behind the packets of the same time.         *)
insert_interleaved_packet(packets, p) ==
  LET later == SelectInSeq(packets, LAMBDA q : p.ts < q.ts)
  IN  InsertAt(packets, IF later = 0 THEN Len(packets) + 1 ELSE later, p)

(* (mutant) The offsets change the order and nobody sorts.              *)
resort_nothing(packets) == packets
resort_interleaved_packets(packets) ==
  LET sorted[n \in 0..Len(packets)] ==
        IF n = 0 THEN << >> ELSE insert_interleaved_packet(sorted[n - 1], packets[n])
  IN  sorted[Len(packets)]

set_higher_ts(o, p) ==
  IF o.highest[p.type] < p.ts THEN [o EXCEPT !.highest[p.type] = p.ts] ELSE o

discard_to_idx(o, n) == [o EXCEPT !.packets = SubSeq(@, n + 1, Len(@))]

discard_unused_audio_packets(o, ts) ==
  LET kept == SelectInSeq(o.packets, LAMBDA p : p.ts >= ts)
  IN  discard_to_idx(o, IF kept = 0 THEN Len(o.packets) ELSE kept - 1)

(* (mutant) The stream starts with whatever is queued.                  *)
FromTheFront(o) == 0

(* The number of packets before the first video packet and before the      *)
(* audio packet closest to it, whichever comes first.                      *)
get_interleaved_start_idx(o) ==
  LET video == FirstOf(o, "video")
      Far(i) == IF o.packets[i].ts < First(o, "video").ts
                THEN First(o, "video").ts - o.packets[i].ts
                ELSE o.packets[i].ts - First(o, "video").ts
      Audio == {i \in DOMAIN o.packets : o.packets[i].type = "audio"}
      closest == CHOOSE i \in Audio :
                   /\ \A j \in Audio : Far(i) <= Far(j)
                   /\ \A j \in Audio : Far(i) = Far(j) => i <= j
  IN  IF video < closest THEN video - 1 ELSE closest - 1

(* (mutant) Audio before the video counts as premature too.             *)
ApartAtAll(o) ==
  \/ First(o, "audio").ts - First(o, "video").ts > Period["video"]
  \/ First(o, "video").ts - First(o, "audio").ts > Period["video"]

(* prune_premature_packets: the audio starts more than a frame after it.   *)
Premature(o) == First(o, "audio").ts - First(o, "video").ts > Period["video"]

MaxIdx(o) == IF FirstOf(o, "audio") > FirstOf(o, "video")
             THEN FirstOf(o, "audio") ELSE FirstOf(o, "video")

prune_interleaved_packets(o) ==
  IF Premature(o) THEN discard_to_idx(o, MaxIdx(o))
                  ELSE discard_to_idx(o, get_interleaved_start_idx(o))

(* A type none of whose packets is queued counts as not received.          *)
Missing(o) == {t \in Type : ~Has(o, t)}
ForgetMissing(o) == [o EXCEPT !.received = @ \ Missing(o)]

initialize_interleaved_packets(o) ==
  LET starts == [o EXCEPT
        !.offset = [t \in Type |-> First(o, t).dts],
        !.highest = [t \in Type |-> o.highest[t] - First(o, t).ts]]
      Shifted(p) == apply_interleaved_packet_offset(starts, p)
  IN  [starts EXCEPT
        !.packets = resort_interleaved_packets([i \in DOMAIN o.packets |-> Shifted(o.packets[i])])]

has_higher_opposing_ts(o, p) == o.highest[Opposing[p.type]] > p.ts

(* send_interleaved: at most the packet at the head is handed over.        *)
Sends(o) == has_higher_opposing_ts(o, Head(o.packets))

-----------------------------------------------------------------------------
(* What becomes of the fields when the stream has not started: it starts   *)
(* when both types are there and still are once the premature are gone.    *)

Pruned(o) == IF Missing(o) # {} THEN o ELSE prune_interleaved_packets(o)

Started(o) == o.received = Type

TryStart(o) ==
  IF Missing(Pruned(o)) = {} THEN initialize_interleaved_packets(Pruned(o))
                             ELSE ForgetMissing(Pruned(o))

Queued(o, p) ==
  LET got == IF Started(o) THEN o ELSE [o EXCEPT !.received = @ \cup {p.type}]
      out == IF Started(o) THEN apply_interleaved_packet_offset(o, p) ELSE p
  IN  set_higher_ts([got EXCEPT !.packets = insert_interleaved_packet(@, out)], out)

(* interleave_packets: the whole handler, under interleaved_mutex.         *)
interleave_packets(p) ==
  LET o == Queued(output, p)
      ready == IF Started(output) \/ ~Started(o) THEN o ELSE TryStart(o)
      waits == ~Started(ready) \/ ~Sends(ready)
  IN  IF p.type = "video" /\ "video" \notin output.received /\ ~p.keyframe
      THEN /\ output' = discard_unused_audio_packets(output, p.ts)
           /\ UNCHANGED sent
      ELSE IF waits THEN output' = ready /\ UNCHANGED sent
      ELSE /\ output' = [ready EXCEPT !.packets = Tail(@)]
           /\ sent' = IF stopped THEN sent ELSE Append(sent, Head(ready.packets))

-----------------------------------------------------------------------------
(* An encoder makes its next packet and passes it to the output's callback *)
(* (do_encode, send_packet).  The callback of the video encoder gets       *)
(* nothing before its first keyframe.                                      *)
Passes(t, key) == t \in Connected /\ (t = "video" => sentFirst \/ key)

Seen(t, key) ==
  CASE t = "audio" /\ seen.audioFrom = None -> [seen EXCEPT !.audioFrom = clock[t]]
    [] t = "video" -> [seen EXCEPT !.lastKey = IF key THEN clock[t] ELSE @,
                                   !.behind = @ \/ clock[t] > clock["audio"]]
    [] OTHER -> seen

Encode(t, key) ==
  /\ clock[t] <= EndTime
  /\ clock[t] <= clock[Opposing[t]] + Ahead[t]
  /\ key => t = "video" /\ clock[t] >= lastKey + KeyGap
  /\ lastKey' = IF key THEN clock[t] ELSE lastKey
  /\ clock' = [clock EXCEPT ![t] = @ + Period[t]]
  /\ sentFirst' = (sentFirst \/ (t = "video" /\ Passes(t, key)))
  /\ IF Passes(t, key) THEN interleave_packets(Packet(t, key)) /\ seen' = Seen(t, key)
                       ELSE UNCHANGED << output, sent, seen >>
  /\ UNCHANGED << hooked, stopped, captures >>

(* (mutant) The fields of the last capture are kept.                    *)
HookAudioOnly ==
  /\ hooked = "none" /\ captures < MaxCaptures
  /\ hooked' = "audio" /\ captures' = captures + 1
  /\ stopped' = FALSE /\ sent' = << >> /\ seen' = Unseen
  /\ UNCHANGED << clock, lastKey, sentFirst, output >>

(* hook_data_capture: the fields are reset and the audio encoder starts    *)
(* to call, then the video encoder.                                        *)
HookAudio ==
  /\ hooked = "none" /\ captures < MaxCaptures
  /\ hooked' = "audio" /\ captures' = captures + 1
  /\ output' = Empty /\ stopped' = FALSE /\ sent' = << >> /\ seen' = Unseen
  /\ UNCHANGED << clock, lastKey, sentFirst >>

HookVideo ==
  /\ hooked = "audio"
  /\ hooked' = "both" /\ sentFirst' = FALSE
  /\ UNCHANGED << clock, lastKey, output, stopped, sent, seen, captures >>

(* obs_output_actual_stop: packets are no longer handed to the plugin.     *)
Stop ==
  /\ hooked = "both" /\ ~stopped
  /\ stopped' = TRUE
  /\ UNCHANGED << clock, lastKey, hooked, sentFirst, output, sent, seen, captures >>

(* obs_output_end_data_capture: because of a stop or of a lost connection. *)
UnhookVideo ==
  /\ hooked = "both"
  /\ hooked' = "ending"
  /\ UNCHANGED << clock, lastKey, sentFirst, output, stopped, sent, seen, captures >>

UnhookAudio ==
  /\ hooked = "ending"
  /\ hooked' = "none"
  /\ UNCHANGED << clock, lastKey, sentFirst, output, stopped, sent, seen, captures >>

Next == \/ \E t \in Type, key \in BOOLEAN : Encode(t, key)
        \/ HookAudio \/ HookVideo \/ Stop \/ UnhookVideo \/ UnhookAudio

Spec == Init /\ [][Next]_vars

-----------------------------------------------------------------------------
(* Of the first n packets sent, none is of type t.                         *)
NoneSent(t, n) == \A i \in 1..n : sent[i].type # t

(* What follows the first n packets sent is, for type t, at time ts.       *)
Follows(t, n, ts) ==
  \/ NoneSent(t, n) /\ ts = 0
  \/ \E i \in 1..n : /\ sent[i].type = t /\ ts = sent[i].ts + Period[t]
                     /\ \A j \in i + 1..n : sent[j].type # t

PacketType == [type : Type, keyframe : BOOLEAN, dts : Nat, ts : Nat]

(* No field leaves its type; above all no dts turns negative when the      *)
(* offsets of the streams are subtracted (apply_interleaved_packet_offset).*)
TypeOK ==
  /\ clock \in [Type -> Nat] /\ lastKey \in Int
  /\ hooked \in {"none", "audio", "both", "ending"}
  /\ sentFirst \in BOOLEAN /\ stopped \in BOOLEAN
  /\ output.received \subseteq Type
  /\ output.offset \in [Type -> Nat] /\ output.highest \in [Type -> Nat]
  /\ \A i \in DOMAIN output.packets : output.packets[i] \in PacketType
  /\ \A i \in DOMAIN sent : sent[i] \in PacketType
  /\ captures \in 0..MaxCaptures

(* The comment in send_interleaved: packets wait for a later one of the    *)
(* opposing type so that the timestamps handed over are monotonic, across  *)
(* both streams and whatever the order the encoder threads call in.        *)
SentInOrder ==
  /\ TypeOK
  /\ \A i \in 1..(Len(sent) - 1) : sent[i].ts <= sent[i + 1].ts

(* The comment in apply_interleaved_packet_offset: audio and video start   *)
(* at timestamp 0.  From there neither stream skips or repeats a packet,   *)
(* though some were discarded and others queued before the start was known.*)
WholeFromZero == \A i \in DOMAIN sent : Follows(sent[i].type, i - 1, sent[i].ts)

Shift == output.offset["video"] - output.offset["audio"]
WithinAPacket == -Period["video"] <= Shift /\ Shift <= Period["audio"]

(* The comment in interleave_packets: a video stream starts with a         *)
(* keyframe, also when its first keyframe was discarded as premature.  And *)
(* the two packets that start the stream, both given timestamp 0, were     *)
(* made within one packet of each other.  Holds if no video was passed     *)
(* before the audio up to it.                                              *)
StartsInSync ==
  ~seen.behind =>
    /\ \A i \in DOMAIN sent :
         sent[i].type = "video" /\ NoneSent("video", i - 1) => sent[i].keyframe
    /\ Started(output) => WithinAPacket

(* A capture does not wait for ever: once a keyframe made after the first  *)
(* audio packet was passed, and the audio up to it, the stream has started.*)
(* Needs keyframes further apart than the audio leads, else each discards  *)
(* the audio of the next.                                                  *)
StartsByKeyframe ==
  /\ hooked = "both" /\ ~seen.behind
  /\ seen.audioFrom # None /\ seen.lastKey >= seen.audioFrom
  /\ clock["audio"] > seen.lastKey + Period["audio"]
  => Started(output)
=============================================================================
