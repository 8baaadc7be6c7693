-------------------------- MODULE InterleaverProofs --------------------------
(***************************************************************************)
(* Theorems about the interleaving of an output's packets, for any periods *)
(* of the two encoders and any lead of one over the other.                 *)
(***************************************************************************)
EXTENDS MCInterleaver, SequenceTheorems, WellFoundedInduction, TLAPS

-----------------------------------------------------------------------------
(* A queue q of packets whose times are their dts plus e.                  *)

IsFirst(q, i) == \A j \in 1..i - 1 : q[j].type # q[i].type
Absent(q, t) == \A i \in 1..Len(q) : q[i].type # t

Stamped(q, e) == \A i \in 1..Len(q) : q[i].ts = q[i].dts + e
Sorted(q) == \A i, j \in 1..Len(q) : i < j => q[i].ts <= q[j].ts

(* The packets of a type are a period apart, and none is missing.          *)
Spaced(q) == \A i, j \in 1..Len(q) :
  i < j /\ q[i].type = q[j].type => q[i].dts + Period[q[i].type] <= q[j].dts
Whole(q) == \A j \in 1..Len(q) :
  \/ IsFirst(q, j)
  \/ \E i \in 1..j - 1 : q[i].type = q[j].type /\ q[j].dts = q[i].dts + Period[q[j].type]

(* The packets of type t go up to, but not including, the one at d.        *)
Reaches(q, t, d) ==
  \/ Absent(q, t)
  \/ \E i \in 1..Len(q) : /\ q[i].type = t /\ q[i].dts + Period[t] = d
                          /\ \A j \in i + 1..Len(q) : q[j].type # t

Queue(q, e) == q \in Seq(PacketType) /\ Stamped(q, e) /\ Sorted(q) /\ Spaced(q) /\ Whole(q)

-----------------------------------------------------------------------------
(* What follows the first n packets of s is, for type t, at time ts.       *)
Comes(s, t, n, ts) ==
  \/ (\A i \in 1..n : s[i].type # t) /\ ts = 0
  \/ \E i \in 1..n : /\ s[i].type = t /\ ts = s[i].ts + Period[t]
                     /\ \A j \in i + 1..n : s[j].type # t

Fields == [received : SUBSET Type, offset : [Type -> Nat], highest : [Type -> Nat],
           packets : Seq(PacketType)]

(* The fields o while the next packet of t will have the dts c[t]: the     *)
(* queue is in order and no packet is missing in it, up to the next one of *)
(* each type of T.                                                         *)
Kept(o, c, T, e) ==
  /\ o \in Fields
  /\ Queue(o.packets, e)
  /\ \A t \in T : Reaches(o.packets, t, c[t] - o.offset[t])
  /\ \A i \in 1..Len(o.packets) : o.packets[i].ts <= o.highest[o.packets[i].type]

(* Before the start, and from it: highest is the time of a packet made.    *)
Filling(o, c, T) ==
  /\ Kept(o, c, T, Epoch)
  /\ \A t \in Type : /\ o.offset[t] = 0
                     /\ o.highest[t] = 0 \/ o.highest[t] + Period[t] <= Epoch + c[t]
Running(o, c, T) ==
  /\ Kept(o, c, T, 0)
  /\ \A t \in Type : o.highest[t] + Period[t] <= c[t] - o.offset[t]

Buffer(o, c, T) ==
  IF Started(o) THEN Running(o, c, T)
  ELSE /\ Filling(o, c, T)
       /\ \A t \in Type \ o.received : Absent(o.packets, t)

(* What is queued or still to come follows s, which was sent.              *)
Continues(o, c, T, s) ==
  Started(o) =>
    /\ s # << >> =>
         /\ \A i \in 1..Len(o.packets) : s[Len(s)].ts <= o.packets[i].ts
         /\ \A t \in T : s[Len(s)].ts <= c[t] - o.offset[t]
    /\ \A i \in 1..Len(o.packets) :
         IsFirst(o.packets, i) => Comes(s, o.packets[i].type, Len(s), o.packets[i].ts)
    /\ \A t \in T : Absent(o.packets, t) => Comes(s, t, Len(s), c[t] - o.offset[t])

Types ==
  /\ TypeOK
  /\ sent \in Seq(PacketType)
  /\ seen \in [audioFrom : Nat \cup {None}, lastKey : Nat \cup {None}, behind : BOOLEAN]

Queues ==
  /\ Buffer(output, clock, Connected)
  /\ hooked = "audio" \/ (hooked = "both" /\ ~sentFirst) => "video" \notin output.received

Sent ==
  /\ SentInOrder /\ WholeFromZero
  /\ ~Started(output) => sent = << >>
  /\ ~stopped => Continues(output, clock, Connected, sent)

IInv == Types /\ Queues /\ Sent

-----------------------------------------------------------------------------
(* Where the stream starts.  The first video packet is a keyframe, of the  *)
(* queue and of what was sent.                                             *)
Keyed(q) == \A i \in 1..Len(q) : q[i].type = "video" /\ IsFirst(q, i) => q[i].keyframe

Near(o) == Started(o) =>
  LET shift == o.offset["video"] - o.offset["audio"]
  IN  -Period["video"] <= shift /\ shift <= Period["audio"]

(* Until the start, with no video passed before the audio up to it, the    *)
(* queue holds no video without the audio up to it.                        *)
Led(o, c) == \A i \in 1..Len(o.packets) : o.packets[i].type = "video" => o.packets[i].dts <= c["audio"]

Startable(o, c) == ~Started(o) =>
  /\ Led(o, c) /\ Keyed(o.packets)
  /\ Absent(o.packets, "video") => "video" \notin o.received

(* The video sent first was or will be a keyframe.                         *)
Begun(o, s) == Started(o) /\ Absent(s, "video") =>
  ~Absent(o.packets, "video") /\ Keyed(o.packets)

Sync ==
  ~seen.behind =>
    /\ Keyed(sent) /\ Near(output) /\ Startable(output, clock)
    /\ ~stopped => Begun(output, sent)

-----------------------------------------------------------------------------
(* When the stream starts.  The first audio packet a keyframe can be       *)
(* paired with:                                                            *)
NextAudio(o, c) == IF Absent(o.packets, "audio") THEN c["audio"] ELSE First(o, "audio").dts

(* Until the start, from is the dts of the first audio packet passed and   *)
(* key that of the last keyframe.  Waiting video starts with key, and the  *)
(* audio is not yet far beyond it; without waiting video, key was          *)
(* discarded as premature, and audio that comes next is early enough for   *)
(* the next keyframe, unless it is the first of all.                       *)
Paired(o, c, from, key) == ~Started(o) =>
  /\ from = None => Absent(o.packets, "audio") /\ (Absent(o.packets, "video") => key = None)
  /\ from # None =>
       /\ from < c["audio"]
       /\ \/ NextAudio(o, c) = from
          \/ NextAudio(o, c) + Period["video"] < c["video"] + Period["audio"]
          \/ key # None /\ NextAudio(o, c) <= key + Ahead["audio"] + 2 * Period["audio"]
       /\ Absent(o.packets, "video") => key < from
  /\ ~Absent(o.packets, "video") =>
       /\ key # None /\ First(o, "video").dts = key
       /\ c["audio"] <= key + Ahead["audio"] + Period["audio"]
       /\ from # None => c["audio"] <= key + Period["video"] /\ c["audio"] <= key + Period["audio"]

Keys ==
  /\ clock["audio"] <= clock["video"] + Ahead["audio"] + Period["audio"]
  /\ lastKey < clock["video"]
  /\ seen.lastKey = None \/ seen.lastKey <= lastKey
  /\ hooked # "none" /\ ~seen.behind => Paired(output, clock, seen.audioFrom, seen.lastKey)

-----------------------------------------------------------------------------
(* Sets of numbers and the first packet with a property.                   *)

LEMMA LeastIs ==
  ASSUME NEW S \in SUBSET Nat, S # {}
  PROVE  Min(S) \in S /\ \A n \in S : Min(S) <= n
<1>1. PICK m \in S : \A n \in S : ~(<<n, m>> \in OpToRel(<, Nat))
  BY NatLessThanWellFounded, WFMin
<1>2. \A n \in S : m <= n
  <2>1. TAKE n \in S
  <2>2. ~(n < m)
    BY <1>1 DEF OpToRel
  <2> QED  BY <2>2
<1> QED  BY <1>1, <1>2 DEF Min

LEMMA FirstIs ==
  ASSUME NEW o, o.packets \in Seq(PacketType), NEW t
  PROVE  /\ Absent(o.packets, t) => FirstOf(o, t) = 0
         /\ ~Absent(o.packets, t) => /\ FirstOf(o, t) \in 1..Len(o.packets)
                                     /\ o.packets[FirstOf(o, t)].type = t
                                     /\ IsFirst(o.packets, FirstOf(o, t))
         /\ Has(o, t) <=> ~Absent(o.packets, t)
<1> DEFINE q == o.packets
           I == {i \in 1..Len(q) : q[i].type = t}
<1>1. Len(q) \in Nat /\ I \subseteq Nat
  OBVIOUS
<1>2. FirstOf(o, t) = IF I # {} THEN Min(I) ELSE 0
  BY DEF FirstOf, SelectInSeq
<1>3. CASE I = {}
  BY <1>2, <1>3 DEF Absent, Has
<1>4. CASE I # {}
  <2>1. Min(I) \in I /\ \A n \in I : Min(I) <= n
    BY <1>1, <1>4, LeastIs
  <2>2. ~Absent(q, t) /\ Min(I) \in 1..Len(q) /\ q[Min(I)].type = t
    BY <2>1 DEF Absent
  <2>3. ASSUME NEW j \in 1..Min(I) - 1
        PROVE  q[j].type # t
    <3>1. j \in 1..Len(q) /\ j < Min(I)
      BY <1>1, <2>2
    <3> QED  BY <2>1, <2>2, <3>1
  <2>4. FirstOf(o, t) = Min(I)
    BY <1>2, <1>4
  <2> HIDE DEF I
  <2>5. Min(I) # 0 /\ IsFirst(q, Min(I))
    BY <1>1, <2>2, <2>3 DEF IsFirst
  <2> QED  BY <2>2, <2>4, <2>5 DEF Has
<1> QED  BY <1>3, <1>4

(* There is one first packet of a type.                                    *)
LEMMA FirstUnique ==
  ASSUME NEW o, o.packets \in Seq(PacketType), NEW i \in 1..Len(o.packets), IsFirst(o.packets, i)
  PROVE  FirstOf(o, o.packets[i].type) = i
<1> DEFINE q == o.packets
           f == FirstOf(o, q[i].type)
<1>1. f \in 1..Len(q) /\ q[f].type = q[i].type /\ IsFirst(q, f)
  BY FirstIs DEF Absent
<1>2. Len(q) \in Nat
  OBVIOUS
<1> HIDE DEF f
<1>3. ~(f < i) /\ ~(i < f)
  BY <1>1, <1>2 DEF IsFirst
<1> QED  BY <1>1, <1>2, <1>3 DEF f

-----------------------------------------------------------------------------
(* insert_interleaved_packet                                               *)

(* r is q with p put in at place k, behind the packets of its time.        *)
Inserted(q, r, p, k) ==
  /\ k \in 1..Len(q) + 1 /\ r \in Seq(PacketType) /\ Len(r) = Len(q) + 1
  /\ \A i \in 1..k - 1 : r[i] = q[i] /\ q[i].ts <= p.ts
  /\ r[k] = p
  /\ \A i \in k..Len(q) : r[i + 1] = q[i] /\ p.ts < q[i].ts

LEMMA InsertIs ==
  ASSUME NEW q \in Seq(PacketType), Sorted(q), NEW p \in PacketType
  PROVE  \E k \in 1..Len(q) + 1 : Inserted(q, insert_interleaved_packet(q, p), p, k)
<1> DEFINE I == {i \in 1..Len(q) : p.ts < q[i].ts}
           k == IF I = {} THEN Len(q) + 1 ELSE Min(I)
           r == insert_interleaved_packet(q, p)
<1>1. Len(q) \in Nat /\ I \subseteq Nat /\ p.ts \in Nat /\ \A i \in 1..Len(q) : q[i].ts \in Nat
  <2>1. \A i \in 1..Len(q) : q[i] \in PacketType
    OBVIOUS
  <2> QED  BY <2>1 DEF PacketType
<1>2. /\ k \in 1..Len(q) + 1
      /\ \A i \in 1..Len(q) : i < k => ~(p.ts < q[i].ts)
      /\ k \in 1..Len(q) => p.ts < q[k].ts
  <2>1. CASE I = {}
    BY <1>1, <2>1
  <2>2. CASE I # {}
    <3>1. Min(I) \in I /\ \A n \in I : Min(I) <= n
      BY <1>1, <2>2, LeastIs
    <3> HIDE DEF I
    <3>2. Min(I) \in 1..Len(q) /\ p.ts < q[Min(I)].ts
      BY <3>1 DEF I
    <3>3. ASSUME NEW i \in 1..Len(q), i < Min(I)
          PROVE  ~(p.ts < q[i].ts)
      BY <3>1, <3>2, <3>3 DEF I
    <3> QED  BY <1>1, <2>2, <3>2, <3>3
  <2> QED  BY <2>1, <2>2
<1>3. r = SubSeq(q, 1, k - 1) \o <<p>> \o SubSeq(q, k, Len(q))
  <2>1. SelectInSeq(q, LAMBDA x : p.ts < x.ts) = IF I # {} THEN Min(I) ELSE 0
    BY DEF SelectInSeq
  <2>2. (IF (IF I # {} THEN Min(I) ELSE 0) = 0 THEN Len(q) + 1 ELSE (IF I # {} THEN Min(I) ELSE 0)) = k
    <3>1. CASE I = {}
      BY <3>1
    <3>2. CASE I # {}
      BY <1>1, <1>2, <3>2
    <3> QED  BY <3>1, <3>2
  <2> QED  BY <2>1, <2>2 DEF insert_interleaved_packet, InsertAt
<1> HIDE DEF k, I, r
<1>4. /\ SubSeq(q, 1, k - 1) \in Seq(PacketType) /\ Len(SubSeq(q, 1, k - 1)) = k - 1
      /\ \A i \in 1..k - 1 : SubSeq(q, 1, k - 1)[i] = q[i]
  BY <1>1, <1>2, SubSeqProperties
<1>5. /\ SubSeq(q, k, Len(q)) \in Seq(PacketType) /\ Len(SubSeq(q, k, Len(q))) = Len(q) - k + 1
      /\ \A i \in 1..Len(q) - k + 1 : SubSeq(q, k, Len(q))[i] = q[k + i - 1]
  BY <1>1, <1>2, SubSeqProperties
<1> DEFINE a == SubSeq(q, 1, k - 1)
           b == SubSeq(q, k, Len(q))
<1> HIDE DEF a, b
<1>6. /\ a \o <<p>> \in Seq(PacketType) /\ Len(a \o <<p>>) = k
      /\ \A i \in 1..k - 1 : (a \o <<p>>)[i] = q[i]
      /\ (a \o <<p>>)[k] = p
  <2>1. a \in Seq(PacketType) /\ Len(a) = k - 1 /\ \A i \in 1..k - 1 : a[i] = q[i]
    BY <1>4 DEF a
  <2>2. a \o <<p>> = Append(a, p)
    BY <2>1, AppendIsConcat
  <2>3. k \in Nat
    BY <1>1, <1>2
  <2> QED  BY <2>1, <2>2, <2>3
<1> DEFINE c == a \o <<p>>
<1> HIDE DEF c
<1>7. /\ r = c \o b /\ r \in Seq(PacketType) /\ Len(r) = Len(q) + 1
      /\ \A i \in 1..k : r[i] = c[i]
      /\ \A i \in k + 1..Len(q) + 1 : r[i] = b[i - k]
  <2>1. r = c \o b
    BY <1>3 DEF a, b, c
  <2>2. c \in Seq(PacketType) /\ b \in Seq(PacketType) /\ Len(c) = k /\ Len(b) = Len(q) - k + 1
    BY <1>5, <1>6 DEF b, c
  <2>3. /\ c \o b \in Seq(PacketType) /\ Len(c \o b) = Len(c) + Len(b)
        /\ \A i \in 1..Len(c) + Len(b) : (c \o b)[i] = IF i <= Len(c) THEN c[i] ELSE b[i - Len(c)]
    BY <2>2, ConcatProperties
  <2>4. Len(r) = Len(q) + 1
    BY <1>1, <1>2, <2>1, <2>2, <2>3
  <2>5. ASSUME NEW i \in 1..k
        PROVE  r[i] = c[i]
    BY <1>1, <1>2, <2>1, <2>2, <2>3
  <2>6. ASSUME NEW i \in k + 1..Len(q) + 1
        PROVE  r[i] = b[i - k]
    <3>1. i \in 1..Len(c) + Len(b) /\ ~(i <= Len(c)) /\ i - Len(c) = i - k
      BY <1>1, <1>2, <2>2
    <3> QED  BY <2>1, <2>3, <3>1
  <2> QED  BY <2>1, <2>3, <2>4, <2>5, <2>6
<1>8. \A i \in 1..k - 1 : r[i] = q[i] /\ q[i].ts <= p.ts
  <2>1. TAKE i \in 1..k - 1
  <2>2. i \in 1..Len(q) /\ i \in 1..k /\ i < k
    BY <1>1, <1>2
  <2> QED  BY <1>1, <1>2, <1>6, <1>7, <2>2 DEF c
<1>9. r[k] = p
  BY <1>2, <1>6, <1>7 DEF c
<1>10. \A i \in k..Len(q) : r[i + 1] = q[i] /\ p.ts < q[i].ts
  <2>1. TAKE i \in k..Len(q)
  <2>2. /\ i + 1 \in k + 1..Len(q) + 1 /\ (i + 1) - k \in 1..Len(q) - k + 1
        /\ k + ((i + 1) - k) - 1 = i /\ k \in 1..Len(q) /\ i \in 1..Len(q)
    BY <1>1, <1>2
  <2>3. r[i + 1] = q[i]
    BY <1>5, <1>7, <2>2 DEF b
  <2>4. q[k].ts <= q[i].ts
    <3>1. k = i \/ k < i
      BY <1>2
    <3> QED  BY <1>1, <2>2, <3>1 DEF Sorted
  <2> QED  BY <1>1, <1>2, <2>2, <2>3, <2>4
<1> QED  BY <1>2, <1>7, <1>8, <1>9, <1>10 DEF Inserted, r

(* Every place of r is one of q's, or k.                                   *)
LEMMA InsertedAt ==
  ASSUME NEW q \in Seq(PacketType), NEW r, NEW p, NEW k, Inserted(q, r, p, k),
         NEW j \in 1..Len(r)
  PROVE  \/ j \in 1..k - 1 /\ j \in 1..Len(q) /\ r[j] = q[j] /\ q[j].ts <= p.ts
         \/ j = k /\ r[j] = p
         \/ j > k /\ j - 1 \in k..Len(q) /\ j - 1 \in 1..Len(q) /\ r[j] = q[j - 1] /\ p.ts < q[j - 1].ts
<1>1. Len(q) \in Nat /\ k \in 1..Len(q) + 1 /\ j \in 1..Len(q) + 1
  BY DEF Inserted
<1>2. CASE j < k
  BY <1>1, <1>2 DEF Inserted
<1>3. CASE j = k
  BY <1>3 DEF Inserted
<1>4. CASE j > k
  <2>1. j - 1 \in k..Len(q) /\ j - 1 \in 1..Len(q) /\ (j - 1) + 1 = j
    BY <1>1, <1>4
  <2>2. r[(j - 1) + 1] = q[j - 1] /\ p.ts < q[j - 1].ts
    BY <2>1, SMTT(30) DEF Inserted
  <2> QED  BY <1>4, <2>1, <2>2
<1> QED  BY <1>1, <1>2, <1>3, <1>4

(* And every place of q is one of r.                                       *)
LEMMA InsertedFrom ==
  ASSUME NEW q \in Seq(PacketType), NEW r, NEW p, NEW k, Inserted(q, r, p, k),
         NEW i \in 1..Len(q)
  PROVE  \/ i < k /\ i \in 1..Len(r) /\ r[i] = q[i]
         \/ i >= k /\ i + 1 \in 1..Len(r) /\ r[i + 1] = q[i]
<1>1. Len(q) \in Nat /\ k \in 1..Len(q) + 1 /\ Len(r) = Len(q) + 1
  BY DEF Inserted
<1>2. CASE i < k
  <2>1. i \in 1..k - 1
    BY <1>1, <1>2
  <2> QED  BY <1>1, <1>2, <2>1 DEF Inserted
<1>3. CASE i >= k
  <2>1. i \in k..Len(q)
    BY <1>1, <1>3
  <2> QED  BY <1>1, <1>3, <2>1 DEF Inserted
<1> QED  BY <1>1, <1>2, <1>3

LEMMA InsertSorted ==
  ASSUME NEW q \in Seq(PacketType), Sorted(q), NEW p \in PacketType, NEW r, NEW k,
         Inserted(q, r, p, k)
  PROVE  Sorted(r)
<1>1. /\ Len(q) \in Nat /\ k \in Nat /\ r \in Seq(PacketType) /\ p.ts \in Nat
      /\ \A i \in 1..Len(q) : q[i].ts \in Nat
  <2>1. \A i \in 1..Len(q) : q[i] \in PacketType
    OBVIOUS
  <2> QED  BY <2>1, SMTT(30) DEF PacketType, Inserted
<1>2. SUFFICES ASSUME NEW i \in 1..Len(r), NEW j \in 1..Len(r), i < j
               PROVE  r[i].ts <= r[j].ts
  BY DEF Sorted
<1>3. \/ i \in 1..k - 1 /\ i \in 1..Len(q) /\ r[i] = q[i] /\ q[i].ts <= p.ts
      \/ i = k /\ r[i] = p
      \/ i > k /\ i - 1 \in k..Len(q) /\ i - 1 \in 1..Len(q) /\ r[i] = q[i - 1] /\ p.ts < q[i - 1].ts
  BY InsertedAt
<1>4. \/ j \in 1..k - 1 /\ j \in 1..Len(q) /\ r[j] = q[j] /\ q[j].ts <= p.ts
      \/ j = k /\ r[j] = p
      \/ j > k /\ j - 1 \in k..Len(q) /\ j - 1 \in 1..Len(q) /\ r[j] = q[j - 1] /\ p.ts < q[j - 1].ts
  BY InsertedAt
<1>5. CASE j < k
  BY <1>1, <1>2, <1>3, <1>4, <1>5 DEF Sorted
<1>6. CASE j = k
  BY <1>1, <1>2, <1>3, <1>4, <1>6
<1>7. CASE j > k /\ i = k
  BY <1>1, <1>3, <1>4, <1>7
<1>8. CASE j > k /\ i < k
  BY <1>1, <1>3, <1>4, <1>8, SMTT(30)
<1>9. CASE j > k /\ i > k
  BY <1>1, <1>2, <1>3, <1>4, <1>9 DEF Sorted
<1> QED  BY <1>1, <1>5, <1>6, <1>7, <1>8, <1>9

(* A packet that comes next of its type is put behind all of its type.     *)
LEMMA NextIsLast ==
  ASSUME NEW q, NEW e \in Nat, Queue(q, e), NEW p \in PacketType, p.ts = p.dts + e,
         Reaches(q, p.type, p.dts), NEW i \in 1..Len(q), q[i].type = p.type
  PROVE  q[i].dts + Period[p.type] <= p.dts /\ q[i].ts < p.ts
<1>1. /\ Len(q) \in Nat /\ Period[p.type] \in Nat \ {0} /\ p.dts \in Nat
      /\ \A l \in 1..Len(q) : q[l].dts \in Nat /\ q[l].ts = q[l].dts + e
  <2>1. q \in Seq(PacketType) /\ \A l \in 1..Len(q) : q[l] \in PacketType
    BY DEF Queue
  <2> QED  BY <2>1, PeriodAssumption, SMTT(30) DEF PacketType, Queue, Stamped
<1>2. PICK m \in 1..Len(q) : /\ q[m].type = p.type /\ q[m].dts + Period[p.type] = p.dts
                             /\ \A j \in m + 1..Len(q) : q[j].type # p.type
  BY DEF Reaches, Absent
<1>3. i <= m
  BY <1>1, <1>2
<1>4. i < m => q[i].dts + Period[p.type] <= q[m].dts
  BY <1>2 DEF Queue, Spaced
<1>5. q[i].dts + Period[p.type] <= p.dts
  BY <1>1, <1>2, <1>3, <1>4, SMTT(30)
<1> QED  BY <1>1, <1>5

LEMMA InsertSpaced ==
  ASSUME NEW q, NEW e \in Nat, Queue(q, e), NEW p \in PacketType, p.ts = p.dts + e,
         Reaches(q, p.type, p.dts), NEW r, NEW k, Inserted(q, r, p, k)
  PROVE  Spaced(r)
<1>1. Len(q) \in Nat /\ k \in Nat /\ r \in Seq(PacketType) /\ q \in Seq(PacketType) /\ p.ts \in Nat
  BY DEF PacketType, Inserted, Queue
<1>2. SUFFICES ASSUME NEW i \in 1..Len(r), NEW j \in 1..Len(r), i < j, r[i].type = r[j].type
               PROVE  r[i].dts + Period[r[i].type] <= r[j].dts
  BY DEF Spaced
<1>3. \/ i \in 1..k - 1 /\ i \in 1..Len(q) /\ r[i] = q[i] /\ q[i].ts <= p.ts
      \/ i = k /\ r[i] = p
      \/ i > k /\ i - 1 \in k..Len(q) /\ i - 1 \in 1..Len(q) /\ r[i] = q[i - 1] /\ p.ts < q[i - 1].ts
  BY <1>1, InsertedAt
<1>4. \/ j \in 1..k - 1 /\ j \in 1..Len(q) /\ r[j] = q[j] /\ q[j].ts <= p.ts
      \/ j = k /\ r[j] = p
      \/ j > k /\ j - 1 \in k..Len(q) /\ j - 1 \in 1..Len(q) /\ r[j] = q[j - 1] /\ p.ts < q[j - 1].ts
  BY <1>1, InsertedAt
<1>5. CASE j = k
  <2>1. i \in 1..Len(q) /\ r[i] = q[i] /\ r[j] = p
    BY <1>1, <1>2, <1>3, <1>4, <1>5
  <2> QED  BY <1>2, <2>1, NextIsLast
<1>6. CASE i = k
  <2>1. j - 1 \in 1..Len(q) /\ r[j] = q[j - 1] /\ p.ts < q[j - 1].ts /\ r[i] = p
    BY <1>1, <1>2, <1>3, <1>4, <1>6
  <2>2. q[j - 1].ts < p.ts
    BY <1>2, <2>1, NextIsLast
  <2>3. q[j - 1].ts \in Nat
    <3>1. q[j - 1] \in PacketType
      BY <1>1, <2>1
    <3> QED  BY <3>1 DEF PacketType
  <2> QED  BY <1>1, <2>1, <2>2, <2>3
<1>7. CASE i < k /\ j < k
  BY <1>1, <1>2, <1>3, <1>4, <1>7 DEF Queue, Spaced
<1>8. CASE i < k /\ j > k
  BY <1>1, <1>2, <1>3, <1>4, <1>8 DEF Queue, Spaced
<1>9. CASE i > k /\ j > k
  BY <1>1, <1>2, <1>3, <1>4, <1>9, SMTT(30) DEF Queue, Spaced
<1> QED  BY <1>1, <1>2, <1>5, <1>6, <1>7, <1>8, <1>9

LEMMA InsertWhole ==
  ASSUME NEW q, NEW e \in Nat, Queue(q, e), NEW p \in PacketType, p.ts = p.dts + e,
         Reaches(q, p.type, p.dts), NEW r, NEW k, Inserted(q, r, p, k)
  PROVE  Whole(r)
<1>1. Len(q) \in Nat /\ k \in 1..Len(q) + 1 /\ r \in Seq(PacketType) /\ q \in Seq(PacketType)
      /\ Len(r) = Len(q) + 1
  BY DEF Inserted, Queue
<1>2. SUFFICES ASSUME NEW j \in 1..Len(r)
               PROVE  \/ IsFirst(r, j)
                      \/ \E i \in 1..j - 1 : r[i].type = r[j].type /\ r[j].dts = r[i].dts + Period[r[j].type]
  BY DEF Whole
<1>3. \/ j \in 1..k - 1 /\ j \in 1..Len(q) /\ r[j] = q[j] /\ q[j].ts <= p.ts
      \/ j = k /\ r[j] = p
      \/ j > k /\ j - 1 \in k..Len(q) /\ j - 1 \in 1..Len(q) /\ r[j] = q[j - 1] /\ p.ts < q[j - 1].ts
  BY <1>1, InsertedAt
<1>4. \A i \in 1..k - 1 : r[i] = q[i] /\ i \in 1..Len(q)
  BY <1>1 DEF Inserted
<1>5. CASE j = k
  <2>1. r[j] = p
    BY <1>1, <1>3, <1>5
  <2>2. CASE Absent(q, p.type)
    BY <1>1, <1>4, <1>5, <2>1, <2>2 DEF Absent, IsFirst
  <2>3. CASE ~Absent(q, p.type)
    <3>1. PICK m \in 1..Len(q) : q[m].type = p.type /\ q[m].dts + Period[p.type] = p.dts
      BY <2>3 DEF Reaches
    <3>2. m < k
      <4>1. q[m].ts < p.ts
        BY <3>1, NextIsLast
      <4>2. q[m].ts \in Nat /\ p.ts \in Nat
        <5>1. q[m] \in PacketType
          BY <1>1
        <5> QED  BY <5>1 DEF PacketType
      <4>3. m \in k..Len(q) => p.ts < q[m].ts
        BY DEF Inserted
      <4> QED  BY <1>1, <4>1, <4>2, <4>3
    <3>3. m \in 1..j - 1 /\ r[m] = q[m]
      BY <1>1, <1>4, <1>5, <3>2
    <3> QED  BY <2>1, <3>1, <3>3
  <2> QED  BY <2>2, <2>3
<1>6. CASE j < k
  <2>1. j \in 1..Len(q) /\ r[j] = q[j] /\ \A i \in 1..j - 1 : r[i] = q[i]
    BY <1>1, <1>3, <1>4, <1>6
  <2>2. \/ IsFirst(q, j)
        \/ \E i \in 1..j - 1 : q[i].type = q[j].type /\ q[j].dts = q[i].dts + Period[q[j].type]
    BY <2>1 DEF Queue, Whole
  <2> QED  BY <2>1, <2>2 DEF IsFirst
<1>7. CASE j > k
  <2>1. j - 1 \in 1..Len(q) /\ r[j] = q[j - 1] /\ p.ts < q[j - 1].ts /\ j - 1 >= k
    BY <1>1, <1>3, <1>7
  <2>2. q[j - 1].type # p.type
    <3>1. q[j - 1].type = p.type => q[j - 1].ts < p.ts
      BY <2>1, NextIsLast
    <3>2. q[j - 1].ts \in Nat /\ p.ts \in Nat
      <4>1. q[j - 1] \in PacketType
        BY <1>1, <2>1
      <4> QED  BY <4>1 DEF PacketType
    <3> QED  BY <2>1, <3>1, <3>2
  <2>3. \/ IsFirst(q, j - 1)
        \/ \E i \in 1..(j - 1) - 1 : q[i].type = q[j - 1].type /\ q[j - 1].dts = q[i].dts + Period[q[j - 1].type]
    BY <2>1 DEF Queue, Whole
  <2>4. CASE IsFirst(q, j - 1)
    <3>1. ASSUME NEW i \in 1..j - 1
          PROVE  r[i].type # r[j].type
      <4>1. i \in 1..Len(r)
        BY <1>1
      <4>2. \/ i \in 1..Len(q) /\ i < k /\ r[i] = q[i]
            \/ r[i] = p
            \/ i > k /\ r[i] = q[i - 1]
        BY <1>1, <4>1, InsertedAt
      <4>3. CASE i < k /\ r[i] = q[i]
        BY <1>1, <2>1, <2>4, <4>3 DEF IsFirst
      <4>4. CASE r[i] = p
        BY <2>1, <2>2, <4>4
      <4>5. CASE i > k /\ r[i] = q[i - 1]
        <5>1. i - 1 \in 1..(j - 1) - 1
          BY <1>1, <4>5
        <5> QED  BY <2>1, <2>4, <4>5, <5>1 DEF IsFirst
      <4> QED  BY <4>2, <4>3, <4>4, <4>5
    <3> QED  BY <3>1 DEF IsFirst
  <2>5. CASE \E i \in 1..(j - 1) - 1 : q[i].type = q[j - 1].type /\ q[j - 1].dts = q[i].dts + Period[q[j - 1].type]
    <3>1. PICK i \in 1..(j - 1) - 1 : q[i].type = q[j - 1].type /\ q[j - 1].dts = q[i].dts + Period[q[j - 1].type]
      BY <2>5
    <3>2. i \in 1..Len(q) /\ i < j - 1
      BY <1>1, <2>1
    <3>3. \/ i \in 1..Len(r) /\ r[i] = q[i]
          \/ i + 1 \in 1..Len(r) /\ r[i + 1] = q[i]
      BY <1>1, <3>2, InsertedFrom
    <3>4. i \in 1..j - 1 /\ i + 1 \in 1..j - 1
      BY <1>1, <3>2
    <3> QED  BY <2>1, <3>1, <3>3, <3>4
  <2> QED  BY <2>3, <2>4, <2>5
<1> QED  BY <1>1, <1>5, <1>6, <1>7

LEMMA InsertKeeps ==
  ASSUME NEW q, NEW e \in Nat, Queue(q, e), NEW p \in PacketType, p.ts = p.dts + e,
         Reaches(q, p.type, p.dts), NEW r, NEW k, Inserted(q, r, p, k)
  PROVE  Queue(r, e)
<1>1. q \in Seq(PacketType) /\ Sorted(q)
  BY DEF Queue
<1>2. Sorted(r) /\ Spaced(r) /\ Whole(r) /\ r \in Seq(PacketType)
  BY <1>1, InsertSorted, InsertSpaced, InsertWhole DEF Inserted
<1>3. Stamped(r, e)
  <2>1. SUFFICES ASSUME NEW j \in 1..Len(r)
                 PROVE  r[j].ts = r[j].dts + e
    BY DEF Stamped
  <2>2. \/ r[j] = p
        \/ \E i \in 1..Len(q) : r[j] = q[i]
    BY <1>1, InsertedAt
  <2> QED  BY <2>2 DEF Queue, Stamped
<1> QED  BY <1>2, <1>3 DEF Queue

(* The packets of the inserted one's type now reach beyond it, those of    *)
(* the other type as far as before.                                        *)
LEMMA InsertReaches ==
  ASSUME NEW q, NEW e \in Nat, Queue(q, e), NEW p \in PacketType, p.ts = p.dts + e,
         Reaches(q, p.type, p.dts), NEW r, NEW k, Inserted(q, r, p, k)
  PROVE  /\ Reaches(r, p.type, p.dts + Period[p.type])
         /\ \A t \in Type \ {p.type}, d \in Int : Reaches(q, t, d) => Reaches(r, t, d)
<1>1. Len(q) \in Nat /\ k \in 1..Len(q) + 1 /\ r \in Seq(PacketType) /\ q \in Seq(PacketType)
      /\ Len(r) = Len(q) + 1 /\ r[k] = p
  BY DEF Inserted, Queue
<1>2. ASSUME NEW j \in k + 1..Len(r)
      PROVE  j - 1 \in 1..Len(q) /\ r[j] = q[j - 1] /\ r[j].type # p.type
  <2>1. j \in 1..Len(r) /\ j > k
    BY <1>1
  <2>2. j - 1 \in 1..Len(q) /\ r[j] = q[j - 1] /\ p.ts < q[j - 1].ts
    BY <1>1, <2>1, InsertedAt
  <2>3. q[j - 1].type = p.type => q[j - 1].ts < p.ts
    BY <2>2, NextIsLast
  <2>4. q[j - 1].ts \in Nat /\ p.ts \in Nat
    <3>1. q[j - 1] \in PacketType
      BY <1>1, <2>2
    <3> QED  BY <3>1 DEF PacketType
  <2> QED  BY <2>2, <2>3, <2>4
<1>3. Reaches(r, p.type, p.dts + Period[p.type])
  BY <1>1, <1>2 DEF Reaches
<1>4. ASSUME NEW t \in Type \ {p.type}, NEW d \in Int, Reaches(q, t, d)
      PROVE  Reaches(r, t, d)
  <2>1. CASE Absent(q, t)
    <3>1. ASSUME NEW j \in 1..Len(r)
          PROVE  r[j].type # t
      <4>1. \/ j \in 1..k - 1 /\ j \in 1..Len(q) /\ r[j] = q[j] /\ q[j].ts <= p.ts
            \/ j = k /\ r[j] = p
            \/ j > k /\ j - 1 \in k..Len(q) /\ j - 1 \in 1..Len(q) /\ r[j] = q[j - 1] /\ p.ts < q[j - 1].ts
        BY <1>1, InsertedAt
      <4> QED  BY <1>4, <2>1, <4>1 DEF Absent
    <3> QED  BY <3>1 DEF Reaches, Absent
  <2>2. CASE ~Absent(q, t)
    <3>1. PICK m \in 1..Len(q) : /\ q[m].type = t /\ q[m].dts + Period[t] = d
                                 /\ \A j \in m + 1..Len(q) : q[j].type # t
      BY <1>4, <2>2 DEF Reaches
    <3> DEFINE At(n) == r[n] = q[m] /\ ((m < k /\ n = m) \/ (m >= k /\ n = m + 1))
    <3>2. PICK n \in 1..Len(r) : At(n)
      <4>1. \/ m < k /\ m \in 1..Len(r) /\ r[m] = q[m]
            \/ m >= k /\ m + 1 \in 1..Len(r) /\ r[m + 1] = q[m]
        BY <1>1, InsertedFrom
      <4>2. CASE m < k /\ m \in 1..Len(r) /\ r[m] = q[m]
        <5>1. At(m)
          BY <4>2
        <5> QED  BY <4>2, <5>1
      <4>3. CASE m >= k /\ m + 1 \in 1..Len(r) /\ r[m + 1] = q[m]
        <5>1. At(m + 1)
          BY <4>3
        <5> QED  BY <4>3, <5>1
      <4> QED  BY <4>1, <4>2, <4>3
    <3>3. ASSUME NEW j \in n + 1..Len(r)
          PROVE  r[j].type # t
      <4>1. j \in 1..Len(r) /\ j > n
        BY <1>1
      <4>2. \/ j < k /\ j \in 1..Len(q) /\ r[j] = q[j]
            \/ r[j] = p
            \/ j > k /\ j - 1 \in 1..Len(q) /\ r[j] = q[j - 1]
        BY <1>1, <4>1, InsertedAt, SMTT(30)
      <4>3. CASE j < k /\ j \in 1..Len(q) /\ r[j] = q[j]
        <5>1. j \in m + 1..Len(q)
          BY <1>1, <3>2, <4>1, <4>3
        <5> QED  BY <3>1, <4>3, <5>1
      <4>4. CASE r[j] = p
        BY <4>4
      <4>5. CASE j > k /\ j - 1 \in 1..Len(q) /\ r[j] = q[j - 1]
        <5>1. j - 1 \in m + 1..Len(q)
          BY <1>1, <3>2, <4>1, <4>5
        <5> QED  BY <3>1, <4>5, <5>1
      <4> QED  BY <4>2, <4>3, <4>4, <4>5
    <3> QED  BY <3>1, <3>2, <3>3 DEF Reaches
  <2> QED  BY <2>1, <2>2
<1> QED  BY <1>3, <1>4

LEMMA InsertFirst ==
  ASSUME NEW q, NEW e \in Nat, Queue(q, e), NEW p \in PacketType, p.ts = p.dts + e,
         Reaches(q, p.type, p.dts), NEW r, NEW k, Inserted(q, r, p, k),
         NEW j \in 1..Len(r), IsFirst(r, j)
  PROVE  \/ r[j] = p /\ Absent(q, p.type)
         \/ \E i \in 1..Len(q) : IsFirst(q, i) /\ q[i] = r[j]
<1>1. Len(q) \in Nat /\ k \in 1..Len(q) + 1 /\ r \in Seq(PacketType) /\ q \in Seq(PacketType)
      /\ Len(r) = Len(q) + 1
  BY DEF Inserted, Queue
<1>2. \/ j \in 1..k - 1 /\ j \in 1..Len(q) /\ r[j] = q[j] /\ q[j].ts <= p.ts
      \/ j = k /\ r[j] = p
      \/ j > k /\ j - 1 \in k..Len(q) /\ j - 1 \in 1..Len(q) /\ r[j] = q[j - 1] /\ p.ts < q[j - 1].ts
  BY <1>1, InsertedAt
<1>3. \A i \in 1..k - 1 : r[i] = q[i]
  BY DEF Inserted
<1>4. CASE j \in 1..k - 1 /\ j \in 1..Len(q) /\ r[j] = q[j]
  <2>1. \A i \in 1..j - 1 : r[i] = q[i]
    BY <1>1, <1>3, <1>4
  <2> QED  BY <1>4, <2>1 DEF IsFirst
<1>5. CASE j = k /\ r[j] = p
  <2>1. ASSUME NEW i \in 1..Len(q), q[i].type = p.type
        PROVE  FALSE
    <3>1. q[i].ts < p.ts
      BY <2>1, NextIsLast
    <3>2. q[i].ts \in Nat /\ p.ts \in Nat
      <4>1. q[i] \in PacketType
        BY <1>1
      <4> QED  BY <4>1 DEF PacketType
    <3>3. i \in k..Len(q) => p.ts < q[i].ts
      BY DEF Inserted
    <3>4. i \in 1..k - 1
      BY <1>1, <3>1, <3>2, <3>3
    <3> QED  BY <1>3, <1>5, <2>1, <3>4 DEF IsFirst
  <2> QED  BY <1>5, <2>1 DEF Absent
<1>6. CASE j > k /\ j - 1 \in 1..Len(q) /\ r[j] = q[j - 1]
  <2>1. ASSUME NEW i \in 1..(j - 1) - 1
        PROVE  q[i].type # q[j - 1].type
    <3>1. i \in 1..Len(q) /\ i \in 1..j - 1 /\ i + 1 \in 1..j - 1
      BY <1>1, <1>6
    <3>2. \/ i < k /\ i \in 1..Len(r) /\ r[i] = q[i]
          \/ i >= k /\ i + 1 \in 1..Len(r) /\ r[i + 1] = q[i]
      BY <1>1, <3>1, InsertedFrom
    <3> QED  BY <1>6, <3>1, <3>2 DEF IsFirst
  <2> QED  BY <1>6, <2>1 DEF IsFirst
<1> QED  BY <1>2, <1>4, <1>5, <1>6

LEMMA InsertHas ==
  ASSUME NEW q \in Seq(PacketType), NEW p, NEW r, NEW k, Inserted(q, r, p, k)
  PROVE  /\ \A j \in 1..Len(r) : r[j] = p \/ \E i \in 1..Len(q) : r[j] = q[i]
         /\ \A t : Absent(r, t) <=> Absent(q, t) /\ t # p.type
<1>1. Len(q) \in Nat /\ k \in 1..Len(q) + 1 /\ Len(r) = Len(q) + 1 /\ r[k] = p
  BY DEF Inserted
<1>2. ASSUME NEW j \in 1..Len(r)
      PROVE  r[j] = p \/ \E i \in 1..Len(q) : r[j] = q[i]
  <2>1. \/ j \in 1..k - 1 /\ j \in 1..Len(q) /\ r[j] = q[j] /\ q[j].ts <= p.ts
        \/ j = k /\ r[j] = p
        \/ j > k /\ j - 1 \in k..Len(q) /\ j - 1 \in 1..Len(q) /\ r[j] = q[j - 1] /\ p.ts < q[j - 1].ts
    BY InsertedAt
  <2> QED  BY <2>1
<1>3. ASSUME NEW i \in 1..Len(q)
      PROVE  \E j \in 1..Len(r) : r[j] = q[i]
  <2>1. \/ i < k /\ i \in 1..Len(r) /\ r[i] = q[i]
        \/ i >= k /\ i + 1 \in 1..Len(r) /\ r[i + 1] = q[i]
    BY InsertedFrom
  <2> QED  BY <2>1
<1>4. k \in 1..Len(r)
  BY <1>1
<1>5. ASSUME NEW t
      PROVE  Absent(r, t) <=> Absent(q, t) /\ t # p.type
  BY <1>1, <1>2, <1>3, <1>4 DEF Absent
<1> QED  BY <1>2, <1>5

-----------------------------------------------------------------------------
(* discard_to_idx and the packet sent                                      *)

(* r is q without its first n packets.                                     *)
Suffix(q, r, n) ==
  /\ q \in Seq(PacketType) /\ r \in Seq(PacketType) /\ n \in 0..Len(q) /\ Len(r) = Len(q) - n
  /\ \A i \in 1..Len(r) : r[i] = q[n + i] /\ n + i \in 1..Len(q)

LEMMA SuffixIs ==
  ASSUME NEW q \in Seq(PacketType), NEW n \in 0..Len(q)
  PROVE  Suffix(q, SubSeq(q, n + 1, Len(q)), n)
<1>1. Len(q) \in Nat
  OBVIOUS
<1> DEFINE r == SubSeq(q, n + 1, Len(q))
<1>2. CASE n = Len(q)
  <2>1. r = << >>
    BY <1>1, <1>2, SubSeqProperties
  <2> HIDE DEF r
  <2>2. r \in Seq(PacketType) /\ Len(r) = 0
    BY <2>1
  <2> QED  BY <1>1, <1>2, <2>2 DEF Suffix
<1>3. CASE n # Len(q)
  <2>1. n + 1 \in 1..Len(q) + 1 /\ Len(q) \in n + 1 - 1..Len(q)
    BY <1>1
  <2>2. /\ r \in Seq(PacketType) /\ Len(r) = Len(q) - (n + 1) + 1
        /\ \A i \in 1..Len(q) - (n + 1) + 1 : r[i] = q[(n + 1) + i - 1]
    BY <1>1, <2>1, SubSeqProperties
  <2>3. Len(r) = Len(q) - n
    BY <1>1, <2>2
  <2>4. ASSUME NEW i \in 1..Len(r)
        PROVE  r[i] = q[n + i] /\ n + i \in 1..Len(q)
    <3>1. i \in 1..Len(q) - (n + 1) + 1 /\ (n + 1) + i - 1 = n + i /\ n + i \in 1..Len(q)
      BY <1>1, <2>3
    <3> QED  BY <2>2, <3>1
  <2> QED  BY <2>2, <2>3, <2>4 DEF Suffix
<1> QED  BY <1>2, <1>3

LEMMA TailIsSuffix ==
  ASSUME NEW q \in Seq(PacketType), q # << >>
  PROVE  Suffix(q, Tail(q), 1)
<1>1. Len(q) \in Nat \ {0}
  OBVIOUS
<1>2. /\ Tail(q) \in Seq(PacketType) /\ Len(Tail(q)) = Len(q) - 1
      /\ \A i \in 1..Len(q) - 1 : Tail(q)[i] = q[i + 1]
  OBVIOUS
<1> QED  BY <1>1, <1>2 DEF Suffix

LEMMA SuffixKeeps ==
  ASSUME NEW q, NEW e \in Nat, Queue(q, e), NEW r, NEW n, Suffix(q, r, n)
  PROVE  Queue(r, e)
<1>1. Len(q) \in Nat /\ n \in Nat /\ Len(r) \in Nat /\ Len(r) = Len(q) - n
  BY DEF Suffix
<1>2. Stamped(r, e) /\ r \in Seq(PacketType)
  BY DEF Suffix, Queue, Stamped
<1>3. Sorted(r)
  BY <1>1 DEF Suffix, Queue, Sorted
<1>4. Spaced(r)
  BY <1>1, SMTT(30) DEF Suffix, Queue, Spaced
<1>5. Whole(r)
  <2>1. SUFFICES ASSUME NEW j \in 1..Len(r)
                 PROVE  \/ IsFirst(r, j)
                        \/ \E i \in 1..j - 1 : r[i].type = r[j].type /\ r[j].dts = r[i].dts + Period[r[j].type]
    BY DEF Whole
  <2>2. n + j \in 1..Len(q) /\ r[j] = q[n + j] /\ \A i \in 1..j - 1 : r[i] = q[n + i] /\ n + i \in 1..n + j - 1
    BY <1>1 DEF Suffix
  <2>3. \/ IsFirst(q, n + j)
        \/ \E i \in 1..(n + j) - 1 : q[i].type = q[n + j].type /\ q[n + j].dts = q[i].dts + Period[q[n + j].type]
    BY <2>2 DEF Queue, Whole
  <2>4. CASE IsFirst(q, n + j)
    <3>1. ASSUME NEW i \in 1..j - 1
          PROVE  r[i].type # r[j].type
      <4>1. n + i \in 1..(n + j) - 1
        BY <1>1
      <4>2. q[n + i].type # q[n + j].type
        BY <2>4, <4>1 DEF IsFirst
      <4> QED  BY <2>2, <4>2
    <3> QED  BY <3>1 DEF IsFirst
  <2>5. CASE \E i \in 1..(n + j) - 1 : q[i].type = q[n + j].type /\ q[n + j].dts = q[i].dts + Period[q[n + j].type]
    <3>1. PICK m \in 1..(n + j) - 1 : q[m].type = q[n + j].type /\ q[n + j].dts = q[m].dts + Period[q[n + j].type]
      BY <2>5
    <3>2. CASE m > n
      <4>1. m - n \in 1..j - 1 /\ n + (m - n) = m
        BY <1>1, <3>2
      <4>2. r[m - n] = q[m]
        BY <2>2, <4>1
      <4> QED  BY <2>2, <3>1, <4>1, <4>2
    <3>3. CASE ~(m > n)
      <4>1. ASSUME NEW i \in 1..j - 1, q[n + i].type = q[n + j].type
            PROVE  FALSE
        <5>1. m < n + i /\ n + i < n + j /\ n + i \in 1..Len(q) /\ m \in 1..Len(q)
          BY <1>1, <2>2, <3>3
        <5>2. q[m].dts + Period[q[m].type] <= q[n + i].dts /\ q[n + i].dts + Period[q[n + i].type] <= q[n + j].dts
          BY <2>2, <3>1, <4>1, <5>1 DEF Queue, Spaced
        <5>3. q[m] \in PacketType /\ q[n + i] \in PacketType /\ q[n + j] \in PacketType
          BY <2>2, <5>1 DEF Queue
        <5>4. Period[q[m].type] \in Nat \ {0} /\ q[m].dts \in Nat /\ q[n + i].dts \in Nat /\ q[n + j].dts \in Nat
          BY <5>3, PeriodAssumption DEF PacketType
        <5> QED  BY <3>1, <4>1, <5>2, <5>4
      <4> QED  BY <2>2, <4>1 DEF IsFirst
    <3> QED  BY <3>2, <3>3
  <2> QED  BY <2>3, <2>4, <2>5
<1> QED  BY <1>2, <1>3, <1>4, <1>5 DEF Queue

LEMMA SuffixReaches ==
  ASSUME NEW q, NEW r, NEW n, Suffix(q, r, n), NEW t, NEW d, Reaches(q, t, d)
  PROVE  Reaches(r, t, d)
<1>1. Len(q) \in Nat /\ n \in Nat /\ Len(r) \in Nat /\ Len(r) = Len(q) - n
  BY DEF Suffix
<1>2. CASE Absent(q, t)
  BY <1>2 DEF Suffix, Absent, Reaches
<1>3. CASE ~Absent(q, t)
  <2>1. PICK m \in 1..Len(q) : /\ q[m].type = t /\ q[m].dts + Period[t] = d
                               /\ \A j \in m + 1..Len(q) : q[j].type # t
    BY <1>3 DEF Reaches
  <2>2. CASE m > n
    <3>1. m - n \in 1..Len(r) /\ n + (m - n) = m
      BY <1>1, <2>2
    <3>2. r[m - n] = q[m]
      BY <3>1 DEF Suffix
    <3>3. ASSUME NEW j \in (m - n) + 1..Len(r)
          PROVE  r[j].type # t
      <4>1. j \in 1..Len(r) /\ n + j \in m + 1..Len(q)
        BY <1>1, <2>2
      <4> QED  BY <2>1, <4>1 DEF Suffix
    <3> QED  BY <2>1, <3>1, <3>2, <3>3 DEF Reaches
  <2>3. CASE ~(m > n)
    <3>1. ASSUME NEW j \in 1..Len(r)
          PROVE  r[j].type # t
      <4>1. n + j \in m + 1..Len(q)
        BY <1>1, <2>3
      <4> QED  BY <2>1, <4>1 DEF Suffix
    <3> QED  BY <3>1 DEF Reaches, Absent
  <2> QED  BY <2>2, <2>3
<1> QED  BY <1>2, <1>3

-----------------------------------------------------------------------------
(* resort_interleaved_packets: the packets of each type stay in their      *)
(* order, so that each is inserted behind all of its type.                 *)

Unsorted(q) == q \in Seq(PacketType) /\ Stamped(q, 0) /\ Spaced(q) /\ Whole(q)

(* As Reaches, of the first n packets of q.                                *)
ReachesAt(q, n, t, d) ==
  \/ \A i \in 1..n : q[i].type # t
  \/ \E i \in 1..n : /\ q[i].type = t /\ q[i].dts + Period[t] = d
                     /\ \A j \in i + 1..n : q[j].type # t

(* s is the first n packets of q in order.                                 *)
Arranged(q, n, s) ==
  /\ Queue(s, 0)
  /\ \A t \in Type, d \in Int : ReachesAt(q, n, t, d) => Reaches(s, t, d)
  /\ \A j \in 1..Len(s) : \E i \in 1..n : s[j] = q[i]
  /\ \A j \in 1..Len(s) : IsFirst(s, j) => \E i \in 1..n : IsFirst(q, i) /\ q[i] = s[j]
  /\ \A t : Absent(s, t) => \A i \in 1..n : q[i].type # t

LEMMA NextArranged ==
  ASSUME NEW q, Unsorted(q), NEW n \in 1..Len(q), NEW s, Arranged(q, n - 1, s)
  PROVE  Arranged(q, n, insert_interleaved_packet(s, q[n]))
<1> DEFINE p == q[n]
           r == insert_interleaved_packet(s, p)
<1>1. /\ q \in Seq(PacketType) /\ s \in Seq(PacketType) /\ Sorted(s) /\ p \in PacketType
      /\ p.ts = p.dts + 0 /\ p.type \in Type /\ p.dts \in Int /\ Len(q) \in Nat
      /\ Queue(s, 0)
  <2>1. q \in Seq(PacketType) /\ p \in PacketType
    BY DEF Unsorted
  <2> QED  BY <2>1 DEF Unsorted, Stamped, Arranged, Queue, PacketType
<1>2. ReachesAt(q, n - 1, p.type, p.dts)
  <2>1. \/ IsFirst(q, n)
        \/ \E i \in 1..n - 1 : q[i].type = p.type /\ p.dts = q[i].dts + Period[p.type]
    BY DEF Unsorted, Whole
  <2>2. CASE IsFirst(q, n)
    BY <2>2 DEF IsFirst, ReachesAt
  <2>3. CASE \E i \in 1..n - 1 : q[i].type = p.type /\ p.dts = q[i].dts + Period[p.type]
    <3>1. PICK m \in 1..n - 1 : q[m].type = p.type /\ p.dts = q[m].dts + Period[p.type]
      BY <2>3
    <3>2. ASSUME NEW j \in m + 1..n - 1, q[j].type = p.type
          PROVE  FALSE
      <4>1. j \in 1..Len(q) /\ m \in 1..Len(q) /\ m < j /\ j < n
        BY <1>1
      <4>2. q[m].dts + Period[p.type] <= q[j].dts /\ q[j].dts + Period[p.type] <= p.dts
        BY <3>1, <3>2, <4>1 DEF Unsorted, Spaced
      <4>3. q[m] \in PacketType /\ q[j] \in PacketType
        BY <1>1, <4>1
      <4>4. Period[p.type] \in Nat \ {0} /\ q[m].dts \in Nat /\ q[j].dts \in Nat
        BY <1>1, <4>3, PeriodAssumption DEF PacketType
      <4> QED  BY <3>1, <4>2, <4>4
    <3> QED  BY <3>1, <3>2 DEF ReachesAt
  <2> QED  BY <2>1, <2>2, <2>3
<1>3. Reaches(s, p.type, p.dts)
  BY <1>1, <1>2 DEF Arranged
<1> HIDE DEF r, p
<1>4. PICK k \in 1..Len(s) + 1 : Inserted(s, r, p, k)
  BY <1>1, InsertIs DEF r
<1>5. Queue(r, 0)
  BY <1>1, <1>3, <1>4, InsertKeeps
<1>6. /\ Reaches(r, p.type, p.dts + Period[p.type])
      /\ \A t \in Type \ {p.type}, d \in Int : Reaches(s, t, d) => Reaches(r, t, d)
  BY <1>1, <1>3, <1>4, InsertReaches
<1>7. /\ \A j \in 1..Len(r) : r[j] = p \/ \E i \in 1..Len(s) : r[j] = s[i]
      /\ \A t : Absent(r, t) <=> Absent(s, t) /\ t # p.type
  BY <1>1, <1>4, InsertHas
<1>8. ASSUME NEW i \in 1..n
      PROVE  i = n \/ i \in 1..n - 1
  BY <1>1
<1>9. n \in 1..n /\ \A i \in 1..n - 1 : i \in 1..n
  BY <1>1
<1>10. ASSUME NEW t \in Type, NEW d \in Int, ReachesAt(q, n, t, d)
       PROVE  Reaches(r, t, d)
  <2>1. CASE t = p.type
    <3>1. PICK i \in 1..n : q[i].type = t /\ q[i].dts + Period[t] = d /\ \A j \in i + 1..n : q[j].type # t
      BY <1>9, <1>10, <2>1 DEF ReachesAt, p
    <3>2. i = n
      <4>1. i # n => n \in i + 1..n
        BY <1>1
      <4> QED  BY <2>1, <3>1, <4>1 DEF p
    <3> QED  BY <1>6, <2>1, <3>1, <3>2 DEF p
  <2>2. CASE t # p.type
    <3>1. ReachesAt(q, n - 1, t, d)
      <4>1. CASE \A i \in 1..n : q[i].type # t
        BY <1>9, <4>1 DEF ReachesAt
      <4>2. CASE \E i \in 1..n : /\ q[i].type = t /\ q[i].dts + Period[t] = d
                                 /\ \A j \in i + 1..n : q[j].type # t
        <5>1. PICK i \in 1..n : q[i].type = t /\ q[i].dts + Period[t] = d /\ \A j \in i + 1..n : q[j].type # t
          BY <4>2
        <5>2. i \in 1..n - 1
          BY <1>8, <2>2, <5>1 DEF p
        <5>3. \A j \in i + 1..n - 1 : j \in i + 1..n
          BY <1>1
        <5> QED  BY <5>1, <5>2, <5>3 DEF ReachesAt
      <4> QED  BY <1>10, <4>1, <4>2 DEF ReachesAt
    <3> QED  BY <1>6, <2>2, <3>1 DEF Arranged
  <2> QED  BY <2>1, <2>2
<1>11. ASSUME NEW j \in 1..Len(r)
       PROVE  \E i \in 1..n : r[j] = q[i]
  BY <1>7, <1>9 DEF Arranged, p
<1>12. ASSUME NEW j \in 1..Len(r), IsFirst(r, j)
       PROVE  \E i \in 1..n : IsFirst(q, i) /\ q[i] = r[j]
  <2>1. \/ r[j] = p /\ Absent(s, p.type)
        \/ \E i \in 1..Len(s) : IsFirst(s, i) /\ s[i] = r[j]
    BY <1>1, <1>3, <1>4, <1>12, InsertFirst
  <2>2. CASE r[j] = p /\ Absent(s, p.type)
    <3>1. IsFirst(q, n)
      BY <2>2 DEF Arranged, IsFirst, p
    <3> QED  BY <1>9, <2>2, <3>1 DEF p
  <2>3. CASE \E i \in 1..Len(s) : IsFirst(s, i) /\ s[i] = r[j]
    BY <1>9, <2>3 DEF Arranged
  <2> QED  BY <2>1, <2>2, <2>3
<1>13. ASSUME NEW t, Absent(r, t)
       PROVE  \A i \in 1..n : q[i].type # t
  BY <1>7, <1>8, <1>13 DEF Arranged, p
<1> QED  BY <1>5, <1>10, <1>11, <1>12, <1>13 DEF Arranged, r, p

(* The function by which resort_interleaved_packets is defined.            *)
Sorting(q, m) == CHOOSE s : s =
  [n \in 0..m |-> IF n = 0 THEN << >> ELSE insert_interleaved_packet(s[n - 1], q[n])]

LEMMA SortingIs ==
  ASSUME NEW q, NEW m \in Nat
  PROVE  Sorting(q, m) =
           [n \in 0..m |-> IF n = 0 THEN << >> ELSE insert_interleaved_packet(Sorting(q, m)[n - 1], q[n])]
<1> DEFINE Is(g, l) == g = [n \in 0..l |-> IF n = 0 THEN << >> ELSE insert_interleaved_packet(g[n - 1], q[n])]
           S == {l \in Nat : ~ \E g : Is(g, l)}
<1>1. S = {}
  <2>1. SUFFICES ASSUME S # {}
                 PROVE  FALSE
    OBVIOUS
  <2> DEFINE l == Min(S)
  <2> HIDE DEF l
  <2>2. l \in S /\ \A n \in S : l <= n
    BY <2>1, LeastIs DEF l
  <2>3. l \in Nat /\ ~ \E g : Is(g, l)
    BY <2>2
  <2> HIDE DEF S
  <2>4. CASE l = 0
    <3> DEFINE g == [n \in 0..0 |-> << >>]
    <3>1. Is(g, 0)
      OBVIOUS
    <3> QED  BY <2>3, <2>4, <3>1
  <2>5. CASE l # 0
    <3>1. l - 1 \in Nat /\ l - 1 \notin S
      BY <2>2, <2>3, <2>5
    <3>2. PICK f : Is(f, l - 1)
      BY <3>1 DEF S
    <3> DEFINE g == [n \in 0..l |-> IF n = l THEN insert_interleaved_packet(f[l - 1], q[l]) ELSE f[n]]
    <3>3. ASSUME NEW n \in 0..l
          PROVE  g[n] = IF n = 0 THEN << >> ELSE insert_interleaved_packet(g[n - 1], q[n])
      <4>1. CASE n = 0
        BY <2>3, <2>5, <3>2, <4>1
      <4>2. CASE n # 0
        <5>1. n - 1 \in 0..l /\ n - 1 # l /\ g[n - 1] = f[n - 1]
          BY <2>3, <4>2
        <5>2. CASE n = l
          BY <5>1, <5>2, <4>2
        <5>3. CASE n # l
          <6>1. n \in 0..l - 1
            BY <2>3, <5>3
          <6>2. f[n] = insert_interleaved_packet(f[n - 1], q[n])
            BY <3>2, <4>2, <6>1
          <6> QED  BY <4>2, <5>1, <5>3, <6>2
        <5> QED  BY <5>2, <5>3
      <4> QED  BY <4>1, <4>2
    <3>4. Is(g, l)
      BY <3>3
    <3> QED  BY <2>3, <3>4
  <2> QED  BY <2>4, <2>5
<1>2. \E g : Is(g, m)
  BY <1>1
<1> QED  BY <1>2 DEF Sorting

LEMMA ResortIs ==
  ASSUME NEW q, Unsorted(q)
  PROVE  Arranged(q, Len(q), resort_interleaved_packets(q))
<1>1. q \in Seq(PacketType) /\ Len(q) \in Nat
  BY DEF Unsorted
<1> DEFINE s == Sorting(q, Len(q))
<1>2. resort_interleaved_packets(q) = s[Len(q)]
  BY DEF resort_interleaved_packets, Sorting
<1>3. s = [n \in 0..Len(q) |-> IF n = 0 THEN << >> ELSE insert_interleaved_packet(s[n - 1], q[n])]
  BY <1>1, SortingIs
<1> HIDE DEF s
<1> DEFINE S == {n \in Nat : n <= Len(q) /\ ~Arranged(q, n, s[n])}
<1>4. S = {}
  <2>1. SUFFICES ASSUME S # {}
                 PROVE  FALSE
    OBVIOUS
  <2> DEFINE l == Min(S)
  <2> HIDE DEF l
  <2>2. l \in S /\ \A n \in S : l <= n
    BY <2>1, LeastIs DEF l
  <2>3. l \in 0..Len(q) /\ ~Arranged(q, l, s[l])
    BY <1>1, <2>2
  <2>4. CASE l = 0
    <3>1. s[0] = << >>
      BY <1>1, <1>3
    <3>2. Arranged(q, 0, << >>)
      BY DEF Arranged, Queue, Stamped, Sorted, Spaced, Whole, Reaches, Absent
    <3> QED  BY <2>3, <2>4, <3>1, <3>2
  <2>5. CASE l # 0
    <3>1. l - 1 \in Nat /\ l - 1 <= Len(q) /\ l - 1 \notin S /\ l \in 1..Len(q)
      BY <1>1, <2>2, <2>3, <2>5
    <3>2. Arranged(q, l - 1, s[l - 1])
      BY <3>1
    <3>3. s[l] = insert_interleaved_packet(s[l - 1], q[l])
      BY <1>3, <2>3, <2>5
    <3> QED  BY <2>3, <3>1, <3>2, <3>3, NextArranged
  <2> QED  BY <2>4, <2>5
<1> QED  BY <1>1, <1>2, <1>4

-----------------------------------------------------------------------------
(* A packet enters the queue.                                              *)

Incoming(o, p) == IF Started(o) THEN apply_interleaved_packet_offset(o, p) ELSE p

LEMMA QueuedIs ==
  ASSUME NEW o \in Fields, NEW p \in PacketType, Incoming(o, p) \in PacketType, Sorted(o.packets)
  PROVE  /\ Queued(o, p) \in Fields
         /\ Queued(o, p).received = IF Started(o) THEN o.received ELSE o.received \cup {p.type}
         /\ Queued(o, p).offset = o.offset
         /\ \E k \in 1..Len(o.packets) + 1 :
              Inserted(o.packets, Queued(o, p).packets, Incoming(o, p), k)
         /\ Queued(o, p).highest = [o.highest EXCEPT ![p.type] =
              IF @ < Incoming(o, p).ts THEN Incoming(o, p).ts ELSE @]
<1> DEFINE out == Incoming(o, p)
           q == insert_interleaved_packet(o.packets, out)
           got == IF Started(o) THEN o ELSE [o EXCEPT !.received = @ \cup {p.type}]
           o1 == [got EXCEPT !.packets = q]
<1>1. out.type = p.type /\ p.type \in Type /\ out.ts \in Nat
  BY DEF Incoming, apply_interleaved_packet_offset, PacketType
<1>2. o.packets \in Seq(PacketType)
  BY DEF Fields
<1>3. PICK k \in 1..Len(o.packets) + 1 : Inserted(o.packets, q, out, k)
  BY <1>2, InsertIs
<1>4. q \in Seq(PacketType)
  BY <1>3 DEF Inserted
<1> HIDE DEF q, out
<1>5. Queued(o, p) = set_higher_ts(o1, out)
  BY DEF Queued, q, out, Incoming
<1>6. got \in Fields /\ got.received = (IF Started(o) THEN o.received ELSE o.received \cup {p.type})
      /\ got.offset = o.offset /\ got.highest = o.highest
  BY <1>1 DEF Fields
<1> HIDE DEF got
<1>7. /\ o1 \in Fields /\ o1.received = got.received /\ o1.offset = o.offset
      /\ o1.highest = o.highest /\ o1.packets = q
  BY <1>4, <1>6 DEF Fields
<1> HIDE DEF o1
<1>8. CASE o1.highest[p.type] < out.ts
  <2>1. Queued(o, p) = [o1 EXCEPT !.highest[p.type] = out.ts]
    BY <1>1, <1>5, <1>8 DEF set_higher_ts
  <2>2. /\ Queued(o, p) \in Fields /\ Queued(o, p).received = o1.received
        /\ Queued(o, p).offset = o1.offset /\ Queued(o, p).packets = q
        /\ Queued(o, p).highest = [o1.highest EXCEPT ![p.type] = out.ts]
    BY <1>1, <1>7, <2>1, ZenonT(40) DEF Fields
  <2> QED  BY <1>3, <1>6, <1>7, <1>8, <2>2 DEF out
<1>9. CASE ~(o1.highest[p.type] < out.ts)
  <2>1. Queued(o, p) = o1
    BY <1>1, <1>5, <1>9 DEF set_higher_ts
  <2>2. o.highest = [o.highest EXCEPT ![p.type] = o.highest[p.type]]
    BY <1>1 DEF Fields
  <2> QED  BY <1>3, <1>6, <1>7, <1>9, <2>1, <2>2 DEF out
<1> QED  BY <1>8, <1>9

(* The encoder of t has made a packet.                                     *)
Ticked(c, t) == [c EXCEPT ![t] = @ + Period[t]]

LEMMA QueuedKept ==
  ASSUME NEW c \in [Type -> Nat], NEW T \in SUBSET Type, NEW e \in Nat, NEW o, Kept(o, c, T, e),
         NEW p \in PacketType, p.type \in T, Incoming(o, p) \in PacketType,
         Incoming(o, p).type = p.type, Incoming(o, p).dts = c[p.type] - o.offset[p.type],
         Incoming(o, p).ts = Incoming(o, p).dts + e,
         o.highest[p.type] <= Incoming(o, p).ts
  PROVE  /\ Kept(Queued(o, p), Ticked(c, p.type), T, e)
         /\ Queued(o, p).highest = [o.highest EXCEPT ![p.type] = Incoming(o, p).ts]
<1> DEFINE in == Incoming(o, p)
           r == Queued(o, p)
           d == Ticked(c, p.type)
<1>1. /\ o \in Fields /\ o.packets \in Seq(PacketType) /\ Sorted(o.packets) /\ Queue(o.packets, e)
      /\ in \in PacketType /\ p.type \in Type /\ in.ts \in Nat /\ in.dts \in Nat /\ in.type = p.type
      /\ in.ts = in.dts + e /\ in.dts = c[p.type] - o.offset[p.type]
  BY DEF Kept, Queue, PacketType
<1>2. o.highest \in [Type -> Nat] /\ o.offset \in [Type -> Nat]
  BY <1>1 DEF Fields
<1>3. /\ r \in Fields /\ r.offset = o.offset
      /\ r.highest = [o.highest EXCEPT ![p.type] = IF @ < in.ts THEN in.ts ELSE @]
  BY <1>1, QueuedIs
<1>4. PICK k \in 1..Len(o.packets) + 1 : Inserted(o.packets, r.packets, in, k)
  BY <1>1, QueuedIs
<1> HIDE DEF in, r
<1>5. r.highest = [o.highest EXCEPT ![p.type] = in.ts]
  <2>1. o.highest[p.type] = in.ts \/ o.highest[p.type] < in.ts
    BY <1>1, <1>2 DEF in
  <2> QED  BY <1>2, <1>3, <2>1
<1>6. Reaches(o.packets, in.type, in.dts)
  BY <1>1 DEF Kept
<1>7. Queue(r.packets, e)
  BY <1>1, <1>4, <1>6, InsertKeeps
<1>8. ASSUME NEW t \in T
      PROVE  Reaches(r.packets, t, d[t] - r.offset[t])
  <2>1. /\ Reaches(r.packets, in.type, in.dts + Period[in.type])
        /\ \A u \in Type \ {in.type}, n \in Int : Reaches(o.packets, u, n) => Reaches(r.packets, u, n)
    BY <1>1, <1>4, <1>6, InsertReaches
  <2>2. CASE t = p.type
    <3>1. d[t] - r.offset[t] = in.dts + Period[in.type]
      <4>1. Period[p.type] \in Nat /\ c[p.type] \in Nat /\ o.offset[p.type] \in Nat
        BY <1>1, <1>2, PeriodAssumption
      <4>2. d[t] = c[p.type] + Period[p.type]
        BY <1>1, <2>2 DEF Ticked
      <4> QED  BY <1>1, <1>3, <2>2, <4>1, <4>2
    <3> QED  BY <1>1, <2>1, <2>2, <3>1
  <2>3. CASE t # p.type
    <3>1. d[t] - r.offset[t] = c[t] - o.offset[t] /\ c[t] - o.offset[t] \in Int
      BY <1>2, <1>3, <2>3 DEF Ticked
    <3>2. Reaches(o.packets, t, c[t] - o.offset[t])
      BY DEF Kept
    <3> QED  BY <1>1, <2>1, <2>3, <3>1, <3>2
  <2> QED  BY <2>2, <2>3
<1>9. ASSUME NEW j \in 1..Len(r.packets)
      PROVE  r.packets[j].ts <= r.highest[r.packets[j].type]
  <2>1. r.packets[j] = in \/ \E i \in 1..Len(o.packets) : r.packets[j] = o.packets[i]
    <3>1. \A l \in 1..Len(r.packets) : r.packets[l] = in \/ \E i \in 1..Len(o.packets) : r.packets[l] = o.packets[i]
      BY <1>1, <1>4, InsertHas, SMTT(30)
    <3> QED  BY <3>1
  <2>2. CASE r.packets[j] = in
    BY <1>1, <1>2, <1>5, <2>2
  <2>3. CASE \E i \in 1..Len(o.packets) : r.packets[j] = o.packets[i]
    <3>1. PICK i \in 1..Len(o.packets) : r.packets[j] = o.packets[i]
      BY <2>3
    <3>2. o.packets[i] \in PacketType /\ o.packets[i].ts <= o.highest[o.packets[i].type]
      BY <1>1 DEF Kept
    <3>3. o.packets[i].type \in Type /\ o.packets[i].ts \in Nat
      BY <3>2 DEF PacketType
    <3>4. o.highest[p.type] <= in.ts
      BY DEF in
    <3>5. o.packets[i].ts <= r.highest[o.packets[i].type]
      <4>1. CASE o.packets[i].type = p.type
        <5>1. o.packets[i].ts <= o.highest[p.type] /\ o.highest[p.type] \in Nat
          BY <1>1, <1>2, <3>2, <4>1
        <5>2. r.highest[o.packets[i].type] = in.ts
          BY <1>1, <1>2, <1>5, <4>1
        <5> QED  BY <1>1, <3>3, <3>4, <5>1, <5>2, SMTT(30)
      <4>2. CASE o.packets[i].type # p.type
        BY <1>2, <1>5, <3>2, <3>3, <4>2
      <4> QED  BY <4>1, <4>2
    <3> QED  BY <3>1, <3>5
  <2> QED  BY <2>1, <2>2, <2>3
<1>10. Kept(r, d, T, e)
  BY <1>3, <1>7, <1>8, <1>9 DEF Kept
<1> QED  BY <1>5, <1>10 DEF r, in

LEMMA QueuedFills ==
  ASSUME NEW c \in [Type -> Nat], NEW T \in SUBSET Type, NEW o, Filling(o, c, T), ~Started(o),
         NEW p \in PacketType, p.type \in T, p.dts = c[p.type], p.ts = Epoch + p.dts
  PROVE  /\ Filling(Queued(o, p), Ticked(c, p.type), T)
         /\ Queued(o, p).received = o.received \cup {p.type}
         /\ Queued(o, p).highest = [o.highest EXCEPT ![p.type] = Epoch + c[p.type]]
         /\ \E k \in 1..Len(o.packets) + 1 : Inserted(o.packets, Queued(o, p).packets, p, k)
<1> DEFINE r == Queued(o, p)
           d == Ticked(c, p.type)
<1>1. /\ Incoming(o, p) = p /\ p.type \in Type /\ Epoch \in Nat /\ Kept(o, c, T, Epoch)
      /\ o \in Fields /\ o.offset \in [Type -> Nat] /\ o.highest \in [Type -> Nat]
      /\ Sorted(o.packets)
  BY TimeAssumption DEF Incoming, PacketType, Filling, Kept, Fields, Queue
<1>2. Period \in [Type -> Nat \ {0}]
  BY PeriodAssumption
<1>3. o.offset[p.type] = 0 /\ (o.highest[p.type] = 0 \/ o.highest[p.type] + Period[p.type] <= Epoch + c[p.type])
  BY <1>1 DEF Filling
<1>4. /\ p.dts = c[p.type] - o.offset[p.type] /\ p.ts = p.dts + Epoch
      /\ o.highest[p.type] <= p.ts
  BY <1>1, <1>2, <1>3
<1>5. Kept(r, d, T, Epoch) /\ r.highest = [o.highest EXCEPT ![p.type] = p.ts]
  BY <1>1, <1>4, QueuedKept
<1>6. /\ r.received = o.received \cup {p.type} /\ r.offset = o.offset
      /\ \E k \in 1..Len(o.packets) + 1 : Inserted(o.packets, r.packets, p, k)
  <2>1. Incoming(o, p) \in PacketType
    BY <1>1
  <2>2. /\ r.received = IF Started(o) THEN o.received ELSE o.received \cup {p.type}
        /\ r.offset = o.offset
        /\ \E k \in 1..Len(o.packets) + 1 : Inserted(o.packets, r.packets, Incoming(o, p), k)
    BY <1>1, <2>1, QueuedIs
  <2> QED  BY <1>1, <2>2
<1> HIDE DEF r
<1>7. ASSUME NEW t \in Type
      PROVE  /\ r.offset[t] = 0
             /\ r.highest[t] = 0 \/ r.highest[t] + Period[t] <= Epoch + d[t]
  <2>1. o.offset[t] = 0 /\ (o.highest[t] = 0 \/ o.highest[t] + Period[t] <= Epoch + c[t])
    BY DEF Filling
  <2>2. d[t] = IF t = p.type THEN c[t] + Period[t] ELSE c[t]
    BY DEF Ticked
  <2> QED  BY <1>1, <1>2, <1>4, <1>5, <1>6, <2>1, <2>2
<1>8. r.highest = [o.highest EXCEPT ![p.type] = Epoch + c[p.type]]
  BY <1>4, <1>5
<1> QED  BY <1>5, <1>6, <1>7, <1>8 DEF Filling, r

LEMMA IncomingIs ==
  ASSUME NEW o, Started(o), NEW p \in PacketType
  PROVE  /\ Incoming(o, p).type = p.type /\ Incoming(o, p).keyframe = p.keyframe
         /\ Incoming(o, p).dts = p.dts - o.offset[p.type]
         /\ Incoming(o, p).ts = p.dts - o.offset[p.type]
         /\ p.dts - o.offset[p.type] \in Nat => Incoming(o, p) \in PacketType
<1> DEFINE n == p.dts - o.offset[p.type]
<1>1. Incoming(o, p) = [p EXCEPT !.dts = n, !.ts = n]
  BY DEF Incoming, apply_interleaved_packet_offset
<1> HIDE DEF n
<1>2. /\ Incoming(o, p).type = p.type /\ Incoming(o, p).keyframe = p.keyframe
      /\ Incoming(o, p).dts = n /\ Incoming(o, p).ts = n
      /\ n \in Nat => Incoming(o, p) \in PacketType
  BY <1>1 DEF PacketType
<1> QED  BY <1>2 DEF n

LEMMA QueuedRuns ==
  ASSUME NEW c \in [Type -> Nat], NEW T \in SUBSET Type, NEW o, Running(o, c, T), Started(o),
         NEW p \in PacketType, p.type \in T, p.dts = c[p.type]
  PROVE  /\ Running(Queued(o, p), Ticked(c, p.type), T) /\ Started(Queued(o, p))
         /\ Queued(o, p).highest = [o.highest EXCEPT ![p.type] = c[p.type] - o.offset[p.type]]
         /\ c[p.type] - o.offset[p.type] \in Nat /\ Incoming(o, p) \in PacketType
         /\ \E k \in 1..Len(o.packets) + 1 : Inserted(o.packets, Queued(o, p).packets, Incoming(o, p), k)
<1> DEFINE r == Queued(o, p)
           d == Ticked(c, p.type)
           n == c[p.type] - o.offset[p.type]
           in == Incoming(o, p)
<1>1. /\ p.type \in Type /\ Kept(o, c, T, 0)
      /\ o \in Fields /\ o.offset \in [Type -> Nat] /\ o.highest \in [Type -> Nat]
      /\ Sorted(o.packets)
  BY DEF PacketType, Running, Kept, Fields, Queue
<1>2. Period \in [Type -> Nat \ {0}]
  BY PeriodAssumption
<1>3. o.highest[p.type] + Period[p.type] <= n
  BY <1>1 DEF Running
<1>4. n \in Nat /\ o.highest[p.type] <= n
  BY <1>1, <1>2, <1>3
<1> HIDE DEF n
<1>5. p.dts - o.offset[p.type] = n
  BY DEF n
<1> HIDE DEF in
<1>6. in \in PacketType /\ in.type = p.type /\ in.dts = n /\ in.ts = n
  BY <1>4, <1>5, IncomingIs DEF in
<1>7. Kept(r, d, T, 0) /\ r.highest = [o.highest EXCEPT ![p.type] = n]
  <2>1. Incoming(o, p).ts = Incoming(o, p).dts + 0
    BY <1>4, <1>6 DEF in
  <2>2. /\ Incoming(o, p) \in PacketType /\ Incoming(o, p).type = p.type
        /\ Incoming(o, p).dts = c[p.type] - o.offset[p.type]
        /\ o.highest[p.type] <= Incoming(o, p).ts
    BY <1>4, <1>6 DEF in, n
  <2>3. Kept(r, d, T, 0) /\ r.highest = [o.highest EXCEPT ![p.type] = Incoming(o, p).ts]
    BY <1>1, <2>1, <2>2, QueuedKept
  <2> QED  BY <1>6, <2>3 DEF in
<1>8. /\ r.received = o.received /\ r.offset = o.offset
      /\ \E k \in 1..Len(o.packets) + 1 : Inserted(o.packets, r.packets, in, k)
  BY <1>1, <1>6, QueuedIs DEF in
<1>9. Started(r)
  BY <1>8 DEF Started
<1> HIDE DEF r
<1>10. ASSUME NEW t \in Type
       PROVE  r.highest[t] + Period[t] <= d[t] - r.offset[t]
  <2>1. o.highest[t] + Period[t] <= c[t] - o.offset[t]
    BY DEF Running
  <2>2. d[t] = IF t = p.type THEN c[t] + Period[t] ELSE c[t]
    BY DEF Ticked
  <2> QED  BY <1>1, <1>2, <1>4, <1>7, <1>8, <2>1, <2>2 DEF n
<1> QED  BY <1>4, <1>6, <1>7, <1>8, <1>9, <1>10 DEF Running, r, in, n

LEMMA QueuedContinues ==
  ASSUME NEW c \in [Type -> Nat], NEW T \in SUBSET Type, NEW o, Running(o, c, T), Started(o),
         NEW p \in PacketType, p.type \in T, p.dts = c[p.type],
         NEW s \in Seq(PacketType), Continues(o, c, T, s)
  PROVE  Continues(Queued(o, p), Ticked(c, p.type), T, s)
<1> DEFINE r == Queued(o, p)
           d == Ticked(c, p.type)
           n == c[p.type] - o.offset[p.type]
           in == Incoming(o, p)
<1>1. /\ p.type \in Type /\ o \in Fields /\ o.offset \in [Type -> Nat] /\ o.packets \in Seq(PacketType)
      /\ Queue(o.packets, 0) /\ Reaches(o.packets, p.type, n)
  BY DEF PacketType, Running, Kept, Fields, Queue
<1> HIDE DEF in, r, n
<1>2. /\ r.offset = o.offset /\ in \in PacketType
      /\ in.type = p.type /\ in.dts = n /\ in.ts = n
  <2>1. Incoming(o, p) \in PacketType
    BY QueuedRuns
  <2>3. Queued(o, p).offset = o.offset
    <3>1. Sorted(o.packets)
      BY <1>1 DEF Queue
    <3> QED  BY <1>1, <2>1, <3>1, QueuedIs
  <2>2. Incoming(o, p).type = p.type /\ Incoming(o, p).dts = n /\ Incoming(o, p).ts = n
    BY IncomingIs DEF n
  <2> QED  BY <2>1, <2>2, <2>3 DEF in, r
<1>3. PICK k \in 1..Len(o.packets) + 1 : Inserted(o.packets, r.packets, in, k)
  BY QueuedRuns DEF in, r
<1>4. in.type = p.type /\ in.dts = n /\ in.ts = n /\ in.ts = in.dts + 0 /\ n \in Nat
  BY <1>2 DEF PacketType
<1>5. \A t \in T : d[t] = IF t = p.type THEN c[t] + Period[t] ELSE c[t]
  BY <1>1 DEF Ticked
<1> HIDE DEF d
<1>6. ASSUME s # << >>
      PROVE  /\ \A i \in 1..Len(r.packets) : s[Len(s)].ts <= r.packets[i].ts
             /\ \A t \in T : s[Len(s)].ts <= d[t] - r.offset[t]
  <2>1. /\ \A i \in 1..Len(o.packets) : s[Len(s)].ts <= o.packets[i].ts
        /\ \A t \in T : s[Len(s)].ts <= c[t] - o.offset[t]
    BY <1>6 DEF Continues
  <2>2. s[Len(s)].ts \in Nat
    <3>1. s[Len(s)] \in PacketType
      <4>1. Len(s) \in 1..Len(s)
        BY <1>6
      <4> QED  BY <4>1
    <3> QED  BY <3>1 DEF PacketType
  <2>3. \A i \in 1..Len(r.packets) : r.packets[i] = in \/ \E j \in 1..Len(o.packets) : r.packets[i] = o.packets[j]
    BY <1>1, <1>3, InsertHas
  <2>4. s[Len(s)].ts <= in.ts
    BY <1>4, <2>1 DEF n
  <2>5. \A i \in 1..Len(r.packets) : s[Len(s)].ts <= r.packets[i].ts
    BY <2>1, <2>3, <2>4
  <2>6. ASSUME NEW t \in T
        PROVE  s[Len(s)].ts <= d[t] - r.offset[t]
    <3>1. Period[t] \in Nat /\ c[t] \in Nat /\ o.offset[t] \in Nat /\ s[Len(s)].ts <= c[t] - o.offset[t]
      BY <1>1, <2>1, PeriodAssumption
    <3>2. d[t] = c[t] + Period[t] \/ d[t] = c[t]
      BY <1>5
    <3> QED  BY <1>2, <2>2, <3>1, <3>2
  <2> QED  BY <2>5, <2>6
<1>7. ASSUME NEW j \in 1..Len(r.packets), IsFirst(r.packets, j)
      PROVE  Comes(s, r.packets[j].type, Len(s), r.packets[j].ts)
  <2>1. Reaches(o.packets, in.type, in.dts) /\ 0 \in Nat
    BY <1>1, <1>4
  <2>2. \/ r.packets[j] = in /\ Absent(o.packets, in.type)
        \/ \E i \in 1..Len(o.packets) : IsFirst(o.packets, i) /\ o.packets[i] = r.packets[j]
    <3> DEFINE q == o.packets
               w == r.packets
    <3>1. Queue(q, 0) /\ Inserted(q, w, in, k) /\ Reaches(q, in.type, in.dts) /\ j \in 1..Len(w) /\ IsFirst(w, j)
      BY <1>1, <1>3, <1>7, <2>1
    <3> HIDE DEF q, w
    <3>2. \/ w[j] = in /\ Absent(q, in.type)
          \/ \E i \in 1..Len(q) : IsFirst(q, i) /\ q[i] = w[j]
      <4>1. in \in PacketType /\ in.ts = in.dts + 0
        BY <1>2, <1>4
      <4> QED  BY <2>1, <3>1, <4>1, InsertFirst
    <3> QED  BY <3>2 DEF q, w
  <2>3. CASE r.packets[j] = in /\ Absent(o.packets, in.type)
    BY <1>4, <2>3 DEF Continues, n
  <2>4. CASE \E i \in 1..Len(o.packets) : IsFirst(o.packets, i) /\ o.packets[i] = r.packets[j]
    BY <2>4 DEF Continues
  <2> QED  BY <2>2, <2>3, <2>4
<1>8. ASSUME NEW t \in T, Absent(r.packets, t)
      PROVE  Comes(s, t, Len(s), d[t] - r.offset[t])
  <2>1. \A u : Absent(r.packets, u) <=> Absent(o.packets, u) /\ u # in.type
    BY <1>1, <1>3, InsertHas
  <2>2. Absent(o.packets, t) /\ d[t] = c[t]
    BY <1>4, <1>5, <1>8, <2>1
  <2> QED  BY <1>2, <2>2 DEF Continues
<1> QED  BY <1>6, <1>7, <1>8 DEF Continues, r, d

-----------------------------------------------------------------------------
(* Packets are discarded before the start.                                 *)

LEMMA DiscardFills ==
  ASSUME NEW c, NEW T, NEW o, Filling(o, c, T), NEW n \in 0..Len(o.packets)
  PROVE  /\ Filling(discard_to_idx(o, n), c, T)
         /\ Suffix(o.packets, discard_to_idx(o, n).packets, n)
         /\ discard_to_idx(o, n).received = o.received
         /\ discard_to_idx(o, n).highest = o.highest
         /\ \A t : Absent(o.packets, t) => Absent(discard_to_idx(o, n).packets, t)
<1> DEFINE r == discard_to_idx(o, n)
           q == SubSeq(o.packets, n + 1, Len(o.packets))
<1>1. o \in Fields /\ o.packets \in Seq(PacketType) /\ Kept(o, c, T, Epoch) /\ Queue(o.packets, Epoch)
  BY DEF Filling, Kept, Fields
<1>2. Suffix(o.packets, q, n)
  BY <1>1, SuffixIs
<1>3. q \in Seq(PacketType)
  BY <1>2 DEF Suffix
<1> HIDE DEF q
<1>4. r = [o EXCEPT !.packets = q]
  BY DEF discard_to_idx, q
<1>5. /\ r \in Fields /\ r.packets = q /\ r.received = o.received
      /\ r.offset = o.offset /\ r.highest = o.highest
  BY <1>1, <1>3, <1>4 DEF Fields
<1> HIDE DEF r
<1>6. Queue(q, Epoch)
  BY <1>1, <1>2, SuffixKeeps, TimeAssumption
<1>7. ASSUME NEW t \in T
      PROVE  Reaches(q, t, c[t] - o.offset[t])
  <2>1. Reaches(o.packets, t, c[t] - o.offset[t])
    BY <1>1 DEF Kept
  <2> QED  BY <1>2, <2>1, SuffixReaches
<1>8. ASSUME NEW i \in 1..Len(q)
      PROVE  q[i].ts <= o.highest[q[i].type]
  BY <1>1, <1>2 DEF Suffix, Kept
<1>9. Kept(r, c, T, Epoch)
  BY <1>5, <1>6, <1>7, <1>8 DEF Kept
<1>10. Filling(r, c, T)
  BY <1>5, <1>9 DEF Filling
<1>11. \A t : Absent(o.packets, t) => Absent(q, t)
  BY <1>2 DEF Suffix, Absent
<1> QED  BY <1>2, <1>5, <1>10, <1>11 DEF r

(* discard_unused_audio_packets drops some number of packets.              *)
LEMMA UnusedIs ==
  ASSUME NEW o, o.packets \in Seq(PacketType), NEW ts
  PROVE  \E n \in 0..Len(o.packets) :
           /\ discard_unused_audio_packets(o, ts) = discard_to_idx(o, n)
           /\ \A i \in 1..n : ~(o.packets[i].ts >= ts)
           /\ n < Len(o.packets) => o.packets[n + 1].ts >= ts
<1> DEFINE q == o.packets
           I == {i \in 1..Len(q) : q[i].ts >= ts}
           n == IF I = {} THEN Len(q) ELSE Min(I) - 1
<1>1. Len(q) \in Nat /\ I \subseteq Nat
  OBVIOUS
<1>2. SelectInSeq(q, LAMBDA p : p.ts >= ts) = IF I # {} THEN Min(I) ELSE 0
  BY DEF SelectInSeq
<1>3. CASE I = {}
  <2>1. discard_unused_audio_packets(o, ts) = discard_to_idx(o, Len(q))
    BY <1>2, <1>3 DEF discard_unused_audio_packets
  <2> QED  BY <1>1, <1>3, <2>1
<1>4. CASE I # {}
  <2> DEFINE m == Min(I)
  <2>1. m \in I /\ \A l \in I : m <= l
    BY <1>1, <1>4, LeastIs
  <2> HIDE DEF m
  <2>2. m \in 1..Len(q) /\ q[m].ts >= ts
    BY <2>1
  <2>3. discard_unused_audio_packets(o, ts) = discard_to_idx(o, m - 1)
    BY <1>1, <1>2, <1>4, <2>2 DEF discard_unused_audio_packets, m
  <2>4. ASSUME NEW i \in 1..m - 1, q[i].ts >= ts
        PROVE  FALSE
    <3>1. i \in 1..Len(q) /\ i < m
      BY <1>1, <2>2
    <3> QED  BY <2>1, <2>4, <3>1
  <2>5. m - 1 \in 0..Len(q) /\ (m - 1) + 1 = m
    BY <1>1, <2>2
  <2> QED  BY <2>2, <2>3, <2>4, <2>5
<1> QED  BY <1>3, <1>4

-----------------------------------------------------------------------------
(* The start of the stream.                                                *)

(* How far packet i is from the first video packet.                        *)
Distance(o, i) ==
  IF o.packets[i].ts < First(o, "video").ts
  THEN First(o, "video").ts - o.packets[i].ts
  ELSE o.packets[i].ts - First(o, "video").ts

(* The packet at k is the audio closest to the first video packet.         *)
Closest(o, k) ==
  /\ k \in 1..Len(o.packets) /\ o.packets[k].type = "audio"
  /\ \A j \in 1..Len(o.packets) : o.packets[j].type = "audio" =>
       Distance(o, k) <= Distance(o, j) /\ (Distance(o, k) = Distance(o, j) => k <= j)

LEMMA StartIs ==
  ASSUME NEW o, o.packets \in Seq(PacketType), ~Absent(o.packets, "audio"), ~Absent(o.packets, "video")
  PROVE  \E k : /\ Closest(o, k)
                /\ get_interleaved_start_idx(o) =
                     IF FirstOf(o, "video") < k THEN FirstOf(o, "video") - 1 ELSE k - 1
<1> DEFINE q == o.packets
           Audio == {i \in DOMAIN q : q[i].type = "audio"}
           Nearest(i) == /\ \A j \in Audio : Distance(o, i) <= Distance(o, j)
                         /\ \A j \in Audio : Distance(o, i) = Distance(o, j) => i <= j
           k == CHOOSE i \in Audio : Nearest(i)
<1>1. DOMAIN q = 1..Len(q) /\ Len(q) \in Nat /\ Audio \subseteq Nat /\ Audio # {}
  BY DEF Absent
<1>2. First(o, "video").ts \in Nat
  <2>1. First(o, "video") \in PacketType
    BY FirstIs DEF First
  <2> QED  BY <2>1 DEF PacketType
<1>3. ASSUME NEW i \in Audio
      PROVE  Distance(o, i) \in Nat
  <2>1. q[i].ts \in Nat
    <3>1. q[i] \in PacketType
      BY <1>1
    <3> QED  BY <3>1 DEF PacketType
  <2> QED  BY <1>2, <2>1 DEF Distance
<1> HIDE DEF Audio
<1> DEFINE F == {Distance(o, i) : i \in Audio}
           m == Min(F)
           N == {i \in Audio : Distance(o, i) = m}
<1>4. m \in F /\ \A n \in F : m <= n
  <2>1. F \subseteq Nat /\ F # {}
    BY <1>1, <1>3
  <2> HIDE DEF F
  <2> QED  BY <2>1, LeastIs
<1> HIDE DEF m
<1>5. N \subseteq Nat /\ N # {}
  BY <1>1, <1>4
<1>6. Min(N) \in N /\ \A n \in N : Min(N) <= n
  <2> HIDE DEF N
  <2> QED  BY <1>5, LeastIs
<1>7. Min(N) \in Audio /\ Nearest(Min(N))
  BY <1>4, <1>6
<1> HIDE DEF N
<1>8. \E i \in Audio : Nearest(i)
  BY <1>7
<1>9. k \in Audio /\ Nearest(k)
  <2> HIDE DEF Nearest
  <2> QED  BY <1>8
<1>10. Closest(o, k)
  BY <1>1, <1>9 DEF Closest, Audio
<1>11. get_interleaved_start_idx(o) =
         IF FirstOf(o, "video") < k THEN FirstOf(o, "video") - 1 ELSE k - 1
  BY DEF get_interleaved_start_idx, Audio, Distance
<1> QED  BY <1>10, <1>11

(* Every packet of a type comes at or after the first one.                 *)
LEMMA FirstLeast ==
  ASSUME NEW o, NEW e \in Nat, Queue(o.packets, e), NEW i \in 1..Len(o.packets)
  PROVE  LET f == First(o, o.packets[i].type)
         IN  /\ f \in PacketType /\ f.type = o.packets[i].type /\ f.ts = f.dts + e
             /\ f.dts <= o.packets[i].dts /\ f.ts <= o.packets[i].ts
<1> DEFINE q == o.packets
           t == q[i].type
           l == FirstOf(o, t)
<1>1. q \in Seq(PacketType) /\ Len(q) \in Nat /\ \A j \in 1..Len(q) : q[j] \in PacketType /\ q[j].ts = q[j].dts + e
  BY DEF Queue, Stamped
<1>2. l \in 1..Len(q) /\ q[l].type = t /\ IsFirst(q, l)
  BY <1>1, FirstIs DEF Absent
<1>3. First(o, t) = q[l]
  BY DEF First
<1> HIDE DEF l
<1>4. q[l].dts \in Nat /\ q[i].dts \in Nat /\ Period[t] \in Nat
  BY <1>1, <1>2, PeriodAssumption DEF PacketType
<1>5. ~(i < l)
  BY <1>1, <1>2 DEF IsFirst
<1>6. l < i => q[l].dts + Period[t] <= q[i].dts
  BY <1>2 DEF Queue, Spaced
<1>7. l = i \/ l < i
  BY <1>1, <1>2, <1>5
<1>8. q[l].dts <= q[i].dts
  BY <1>4, <1>6, <1>7
<1>9. q[l].ts <= q[i].ts
  BY <1>1, <1>2, <1>4, <1>8
<1> QED  BY <1>1, <1>2, <1>3, <1>8, <1>9

(* q with f taken from the dts of each type.                               *)
Moved(q, f) == [i \in DOMAIN q |-> [q[i] EXCEPT !.dts = q[i].dts - f[q[i].type],
                                                !.ts = q[i].dts - f[q[i].type]]]

LEMMA MovedIs ==
  ASSUME NEW e \in Nat, NEW q, Queue(q, e), NEW f \in [Type -> Nat],
         \A i \in 1..Len(q) : f[q[i].type] <= q[i].dts
  PROVE  /\ Unsorted(Moved(q, f)) /\ Len(Moved(q, f)) = Len(q)
         /\ \A i \in 1..Len(q) : /\ Moved(q, f)[i].type = q[i].type
                                 /\ Moved(q, f)[i].keyframe = q[i].keyframe
                                 /\ Moved(q, f)[i].dts = q[i].dts - f[q[i].type]
                                 /\ Moved(q, f)[i].ts = q[i].dts - f[q[i].type]
         /\ \A t \in Type, d \in Int : Reaches(q, t, d) => ReachesAt(Moved(q, f), Len(q), t, d - f[t])
<1> DEFINE r == Moved(q, f)
<1>1. /\ q \in Seq(PacketType) /\ Len(q) \in Nat /\ DOMAIN q = 1..Len(q)
      /\ \A i \in 1..Len(q) : q[i] \in PacketType
  BY DEF Queue
<1>2. \A i \in 1..Len(q) : q[i].type \in Type /\ q[i].dts \in Nat /\ f[q[i].type] \in Nat
  BY <1>1 DEF PacketType
<1>3. ASSUME NEW i \in 1..Len(q)
      PROVE  /\ r[i].type = q[i].type /\ r[i].keyframe = q[i].keyframe
             /\ r[i].dts = q[i].dts - f[q[i].type] /\ r[i].ts = q[i].dts - f[q[i].type]
             /\ r[i] \in PacketType
  <2> DEFINE n == q[i].dts - f[q[i].type]
  <2>1. n \in Nat
    BY <1>2
  <2> HIDE DEF n
  <2>2. r[i] = [q[i] EXCEPT !.dts = n, !.ts = n]
    BY <1>1 DEF Moved, n
  <2>3. q[i] \in PacketType
    BY <1>1
  <2>4. /\ r[i].type = q[i].type /\ r[i].keyframe = q[i].keyframe
        /\ r[i].dts = n /\ r[i].ts = n /\ r[i] \in PacketType
    BY <2>1, <2>2, <2>3 DEF PacketType
  <2> QED  BY <2>4 DEF n
<1>4. r \in Seq(PacketType) /\ Len(r) = Len(q)
  <2>1. r = [i \in 1..Len(q) |-> r[i]]
    BY <1>1 DEF Moved
  <2> HIDE DEF r
  <2> QED  BY <1>1, <1>3, <2>1
<1> HIDE DEF r
<1>5. Stamped(r, 0)
  BY <1>1, <1>2, <1>3, <1>4 DEF Stamped
<1>6. Spaced(r)
  <2>1. SUFFICES ASSUME NEW i \in 1..Len(q), NEW j \in 1..Len(q), i < j, r[i].type = r[j].type
                 PROVE  r[i].dts + Period[r[i].type] <= r[j].dts
    BY <1>4 DEF Spaced
  <2>2. q[i].type = q[j].type
    BY <1>3, <2>1
  <2>3. q[i].dts + Period[q[i].type] <= q[j].dts
    BY <2>1, <2>2 DEF Queue, Spaced
  <2>4. Period[q[i].type] \in Nat
    BY <1>2, PeriodAssumption
  <2> QED  BY <1>2, <1>3, <2>2, <2>3, <2>4, SMTT(30)
<1>7. ASSUME NEW i \in 1..Len(q), IsFirst(q, i)
      PROVE  IsFirst(r, i)
  <2>1. \A j \in 1..i - 1 : j \in 1..Len(q)
    BY <1>1
  <2> QED  BY <1>3, <1>7, <2>1 DEF IsFirst
<1>8. Whole(r)
  <2>1. SUFFICES ASSUME NEW j \in 1..Len(q)
                 PROVE  \/ IsFirst(r, j)
                        \/ \E i \in 1..j - 1 : r[i].type = r[j].type /\ r[j].dts = r[i].dts + Period[r[j].type]
    BY <1>4 DEF Whole
  <2>2. \/ IsFirst(q, j)
        \/ \E i \in 1..j - 1 : q[i].type = q[j].type /\ q[j].dts = q[i].dts + Period[q[j].type]
    BY DEF Queue, Whole
  <2>3. CASE \E i \in 1..j - 1 : q[i].type = q[j].type /\ q[j].dts = q[i].dts + Period[q[j].type]
    <3>1. PICK i \in 1..j - 1 : q[i].type = q[j].type /\ q[j].dts = q[i].dts + Period[q[j].type]
      BY <2>3
    <3>2. i \in 1..Len(q)
      BY <1>1
    <3>3. Period[q[j].type] \in Nat
      BY <1>2, PeriodAssumption
    <3>4. r[i].type = r[j].type /\ r[j].dts = r[i].dts + Period[r[j].type]
      BY <1>2, <1>3, <3>1, <3>2, <3>3
    <3> QED  BY <3>4
  <2> QED  BY <1>7, <2>2, <2>3
<1>9. ASSUME NEW t \in Type, NEW d \in Int, Reaches(q, t, d)
      PROVE  ReachesAt(r, Len(q), t, d - f[t])
  <2>1. CASE Absent(q, t)
    BY <1>3, <2>1 DEF Absent, ReachesAt
  <2>2. CASE ~Absent(q, t)
    <3>1. PICK i \in 1..Len(q) : /\ q[i].type = t /\ q[i].dts + Period[t] = d
                                 /\ \A j \in i + 1..Len(q) : q[j].type # t
      BY <1>9, <2>2 DEF Reaches
    <3>2. \A j \in i + 1..Len(q) : j \in 1..Len(q)
      BY <1>1
    <3>3. Period[t] \in Nat
      BY PeriodAssumption
    <3>4. r[i].type = t /\ r[i].dts + Period[t] = d - f[t]
      BY <1>2, <1>3, <3>1, <3>3
    <3> QED  BY <1>3, <3>1, <3>2, <3>4 DEF ReachesAt
  <2> QED  BY <2>1, <2>2
<1> QED  BY <1>3, <1>4, <1>5, <1>6, <1>8, <1>9 DEF Unsorted, r

LEMMA InitRuns ==
  ASSUME NEW c \in [Type -> Nat], NEW T \in SUBSET Type, NEW o, Filling(o, c, T), o.received = Type,
         \A t \in Type : ~Absent(o.packets, t)
  PROVE  LET r == initialize_interleaved_packets(o)
         IN  /\ Running(r, c, T) /\ Started(r) /\ Continues(r, c, T, << >>)
             /\ \A t \in Type : ~Absent(r.packets, t) /\ r.offset[t] = First(o, t).dts
             /\ \A t \in Type, i \in 1..Len(r.packets) :
                  r.packets[i].type = t /\ IsFirst(r.packets, i) =>
                    r.packets[i].keyframe = First(o, t).keyframe
<1> DEFINE q == o.packets
           r == initialize_interleaved_packets(o)
           f == [t \in Type |-> First(o, t).dts]
           h == [t \in Type |-> o.highest[t] - First(o, t).ts]
           m == Moved(q, f)
           s == resort_interleaved_packets(m)
<1>1. /\ o \in Fields /\ Queue(q, Epoch) /\ q \in Seq(PacketType) /\ Len(q) \in Nat /\ Epoch \in Nat \ {0}
      /\ o.highest \in [Type -> Nat] /\ o.offset \in [Type -> Nat] /\ DOMAIN q = 1..Len(q)
  BY TimeAssumption DEF Filling, Kept, Fields, Queue
<1>2. ASSUME NEW t \in Type
      PROVE  /\ FirstOf(o, t) \in 1..Len(q) /\ First(o, t) = q[FirstOf(o, t)]
             /\ First(o, t) \in PacketType /\ First(o, t).type = t
             /\ First(o, t).ts = First(o, t).dts + Epoch /\ First(o, t).dts \in Nat
             /\ First(o, t).ts <= o.highest[t]
  <2>1. FirstOf(o, t) \in 1..Len(q) /\ q[FirstOf(o, t)].type = t
    BY <1>1, FirstIs
  <2>2. First(o, t) = q[FirstOf(o, t)]
    BY DEF First
  <2>3. First(o, t) \in PacketType
    BY <1>1, <2>1, <2>2
  <2>4. First(o, t).ts = First(o, t).dts + Epoch
    BY <1>1, <2>1, <2>2 DEF Queue, Stamped
  <2>5. First(o, t).ts <= o.highest[t]
    BY <2>1, <2>2 DEF Filling, Kept
  <2> QED  BY <2>1, <2>2, <2>3, <2>4, <2>5 DEF PacketType
<1>3. f \in [Type -> Nat] /\ \A t \in Type : f[t] = First(o, t).dts
  BY <1>2
<1>4. h \in [Type -> Nat] /\ \A t \in Type : h[t] = o.highest[t] - First(o, t).ts
  <2>1. \A t \in Type : o.highest[t] - First(o, t).ts \in Nat
    BY <1>1, <1>2
  <2> QED  BY <2>1
<1>5. r = [o EXCEPT !.offset = f, !.highest = h, !.packets = s]
  <2> DEFINE g == [o EXCEPT !.offset = f, !.highest = h]
  <2>1. g.offset = f
    BY <1>1 DEF Fields
  <2>2. [i \in DOMAIN q |-> apply_interleaved_packet_offset(g, q[i])] = m
    BY <2>1 DEF apply_interleaved_packet_offset, Moved
  <2>3. r = [g EXCEPT !.packets = resort_interleaved_packets(
                       [i \in DOMAIN q |-> apply_interleaved_packet_offset(g, q[i])])]
    BY DEF initialize_interleaved_packets
  <2>4. r = [g EXCEPT !.packets = s]
    BY <2>2, <2>3
  <2> QED  BY <2>4
<1> HIDE DEF r, f, h, s
<1>6. \A i \in 1..Len(q) : f[q[i].type] <= q[i].dts
  <2>1. TAKE i \in 1..Len(q)
  <2>2. q[i] \in PacketType
    BY <1>1
  <2>3. q[i].type \in Type
    BY <2>2 DEF PacketType
  <2>4. First(o, q[i].type).dts <= q[i].dts
    BY <1>1, FirstLeast
  <2> QED  BY <1>3, <2>3, <2>4
<1>7. /\ Unsorted(m) /\ Len(m) = Len(q)
      /\ \A i \in 1..Len(q) : /\ m[i].type = q[i].type /\ m[i].keyframe = q[i].keyframe
                              /\ m[i].dts = q[i].dts - f[q[i].type]
                              /\ m[i].ts = q[i].dts - f[q[i].type]
      /\ \A t \in Type, d \in Int : Reaches(q, t, d) => ReachesAt(m, Len(q), t, d - f[t])
  BY <1>1, <1>3, <1>6, MovedIs
<1> HIDE DEF m
<1>8. Arranged(m, Len(q), s)
  BY <1>7, ResortIs DEF s
<1>9. Queue(s, 0) /\ s \in Seq(PacketType) /\ Len(s) \in Nat
  BY <1>8 DEF Arranged, Queue
<1>10. /\ r \in Fields /\ r.offset = f /\ r.highest = h /\ r.packets = s /\ r.received = Type
  BY <1>1, <1>3, <1>4, <1>5, <1>9 DEF Fields
<1>11. ASSUME NEW t \in T
       PROVE  Reaches(s, t, c[t] - f[t])
  <2>1. Reaches(q, t, c[t])
    <3>1. o.offset[t] = 0 /\ Reaches(q, t, c[t] - o.offset[t])
      BY DEF Filling, Kept
    <3>2. c[t] - o.offset[t] = c[t]
      BY <3>1
    <3> QED  BY <3>1, <3>2
  <2>2. c[t] \in Int /\ c[t] - f[t] \in Int
    BY <1>3
  <2>3. ReachesAt(m, Len(q), t, c[t] - f[t])
    BY <1>7, <2>1, <2>2
  <2> QED  BY <1>8, <2>2, <2>3 DEF Arranged
<1>12. ASSUME NEW j \in 1..Len(s)
       PROVE  s[j].ts <= h[s[j].type]
  <2>1. PICK i \in 1..Len(q) : s[j] = m[i]
    BY <1>8 DEF Arranged
  <2>2. q[i] \in PacketType /\ q[i].ts = q[i].dts + Epoch /\ q[i].ts <= o.highest[q[i].type]
    BY <1>1 DEF Queue, Stamped, Filling, Kept
  <2>3. q[i].type \in Type /\ q[i].dts \in Nat
    BY <2>2 DEF PacketType
  <2>4. s[j].ts = q[i].dts - First(o, q[i].type).dts /\ s[j].type = q[i].type
    BY <1>3, <1>7, <2>1, <2>3
  <2> DEFINE F == First(o, q[i].type)
             H == o.highest[q[i].type]
  <2>5. F.ts = F.dts + Epoch /\ F.dts \in Nat /\ H \in Nat /\ h[q[i].type] = H - F.ts /\ q[i].ts <= H
    BY <1>1, <1>2, <1>4, <2>2, <2>3
  <2>6. s[j].ts = q[i].dts - F.dts
    BY <2>4
  <2> HIDE DEF F, H
  <2>7. s[j].ts <= h[q[i].type]
    BY <1>1, <2>2, <2>3, <2>5, <2>6
  <2> QED  BY <2>4, <2>7
<1>13. ASSUME NEW t \in Type
       PROVE  h[t] + Period[t] <= c[t] - f[t]
  <2>1. o.highest[t] = 0 \/ o.highest[t] + Period[t] <= Epoch + c[t]
    BY DEF Filling
  <2>2. Period[t] \in Nat
    BY PeriodAssumption
  <2> DEFINE F == First(o, t)
             H == o.highest[t]
  <2>3. /\ F.ts = F.dts + Epoch /\ F.dts \in Nat /\ H \in Nat /\ F.ts <= H
        /\ h[t] = H - F.ts /\ f[t] = F.dts /\ c[t] \in Nat
    BY <1>1, <1>2, <1>3, <1>4
  <2>4. H = 0 \/ H + Period[t] <= Epoch + c[t]
    BY <2>1
  <2> HIDE DEF F, H
  <2> QED  BY <1>1, <2>2, <2>3, <2>4
<1>14. Running(r, c, T) /\ Started(r)
  BY <1>9, <1>10, <1>11, <1>12, <1>13 DEF Running, Kept, Started
<1>15. ASSUME NEW t \in Type
       PROVE  ~Absent(s, t)
  <2>1. m[FirstOf(o, t)].type = t /\ FirstOf(o, t) \in 1..Len(q)
    BY <1>2, <1>7
  <2> QED  BY <1>8, <2>1 DEF Arranged
<1>16. ASSUME NEW j \in 1..Len(s), IsFirst(s, j)
       PROVE  s[j].ts = 0 /\ s[j].keyframe = First(o, s[j].type).keyframe
  <2>1. PICK i \in 1..Len(q) : IsFirst(m, i) /\ m[i] = s[j]
    BY <1>8, <1>16 DEF Arranged
  <2>2. IsFirst(q, i)
    <3>1. \A l \in 1..i - 1 : l \in 1..Len(q)
      BY <1>1
    <3> QED  BY <1>7, <2>1, <3>1 DEF IsFirst
  <2>3. q[i] = First(o, q[i].type)
    BY <1>1, <2>2, FirstUnique DEF First
  <2>4. q[i] \in PacketType /\ q[i].type \in Type /\ q[i].dts \in Nat
    <3>1. q[i] \in PacketType
      BY <1>1
    <3> QED  BY <3>1 DEF PacketType
  <2>5. f[q[i].type] = q[i].dts
    BY <1>3, <2>3, <2>4
  <2> QED  BY <1>7, <2>1, <2>3, <2>4, <2>5
<1>17. Continues(r, c, T, << >>)
  BY <1>10, <1>15, <1>16 DEF Continues, Comes
<1> QED  BY <1>10, <1>14, <1>15, <1>16, <1>17 DEF r, f, h

LEMMA MissingIs ==
  ASSUME NEW o, o.packets \in Seq(PacketType)
  PROVE  /\ Missing(o) = {t \in Type : Absent(o.packets, t)}
         /\ Missing(o) = {} <=> \A t \in Type : ~Absent(o.packets, t)
<1>1. \A t \in Type : Has(o, t) <=> ~Absent(o.packets, t)
  BY FirstIs
<1> QED  BY <1>1 DEF Missing

(* prune_interleaved_packets drops some number of packets.                 *)
LEMMA PrunedIs ==
  ASSUME NEW o, o.packets \in Seq(PacketType), \A t \in Type : ~Absent(o.packets, t)
  PROVE  /\ Pruned(o) = IF Premature(o) THEN discard_to_idx(o, MaxIdx(o))
                        ELSE discard_to_idx(o, get_interleaved_start_idx(o))
         /\ MaxIdx(o) \in 0..Len(o.packets)
         /\ get_interleaved_start_idx(o) \in 0..Len(o.packets)
<1>1. Missing(o) = {}
  BY MissingIs
<1>2. ~Absent(o.packets, "audio") /\ ~Absent(o.packets, "video")
  BY DEF Type
<1>3. /\ Len(o.packets) \in Nat
      /\ FirstOf(o, "audio") \in 1..Len(o.packets) /\ FirstOf(o, "video") \in 1..Len(o.packets)
  BY <1>2, FirstIs
<1>4. MaxIdx(o) \in 0..Len(o.packets)
  BY <1>3 DEF MaxIdx
<1>5. PICK k : /\ Closest(o, k)
               /\ get_interleaved_start_idx(o) =
                    IF FirstOf(o, "video") < k THEN FirstOf(o, "video") - 1 ELSE k - 1
  BY <1>2, StartIs
<1>6. k \in 1..Len(o.packets)
  BY <1>5 DEF Closest
<1>7. get_interleaved_start_idx(o) \in 0..Len(o.packets)
  BY <1>3, <1>5, <1>6
<1> QED  BY <1>1, <1>4, <1>7 DEF Pruned, prune_interleaved_packets

LEMMA PrunedFills ==
  ASSUME NEW c, NEW T, NEW o, Filling(o, c, T)
  PROVE  /\ Filling(Pruned(o), c, T) /\ Pruned(o).received = o.received
         /\ Pruned(o).packets \in Seq(PacketType)
         /\ \A t : Absent(o.packets, t) => Absent(Pruned(o).packets, t)
<1>1. o.packets \in Seq(PacketType)
  BY DEF Filling, Kept, Queue
<1>2. CASE \A t \in Type : ~Absent(o.packets, t)
  <2>1. PICK n \in 0..Len(o.packets) : Pruned(o) = discard_to_idx(o, n)
    BY <1>1, <1>2, PrunedIs
  <2>2. Suffix(o.packets, discard_to_idx(o, n).packets, n)
    BY DiscardFills
  <2>3. discard_to_idx(o, n).packets \in Seq(PacketType)
    BY <2>2 DEF Suffix
  <2>4. Filling(discard_to_idx(o, n), c, T) /\ discard_to_idx(o, n).received = o.received
    BY DiscardFills
  <2>5. \A t : Absent(o.packets, t) => Absent(discard_to_idx(o, n).packets, t)
    BY DiscardFills
  <2> QED  BY <2>1, <2>3, <2>4, <2>5
<1>3. CASE ~ \A t \in Type : ~Absent(o.packets, t)
  <2>1. Pruned(o) = o
    BY <1>1, <1>3, MissingIs DEF Pruned
  <2> QED  BY <1>1, <2>1
<1> QED  BY <1>2, <1>3

LEMMA TryStartKeeps ==
  ASSUME NEW c \in [Type -> Nat], NEW T \in SUBSET Type, NEW o, Filling(o, c, T), o.received = Type
  PROVE  LET r == TryStart(o)
         IN  /\ Buffer(r, c, T) /\ Continues(r, c, T, << >>)
             /\ Started(r) => \A t \in Type : ~Absent(r.packets, t)
<1> DEFINE w == Pruned(o)
           r == TryStart(o)
<1>1. Filling(w, c, T) /\ w.received = Type /\ w.packets \in Seq(PacketType) /\ w \in Fields
  <2>1. Filling(w, c, T) /\ w.received = Type /\ w.packets \in Seq(PacketType)
    BY PrunedFills
  <2> QED  BY <2>1 DEF Filling, Kept
<1> HIDE DEF w
<1>2. CASE \A t \in Type : ~Absent(w.packets, t)
  <2>1. r = initialize_interleaved_packets(w)
    BY <1>1, <1>2, MissingIs DEF TryStart, w
  <2>2. /\ Running(r, c, T) /\ Started(r) /\ Continues(r, c, T, << >>)
        /\ \A t \in Type : ~Absent(r.packets, t)
    BY <1>1, <1>2, <2>1, InitRuns
  <2> QED  BY <2>2 DEF Buffer
<1>3. CASE ~ \A t \in Type : ~Absent(w.packets, t)
  <2>1. r = ForgetMissing(w) /\ Missing(w) # {}
    BY <1>1, <1>3, MissingIs DEF TryStart, w
  <2>2. r = [w EXCEPT !.received = Type \ Missing(w)]
    BY <1>1, <2>1 DEF ForgetMissing
  <2>3. /\ r \in Fields /\ r.received = Type \ Missing(w) /\ r.offset = w.offset
        /\ r.highest = w.highest /\ r.packets = w.packets
    BY <1>1, <2>2 DEF Fields
  <2>4. ~Started(r)
    BY <2>1, <2>3 DEF Started, Missing
  <2>5. Filling(r, c, T)
    BY <1>1, <2>3 DEF Filling, Kept
  <2>6. \A t \in Type \ r.received : Absent(r.packets, t)
    BY <1>1, <2>3, MissingIs
  <2> QED  BY <2>4, <2>5, <2>6 DEF Buffer, Continues
<1> QED  BY <1>2, <1>3

-----------------------------------------------------------------------------
(* The packet at the head is sent.                                         *)

InOrder(s) == \A i \in 1..Len(s) - 1 : s[i].ts <= s[i + 1].ts
FromZero(s) == \A i \in 1..Len(s) : Comes(s, s[i].type, i - 1, s[i].ts)

LEMMA AppendIs ==
  ASSUME NEW s \in Seq(PacketType), NEW h \in PacketType
  PROVE  /\ Append(s, h) \in Seq(PacketType) /\ Len(Append(s, h)) = Len(s) + 1
         /\ \A i \in 1..Len(s) : Append(s, h)[i] = s[i]
         /\ Append(s, h)[Len(s) + 1] = h
         /\ \A t, ts : \A n \in 0..Len(s) : Comes(s, t, n, ts) <=> Comes(Append(s, h), t, n, ts)
<1> DEFINE r == Append(s, h)
<1>1. /\ r \in Seq(PacketType) /\ Len(r) = Len(s) + 1 /\ Len(s) \in Nat
      /\ \A i \in 1..Len(s) : r[i] = s[i]
      /\ r[Len(s) + 1] = h
  OBVIOUS
<1> HIDE DEF r
<1>2. ASSUME NEW n \in 0..Len(s), NEW t, NEW ts
      PROVE  Comes(s, t, n, ts) <=> Comes(r, t, n, ts)
  <2>1. \A i \in 1..n : r[i] = s[i] /\ \A j \in i + 1..n : r[j] = s[j]
    BY <1>1
  <2> QED  BY <2>1 DEF Comes
<1> QED  BY <1>1, <1>2 DEF r

(* What comes after one more packet, for its type and for the others.      *)
LEMMA ComesNext ==
  ASSUME NEW s \in Seq(PacketType), NEW h \in PacketType
  PROVE  /\ Comes(Append(s, h), h.type, Len(s) + 1, h.ts + Period[h.type])
         /\ \A t, ts : t # h.type /\ Comes(s, t, Len(s), ts) => Comes(Append(s, h), t, Len(s) + 1, ts)
<1> DEFINE r == Append(s, h)
<1>1. /\ Len(s) \in Nat /\ \A i \in 1..Len(s) : r[i] = s[i]
      /\ r[Len(s) + 1] = h
  BY AppendIs
<1> HIDE DEF r
<1>2. Comes(r, h.type, Len(s) + 1, h.ts + Period[h.type])
  <2>1. Len(s) + 1 \in 1..Len(s) + 1 /\ \A j \in (Len(s) + 1) + 1..Len(s) + 1 : FALSE
    BY <1>1
  <2> QED  BY <1>1, <2>1 DEF Comes
<1>3. ASSUME NEW t, NEW ts, t # h.type, Comes(s, t, Len(s), ts)
      PROVE  Comes(r, t, Len(s) + 1, ts)
  <2>1. \A i \in 1..Len(s) + 1 : i \in 1..Len(s) \/ i = Len(s) + 1
    BY <1>1
  <2>2. CASE (\A i \in 1..Len(s) : s[i].type # t) /\ ts = 0
    BY <1>1, <1>3, <2>1, <2>2 DEF Comes
  <2>3. CASE \E i \in 1..Len(s) : /\ s[i].type = t /\ ts = s[i].ts + Period[t]
                                  /\ \A j \in i + 1..Len(s) : s[j].type # t
    <3>1. PICK i \in 1..Len(s) : /\ s[i].type = t /\ ts = s[i].ts + Period[t]
                                 /\ \A j \in i + 1..Len(s) : s[j].type # t
      BY <2>3
    <3>2. i \in 1..Len(s) + 1 /\ r[i] = s[i]
      BY <1>1
    <3>3. ASSUME NEW j \in i + 1..Len(s) + 1
          PROVE  r[j].type # t
      <4>1. j = Len(s) + 1 \/ (j \in i + 1..Len(s) /\ j \in 1..Len(s))
        BY <1>1
      <4> QED  BY <1>1, <1>3, <3>1, <4>1
    <3> QED  BY <3>1, <3>2, <3>3 DEF Comes
  <2> QED  BY <1>3, <2>2, <2>3 DEF Comes
<1> QED  BY <1>2, <1>3 DEF r

LEMMA SentRuns ==
  ASSUME NEW c, NEW T, NEW o, Running(o, c, T), Started(o), o.packets # << >>
  PROVE  LET r == [o EXCEPT !.packets = Tail(@)]
         IN  /\ Running(r, c, T) /\ Started(r) /\ r.offset = o.offset /\ r.received = o.received
             /\ r.packets = Tail(o.packets) /\ Suffix(o.packets, r.packets, 1)
<1> DEFINE q == o.packets
           w == Tail(q)
           r == [o EXCEPT !.packets = Tail(@)]
<1>1. o \in Fields /\ Queue(q, 0) /\ q \in Seq(PacketType)
  BY DEF Running, Kept, Queue
<1>2. Suffix(q, w, 1) /\ w \in Seq(PacketType)
  BY <1>1, TailIsSuffix DEF Suffix
<1> HIDE DEF w
<1>3. /\ r \in Fields /\ r.packets = w /\ r.received = o.received
      /\ r.offset = o.offset /\ r.highest = o.highest
  BY <1>1, <1>2 DEF Fields, w
<1> HIDE DEF r
<1>4. Queue(w, 0)
  BY <1>1, <1>2, SuffixKeeps
<1>5. ASSUME NEW t \in T
      PROVE  Reaches(w, t, c[t] - o.offset[t])
  <2>1. Reaches(q, t, c[t] - o.offset[t])
    BY DEF Running, Kept
  <2> QED  BY <1>2, <2>1, SuffixReaches
<1>6. ASSUME NEW i \in 1..Len(w)
      PROVE  w[i].ts <= o.highest[w[i].type]
  BY <1>2 DEF Suffix, Running, Kept
<1>7. Running(r, c, T) /\ Started(r)
  BY <1>3, <1>4, <1>5, <1>6 DEF Running, Kept, Started
<1> QED  BY <1>2, <1>3, <1>7 DEF r, w

LEMMA SentContinues ==
  ASSUME NEW c \in [Type -> Nat], NEW T \in SUBSET Type, NEW o, Running(o, c, T), Started(o),
         o.packets # << >>, Sends(o), NEW s \in Seq(PacketType), Continues(o, c, T, s),
         InOrder(s), FromZero(s)
  PROVE  LET r == [o EXCEPT !.packets = Tail(@)]
             a == Append(s, Head(o.packets))
         IN  Continues(r, c, T, a) /\ InOrder(a) /\ FromZero(a)
<1> DEFINE q == o.packets
           h == Head(q)
           r == [o EXCEPT !.packets = Tail(@)]
           w == r.packets
           a == Append(s, h)
           N(t) == c[t] - o.offset[t]
<1>1. /\ o \in Fields /\ Queue(q, 0) /\ q \in Seq(PacketType) /\ Len(q) \in Nat \ {0} /\ h = q[1]
      /\ o.offset \in [Type -> Nat] /\ o.highest \in [Type -> Nat]
  BY DEF Running, Kept, Queue, Fields
<1>2. Suffix(q, w, 1) /\ r.offset = o.offset
  BY SentRuns
<1>3. /\ 1 \in 1..Len(q) /\ h \in PacketType /\ h.type \in Type /\ h.ts \in Nat /\ h.dts \in Nat
      /\ h.ts = h.dts
  <2>1. 1 \in 1..Len(q) /\ h \in PacketType
    BY <1>1
  <2>2. h.ts = h.dts + 0
    BY <1>1, <2>1 DEF Queue, Stamped
  <2> QED  BY <2>1, <2>2 DEF PacketType
<1>4. h.ts < o.highest[Opposing[h.type]]
  BY <1>1, <1>3 DEF Sends, has_higher_opposing_ts, Opposing, Type
<1>5. /\ a \in Seq(PacketType) /\ Len(a) = Len(s) + 1 /\ Len(s) \in Nat /\ a[Len(s) + 1] = h
      /\ \A i \in 1..Len(s) : a[i] = s[i]
      /\ \A t, ts : \A n \in 0..Len(s) : Comes(s, t, n, ts) <=> Comes(a, t, n, ts)
  BY <1>3, AppendIs
<1>6. /\ Comes(a, h.type, Len(a), h.ts + Period[h.type])
      /\ \A t, ts : t # h.type /\ Comes(s, t, Len(s), ts) => Comes(a, t, Len(a), ts)
  BY <1>3, <1>5, ComesNext
<1> HIDE DEF r, a, h
<1>7. /\ Len(w) = Len(q) - 1
      /\ \A i \in 1..Len(w) : w[i] = q[i + 1] /\ i + 1 \in 1..Len(q)
  BY <1>1, <1>2 DEF Suffix
<1> HIDE DEF w
<1>8. a[Len(a)] = h /\ a # << >>
  BY <1>5
<1>9. \A i \in 1..Len(w) : h.ts <= w[i].ts
  BY <1>1, <1>3, <1>7 DEF Queue, Sorted
<1>10. ASSUME NEW t \in T
       PROVE  h.ts <= N(t)
  <2>1. h.ts <= o.highest[h.type]
    BY <1>1, <1>3 DEF Running, Kept
  <2>2. t = h.type \/ t = Opposing[h.type]
    BY <1>3 DEF Type, Opposing
  <2>3. h.ts <= o.highest[t]
    BY <1>1, <1>3, <1>4, <2>1, <2>2
  <2>4. o.highest[t] + Period[t] <= N(t) /\ t \in Type
    BY DEF Running
  <2> QED  BY <1>1, <1>3, <2>3, <2>4, PeriodAssumption
<1>11. ASSUME NEW j \in 1..Len(w), IsFirst(w, j)
       PROVE  Comes(a, w[j].type, Len(a), w[j].ts)
  <2>1. /\ w[j] = q[j + 1] /\ j + 1 \in 1..Len(q)
        /\ \A i \in 1..j - 1 : w[i] = q[i + 1] /\ i \in 1..Len(w)
    BY <1>1, <1>7
  <2>2. CASE w[j].type = h.type
    <3>1. ~IsFirst(q, j + 1)
      BY <1>1, <2>1, <2>2 DEF IsFirst
    <3>2. PICK i \in 1..(j + 1) - 1 : q[i].type = q[j + 1].type /\ q[j + 1].dts = q[i].dts + Period[q[j + 1].type]
      BY <1>1, <2>1, <3>1 DEF Queue, Whole
    <3>3. i = 1
      <4>1. i # 1 => i - 1 \in 1..j - 1 /\ (i - 1) + 1 = i
        OBVIOUS
      <4>2. i # 1 => w[i - 1] = q[i]
        BY <2>1, <4>1
      <4> QED  BY <1>11, <2>1, <3>2, <4>1, <4>2 DEF IsFirst
    <3>4. q[j + 1].ts = q[j + 1].dts
      <4>1. q[j + 1].ts = q[j + 1].dts + 0 /\ q[j + 1] \in PacketType
        BY <1>1, <2>1 DEF Queue, Stamped
      <4> QED  BY <4>1 DEF PacketType
    <3>5. w[j].ts = h.ts + Period[h.type]
      BY <1>1, <1>3, <2>1, <2>2, <3>2, <3>3, <3>4
    <3> QED  BY <1>6, <2>2, <3>5
  <2>3. CASE w[j].type # h.type
    <3>1. IsFirst(q, j + 1)
      <4>1. ASSUME NEW i \in 1..(j + 1) - 1
            PROVE  q[i].type # q[j + 1].type
        <5>1. CASE i = 1
          BY <1>1, <2>1, <2>3, <5>1
        <5>2. CASE i # 1
          <6>1. i - 1 \in 1..j - 1 /\ (i - 1) + 1 = i
            BY <5>2
          <6> QED  BY <1>11, <2>1, <6>1 DEF IsFirst
        <5> QED  BY <5>1, <5>2
      <4> QED  BY <4>1 DEF IsFirst
    <3>2. Comes(s, w[j].type, Len(s), w[j].ts)
      BY <2>1, <3>1 DEF Continues
    <3> QED  BY <1>6, <2>3, <3>2
  <2> QED  BY <2>2, <2>3
<1>12. ASSUME NEW t \in T, Absent(w, t)
       PROVE  Comes(a, t, Len(a), N(t))
  <2>1. CASE t = h.type
    <3>1. ~Absent(q, t)
      BY <1>1, <1>3, <2>1 DEF Absent
    <3>2. PICK i \in 1..Len(q) : q[i].type = t /\ q[i].dts + Period[t] = N(t)
      BY <3>1 DEF Running, Kept, Reaches
    <3>3. i = 1
      <4>1. i # 1 => i - 1 \in 1..Len(w) /\ (i - 1) + 1 = i
        BY <1>1, <1>7
      <4> QED  BY <1>7, <1>12, <3>2, <4>1 DEF Absent
    <3>4. N(t) = h.ts + Period[t]
      BY <1>1, <1>3, <3>2, <3>3
    <3> QED  BY <1>6, <2>1, <3>4
  <2>2. CASE t # h.type
    <3>1. ASSUME NEW i \in 1..Len(q)
          PROVE  q[i].type # t
      <4>1. i = 1 \/ (i - 1 \in 1..Len(w) /\ (i - 1) + 1 = i)
        BY <1>1, <1>7
      <4> QED  BY <1>1, <1>7, <1>12, <2>2, <4>1 DEF Absent
    <3>2. Comes(s, t, Len(s), N(t))
      BY <3>1 DEF Continues, Absent
    <3> QED  BY <1>6, <2>2, <3>2
  <2> QED  BY <2>1, <2>2
<1>13. Continues(r, c, T, a)
  BY <1>2, <1>8, <1>9, <1>10, <1>11, <1>12 DEF Continues, w
<1>14. InOrder(a)
  <2>1. SUFFICES ASSUME NEW i \in 1..Len(a) - 1
                 PROVE  a[i].ts <= a[i + 1].ts
    BY DEF InOrder
  <2>2. CASE i = Len(s)
    <3>1. s # << >> /\ a[i] = s[Len(s)] /\ a[i + 1] = q[1]
      BY <1>1, <1>5, <2>2
    <3> QED  BY <1>3, <3>1 DEF Continues
  <2>3. CASE i # Len(s)
    <3>1. i \in 1..Len(s) - 1 /\ i \in 1..Len(s) /\ i + 1 \in 1..Len(s)
      BY <1>5, <2>3
    <3> QED  BY <1>5, <3>1 DEF InOrder
  <2> QED  BY <2>2, <2>3
<1>15. FromZero(a)
  <2>1. SUFFICES ASSUME NEW i \in 1..Len(a)
                 PROVE  Comes(a, a[i].type, i - 1, a[i].ts)
    BY DEF FromZero
  <2>2. CASE i = Len(s) + 1
    <3>1. IsFirst(q, 1)
      BY DEF IsFirst
    <3>2. Comes(s, h.type, Len(s), h.ts)
      BY <1>1, <1>3, <3>1 DEF Continues
    <3>3. Len(s) \in 0..Len(s) /\ i - 1 = Len(s)
      BY <1>5, <2>2
    <3> QED  BY <1>5, <2>2, <3>2, <3>3
  <2>3. CASE i # Len(s) + 1
    <3>1. i \in 1..Len(s) /\ i - 1 \in 0..Len(s)
      BY <1>5, <2>3
    <3>2. Comes(s, s[i].type, i - 1, s[i].ts)
      BY <3>1 DEF FromZero
    <3> QED  BY <1>5, <3>1, <3>2
  <2> QED  BY <2>2, <2>3
<1> QED  BY <1>13, <1>14, <1>15 DEF r, a, h

-----------------------------------------------------------------------------
(* interleave_packets                                                      *)

LEMMA SentIs ==
  ASSUME sent \in Seq(PacketType)
  PROVE  WholeFromZero <=> FromZero(sent)
<1>1. DOMAIN sent = 1..Len(sent)
  OBVIOUS
<1>2. \A t, ts : \A i \in 1..Len(sent) : Follows(t, i - 1, ts) <=> Comes(sent, t, i - 1, ts)
  BY DEF Follows, NoneSent, Comes
<1> QED  BY <1>1, <1>2 DEF WholeFromZero, FromZero

LEMMA PacketIs ==
  ASSUME Types, NEW t \in Type, NEW key \in BOOLEAN
  PROVE  /\ Packet(t, key) \in PacketType /\ Packet(t, key).type = t /\ Packet(t, key).keyframe = key
         /\ Packet(t, key).dts = clock[t] /\ Packet(t, key).ts = Epoch + Packet(t, key).dts
<1>1. clock[t] \in Nat /\ Epoch + clock[t] \in Nat
  BY TimeAssumption DEF Types, TypeOK
<1> QED  BY <1>1 DEF Packet, PacketType

(* The fields once the packet is queued and the start was tried.           *)
Ready(o, p) ==
  IF Started(o) \/ ~Started(Queued(o, p)) THEN Queued(o, p) ELSE TryStart(Queued(o, p))

LEMMA ReadyKeeps ==
  ASSUME NEW c \in [Type -> Nat], NEW T \in SUBSET Type, NEW o, Buffer(o, c, T),
         NEW p \in PacketType, p.type \in T, p.dts = c[p.type], p.ts = Epoch + p.dts,
         NEW s \in Seq(PacketType), ~Started(o) => s = << >>
  PROVE  LET r == Ready(o, p)
             d == Ticked(c, p.type)
         IN  /\ Buffer(r, d, T)
             /\ Continues(o, c, T, s) => Continues(r, d, T, s)
             /\ Started(o) => Started(r)
             /\ Started(r) => r.packets # << >>
             /\ r.received \subseteq o.received \cup {p.type}
<1> DEFINE w == Queued(o, p)
           r == Ready(o, p)
           d == Ticked(c, p.type)
<1>1. p.type \in Type /\ d \in [Type -> Nat]
  BY PeriodAssumption DEF PacketType, Ticked
<1>2. CASE Started(o)
  <2>1. r = w
    BY <1>2 DEF Ready
  <2>2. Running(o, c, T) /\ o.received = Type /\ o.packets \in Seq(PacketType)
    BY <1>2 DEF Buffer, Started, Running, Kept, Queue
  <2>3. /\ Running(w, d, T) /\ Started(w)
        /\ \E k \in 1..Len(o.packets) + 1 : Inserted(o.packets, w.packets, Incoming(o, p), k)
    BY <1>2, <2>2, QueuedRuns
  <2>4. w.packets # << >>
    BY <2>2, <2>3 DEF Inserted
  <2>5. Continues(o, c, T, s) => Continues(w, d, T, s)
    BY <1>2, <2>2, QueuedContinues
  <2>6. Buffer(w, d, T) /\ w.received = Type
    BY <2>3 DEF Buffer, Started
  <2> HIDE DEF w, r, d
  <2>7. /\ Buffer(r, d, T) /\ (Continues(o, c, T, s) => Continues(r, d, T, s))
        /\ Started(r) /\ r.packets # << >> /\ r.received \subseteq o.received \cup {p.type}
    BY <2>1, <2>2, <2>3, <2>4, <2>5, <2>6
  <2> QED  BY <2>7 DEF r, d
<1>3. CASE ~Started(o)
  <2>1. Filling(o, c, T) /\ \A t \in Type \ o.received : Absent(o.packets, t)
    BY <1>3 DEF Buffer
  <2>2. o.received \subseteq Type /\ o.packets \in Seq(PacketType)
    BY <2>1 DEF Filling, Kept, Fields
  <2>3. Filling(w, d, T) /\ w.received = o.received \cup {p.type}
    <3>1. Filling(w, d, T)
      BY <1>3, <2>1, QueuedFills
    <3>2. Incoming(o, p) \in PacketType /\ o \in Fields /\ Sorted(o.packets)
      BY <1>3, <2>1 DEF Incoming, Filling, Kept, Queue
    <3>3. w.received = IF Started(o) THEN o.received ELSE o.received \cup {p.type}
      BY <3>2, QueuedIs
    <3> QED  BY <1>3, <3>1, <3>3
  <2>6. \E k \in 1..Len(o.packets) + 1 : Inserted(o.packets, w.packets, p, k)
    BY <1>3, <2>1, QueuedFills
  <2>4. CASE Started(w)
    <3>1. r = TryStart(w)
      BY <1>3, <2>4 DEF Ready
    <3>2. w.received = Type
      BY <2>4 DEF Started
    <3>3. /\ Buffer(r, d, T) /\ Continues(r, d, T, << >>)
          /\ Started(r) => \A t \in Type : ~Absent(r.packets, t)
      BY <1>1, <2>3, <3>1, <3>2, TryStartKeeps
    <3>4. r.received \subseteq Type /\ r.packets \in Seq(PacketType)
      BY <3>3 DEF Buffer, Running, Filling, Kept, Fields
    <3>5. Started(r) => r.packets # << >>
      BY <1>1, <3>3 DEF Absent
    <3> HIDE DEF r, w, d
    <3>6. /\ Buffer(r, d, T) /\ Continues(r, d, T, s)
          /\ Started(r) => r.packets # << >>
          /\ r.received \subseteq o.received \cup {p.type}
      BY <1>3, <2>3, <3>2, <3>3, <3>4, <3>5
    <3> QED  BY <1>3, <3>6 DEF r, d
  <2>5. CASE ~Started(w)
    <3>1. r = w
      BY <2>5 DEF Ready
    <3>2. ASSUME NEW t \in Type \ w.received
          PROVE  Absent(w.packets, t)
      <4>1. Absent(o.packets, t) /\ t # p.type
        BY <2>1, <2>3
      <4> QED  BY <2>2, <2>6, <4>1, InsertHas
    <3>3. Buffer(w, d, T) /\ Continues(w, d, T, s)
      BY <2>3, <2>5, <3>2 DEF Buffer, Continues
    <3> HIDE DEF r, w, d
    <3>4. /\ Buffer(r, d, T) /\ Continues(r, d, T, s) /\ ~Started(r)
          /\ r.received = o.received \cup {p.type}
      BY <2>3, <2>5, <3>1, <3>3
    <3> QED  BY <1>3, <3>4 DEF r, d
  <2> QED  BY <2>4, <2>5
<1> QED  BY <1>2, <1>3

LEMMA InterleaveKeeps ==
  ASSUME Types, Buffer(output, clock, Connected), Sent, NEW t \in Connected, NEW key \in BOOLEAN,
         interleave_packets(Packet(t, key))
  PROVE  LET d == Ticked(clock, t)
         IN  /\ Buffer(output', d, Connected)
             /\ sent' \in Seq(PacketType) /\ InOrder(sent') /\ FromZero(sent')
             /\ ~Started(output') => sent' = << >>
             /\ ~stopped => Continues(output', d, Connected, sent')
             /\ output'.received \subseteq output.received \cup {t}
<1> DEFINE p == Packet(t, key)
           d == Ticked(clock, t)
           r == Ready(output, p)
           T == Connected
<1>1. /\ T \in SUBSET Type /\ clock \in [Type -> Nat] /\ t \in Type
      /\ sent \in Seq(PacketType) /\ InOrder(sent) /\ FromZero(sent)
      /\ ~Started(output) => sent = << >>
      /\ ~stopped => Continues(output, clock, T, sent)
  BY SentIs DEF Types, TypeOK, Connected, Type, Sent, SentInOrder, InOrder
<1>2. p \in PacketType /\ p.type = t /\ p.keyframe = key /\ p.dts = clock[t] /\ p.ts = Epoch + p.dts
  BY <1>1, PacketIs
<1> HIDE DEF p, T
<1>3. CASE t = "video" /\ "video" \notin output.received /\ ~key
  <2>1. output' = discard_unused_audio_packets(output, p.ts) /\ sent' = sent
    BY <1>2, <1>3 DEF interleave_packets, p
  <2>2. ~Started(output) /\ Filling(output, clock, T) /\ \A u \in Type \ output.received : Absent(output.packets, u)
    BY <1>3 DEF Buffer, Started, Type, T
  <2>3. output.packets \in Seq(PacketType)
    BY <2>2 DEF Filling, Kept, Queue
  <2>4. PICK n \in 0..Len(output.packets) : output' = discard_to_idx(output, n)
    BY <2>1, <2>3, UnusedIs
  <2>5. /\ Filling(output', clock, T) /\ output'.received = output.received
        /\ \A u : Absent(output.packets, u) => Absent(output'.packets, u)
    BY <2>2, <2>4, DiscardFills
  <2>6. Absent(output'.packets, t)
    BY <1>3, <2>2, <2>5 DEF Type
  <2>7. Filling(output', d, T)
    <3>1. ASSUME NEW u \in T
          PROVE  Reaches(output'.packets, u, d[u] - output'.offset[u])
      <4>1. CASE u = t
        BY <2>6, <4>1 DEF Reaches
      <4>2. CASE u # t
        <5>1. d[u] = clock[u]
          BY <1>1, <4>2 DEF Ticked
        <5> QED  BY <2>5, <5>1 DEF Filling, Kept
      <4> QED  BY <4>1, <4>2
    <3>2. ASSUME NEW u \in Type
          PROVE  output'.highest[u] = 0 \/ output'.highest[u] + Period[u] <= Epoch + d[u]
      <4>1. output'.highest[u] = 0 \/ output'.highest[u] + Period[u] <= Epoch + clock[u]
        BY <2>5 DEF Filling
      <4>2. d[u] = clock[u] \/ d[u] = clock[u] + Period[u]
        BY <1>1 DEF Ticked
      <4>3. output'.highest[u] \in Nat /\ Period[u] \in Nat /\ clock[u] \in Nat /\ Epoch \in Nat
        BY <1>1, <2>5, PeriodAssumption, TimeAssumption DEF Filling, Kept, Fields
      <4> QED  BY <4>1, <4>2, <4>3
    <3> QED  BY <2>5, <3>1, <3>2 DEF Filling, Kept
  <2>8. ~Started(output')
    BY <2>2, <2>5 DEF Started
  <2>9. Buffer(output', d, T) /\ Continues(output', d, T, sent')
    BY <2>2, <2>5, <2>7, <2>8 DEF Buffer, Continues
  <2> HIDE DEF d
  <2> QED  BY <1>1, <2>1, <2>2, <2>5, <2>9 DEF T, d
<1>4. CASE ~(t = "video" /\ "video" \notin output.received /\ ~key)
  <2>1. /\ Buffer(r, d, T)
        /\ Continues(output, clock, T, sent) => Continues(r, d, T, sent)
        /\ Started(output) => Started(r)
        /\ Started(r) => r.packets # << >>
        /\ r.received \subseteq output.received \cup {t}
    <3>1. /\ Buffer(Ready(output, p), Ticked(clock, p.type), T)
          /\ Continues(output, clock, T, sent) => Continues(Ready(output, p), Ticked(clock, p.type), T, sent)
          /\ Started(output) => Started(Ready(output, p))
          /\ Started(Ready(output, p)) => Ready(output, p).packets # << >>
          /\ Ready(output, p).received \subseteq output.received \cup {p.type}
      <4>1. Buffer(output, clock, T) /\ p.type \in T /\ p.dts = clock[p.type]
        BY <1>2 DEF T
      <4> QED  BY <1>1, <1>2, <4>1, ReadyKeeps
    <3> QED  BY <1>2, <3>1
  <2>2. IF ~Started(r) \/ ~Sends(r) THEN output' = r /\ sent' = sent
        ELSE /\ output' = [r EXCEPT !.packets = Tail(@)]
             /\ sent' = IF stopped THEN sent ELSE Append(sent, Head(r.packets))
    <3>1. ~(p.type = "video" /\ "video" \notin output.received /\ ~p.keyframe)
      BY <1>2, <1>4
    <3> QED  BY <3>1 DEF interleave_packets, Ready, p
  <2> HIDE DEF r, d
  <2>3. CASE ~Started(r) \/ ~Sends(r)
    BY <1>1, <2>1, <2>2, <2>3 DEF T, d
  <2>4. CASE Started(r) /\ Sends(r)
    <3>1. output' = [r EXCEPT !.packets = Tail(@)] /\ Running(r, d, T) /\ r.packets # << >>
      BY <2>1, <2>2, <2>4 DEF Buffer
    <3>2. Running(output', d, T) /\ Started(output') /\ output'.received = r.received
      BY <2>4, <3>1, SentRuns
    <3>3. Buffer(output', d, T)
      BY <3>2 DEF Buffer
    <3>4. CASE stopped
      BY <1>1, <2>1, <2>2, <2>4, <3>2, <3>3, <3>4 DEF T, d
    <3>5. CASE ~stopped
      <4>1. sent' = Append(sent, Head(r.packets)) /\ Continues(r, d, T, sent)
        BY <1>1, <2>1, <2>2, <2>4, <3>5
      <4>2. d \in [Type -> Nat]
        BY <1>1, PeriodAssumption DEF d, Ticked
      <4>3. Continues(output', d, T, sent') /\ InOrder(sent') /\ FromZero(sent')
        BY <1>1, <2>4, <3>1, <4>1, <4>2, SentContinues
      <4>4. sent' \in Seq(PacketType)
        <5>1. r.packets \in Seq(PacketType)
          BY <3>1 DEF Running, Kept, Queue
        <5>2. Head(r.packets) \in PacketType
          BY <3>1, <5>1
        <5> QED  BY <1>1, <4>1, <5>2
      <4> QED  BY <2>1, <3>2, <3>3, <4>3, <4>4 DEF T, d
    <3> QED  BY <3>4, <3>5
  <2> QED  BY <2>3, <2>4
<1> QED  BY <1>3, <1>4

-----------------------------------------------------------------------------
(* The invariant.                                                          *)

LEMMA FieldsTyped ==
  ASSUME NEW o \in Fields
  PROVE  /\ o.received \subseteq Type /\ o.offset \in [Type -> Nat] /\ o.highest \in [Type -> Nat]
         /\ \A i \in DOMAIN o.packets : o.packets[i] \in PacketType
BY DEF Fields

LEMMA BufferTyped ==
  ASSUME NEW o, NEW c, NEW T, Buffer(o, c, T)
  PROVE  o \in Fields
BY DEF Buffer, Running, Filling, Kept

(* An encoder makes a packet that is not passed on.                        *)
LEMMA TickKeeps ==
  ASSUME NEW c \in [Type -> Nat], NEW T \in SUBSET Type, NEW o, Buffer(o, c, T), NEW s,
         NEW t \in Type, t \in T => ~Started(o) /\ Absent(o.packets, t)
  PROVE  /\ Buffer(o, Ticked(c, t), T)
         /\ Continues(o, c, T, s) => Continues(o, Ticked(c, t), T, s)
<1> DEFINE d == Ticked(c, t)
<1>1. /\ \A u \in Type : d[u] = IF u = t THEN c[u] + Period[u] ELSE c[u]
      /\ \A u \in Type : d[u] \in Nat /\ c[u] \in Nat /\ Period[u] \in Nat
  BY PeriodAssumption DEF Ticked
<1>2. o.offset \in [Type -> Nat] /\ o.highest \in [Type -> Nat] /\ Epoch \in Nat
  BY BufferTyped, TimeAssumption DEF Fields
<1> HIDE DEF d
<1>3. CASE Started(o)
  <2>1. Running(o, c, T) /\ \A u \in T : d[u] = c[u]
    BY <1>1, <1>3 DEF Buffer
  <2>2. ASSUME NEW u \in Type
        PROVE  o.highest[u] + Period[u] <= d[u] - o.offset[u]
    <3>1. o.highest[u] + Period[u] <= c[u] - o.offset[u]
      BY <2>1 DEF Running
    <3>2. o.highest[u] \in Nat /\ o.offset[u] \in Nat /\ d[u] >= c[u]
      BY <1>1, <1>2
    <3> QED  BY <1>1, <3>1, <3>2
  <2>3. Running(o, d, T)
    BY <2>1, <2>2 DEF Running, Kept
  <2> QED  BY <1>3, <2>1, <2>3 DEF Buffer, Continues, d
<1>4. CASE ~Started(o)
  <2>1. Filling(o, c, T)
    BY <1>4 DEF Buffer
  <2>2. ASSUME NEW u \in Type
        PROVE  o.highest[u] = 0 \/ o.highest[u] + Period[u] <= Epoch + d[u]
    <3>1. o.highest[u] = 0 \/ o.highest[u] + Period[u] <= Epoch + c[u]
      BY <2>1 DEF Filling
    <3>2. o.highest[u] \in Nat /\ d[u] >= c[u]
      BY <1>1, <1>2
    <3> QED  BY <1>1, <1>2, <3>1, <3>2
  <2>3. ASSUME NEW u \in T
        PROVE  Reaches(o.packets, u, d[u] - o.offset[u])
    <3>1. CASE u = t
      BY <3>1 DEF Reaches
    <3>2. CASE u # t
      BY <1>1, <2>1, <3>2 DEF Filling, Kept
    <3> QED  BY <3>1, <3>2
  <2>4. Filling(o, d, T)
    BY <2>1, <2>2, <2>3 DEF Filling, Kept
  <2> QED  BY <1>4, <2>4 DEF Buffer, Continues, d
<1> QED  BY <1>3, <1>4

(* An encoder is disconnected.                                             *)
LEMMA FewerKeeps ==
  ASSUME NEW c, NEW T, NEW U \in SUBSET T, NEW o, Buffer(o, c, T), NEW s
  PROVE  Buffer(o, c, U) /\ (Continues(o, c, T, s) => Continues(o, c, U, s))
<1>1. \A e : Kept(o, c, T, e) => Kept(o, c, U, e)
  BY DEF Kept
<1>2. Buffer(o, c, U)
  BY <1>1 DEF Buffer, Running, Filling
<1>3. Continues(o, c, T, s) => Continues(o, c, U, s)
  BY DEF Continues
<1> QED  BY <1>2, <1>3

LEMMA InitIInv == Init => IInv
<1>1. SUFFICES ASSUME Init PROVE IInv
  OBVIOUS
<1>2. /\ output = Empty /\ sent = << >> /\ hooked = "none" /\ Connected = {}
      /\ clock \in [Type -> Nat]
  BY <1>1, JoinsAssumption DEF Init, Connected
<1>3. /\ output \in Fields /\ output.packets = << >> /\ output.received = {}
      /\ \A t \in Type : output.offset[t] = 0 /\ output.highest[t] = 0
      /\ ~Started(output)
  BY <1>2 DEF Empty, Fields, Started, Type
<1>4. Queue(output.packets, Epoch)
  BY <1>3 DEF Queue, Stamped, Sorted, Spaced, Whole
<1>5. Buffer(output, clock, Connected) /\ Continues(output, clock, Connected, sent)
  BY <1>2, <1>3, <1>4 DEF Buffer, Filling, Kept, Absent, Continues
<1>6. Types
  <2>1. lastKey \in Int /\ sentFirst \in BOOLEAN /\ stopped \in BOOLEAN /\ captures \in 0..MaxCaptures
    <3>1. lastKey = -KeyGap /\ captures = 0 /\ KeyGap \in Nat /\ MaxCaptures \in Nat
      BY <1>1, TimeAssumption DEF Init
    <3>2. sentFirst \in BOOLEAN /\ stopped \in BOOLEAN
      BY <1>1 DEF Init
    <3>3. lastKey \in Int /\ captures \in 0..MaxCaptures
      BY <3>1
    <3> QED  BY <3>2, <3>3
  <2>2. seen \in [audioFrom : Nat \cup {None}, lastKey : Nat \cup {None}, behind : BOOLEAN]
    BY <1>1 DEF Init, Unseen
  <2>3. TypeOK
    BY <1>2, <1>3, <2>1, FieldsTyped DEF TypeOK
  <2> QED  BY <1>2, <2>2, <2>3 DEF Types
<1>7. Sent
  <2>1. SentInOrder /\ WholeFromZero
    BY <1>2, <1>6 DEF SentInOrder, WholeFromZero, Types
  <2> QED  BY <1>2, <1>5, <2>1 DEF Sent
<1> QED  BY <1>2, <1>5, <1>6, <1>7 DEF IInv, Queues

LEMMA TickTyped ==
  ASSUME NEW c \in [Type -> Nat], NEW t \in Type
  PROVE  Ticked(c, t) \in [Type -> Nat]
BY PeriodAssumption DEF Ticked

LEMMA EncodeIInv == IInv /\ (\E t \in Type, key \in BOOLEAN : Encode(t, key)) => IInv'
<1>1. SUFFICES ASSUME IInv, NEW t \in Type, NEW key \in BOOLEAN, Encode(t, key)
               PROVE  IInv'
  OBVIOUS
<1> DEFINE T == Connected
           d == Ticked(clock, t)
<1>2. /\ Types /\ Queues /\ Sent /\ TypeOK
      /\ clock \in [Type -> Nat] /\ T \in SUBSET Type /\ sent \in Seq(PacketType)
      /\ Buffer(output, clock, T)
  BY <1>1 DEF IInv, Types, TypeOK, Queues, Connected, Type
<1>3. /\ clock' = d /\ hooked' = hooked /\ stopped' = stopped /\ captures' = captures
      /\ Connected' = T
      /\ sentFirst' = (sentFirst \/ (t = "video" /\ Passes(t, key)))
      /\ lastKey' = IF key THEN clock[t] ELSE lastKey
  BY <1>1 DEF Encode, Ticked, Connected
<1>4. d \in [Type -> Nat] /\ clock[t] \in Nat
  BY <1>2, TickTyped
<1> HIDE DEF T, d
<1>5. seen' \in [audioFrom : Nat \cup {None}, lastKey : Nat \cup {None}, behind : BOOLEAN]
  <2>1. seen \in [audioFrom : Nat \cup {None}, lastKey : Nat \cup {None}, behind : BOOLEAN]
    BY <1>2 DEF Types
  <2>2. seen' = seen \/ seen' = Seen(t, key)
    BY <1>1 DEF Encode
  <2>3. Seen(t, key) \in [audioFrom : Nat \cup {None}, lastKey : Nat \cup {None}, behind : BOOLEAN]
    BY <1>4, <2>1 DEF Seen, Type
  <2> QED  BY <2>1, <2>2, <2>3
<1>6. lastKey' \in Int /\ sentFirst' \in BOOLEAN
  <2>1. lastKey \in Int /\ sentFirst \in BOOLEAN
    BY <1>2 DEF TypeOK
  <2>2. lastKey' = clock[t] \/ lastKey' = lastKey
    BY <1>3
  <2>3. lastKey' \in Int
    BY <1>4, <2>1, <2>2
  <2>4. sentFirst' \in BOOLEAN
    BY <1>3, <2>1
  <2> QED  BY <2>3, <2>4
<1>7. ASSUME Buffer(output', d, T), sent' \in Seq(PacketType)
      PROVE  Types'
  <2>1. output' \in Fields
    BY <1>7, BufferTyped
  <2>2. /\ output'.received \subseteq Type /\ output'.offset \in [Type -> Nat]
        /\ output'.highest \in [Type -> Nat]
        /\ \A i \in DOMAIN output'.packets : output'.packets[i] \in PacketType
    BY <2>1, FieldsTyped
  <2>3. \A i \in DOMAIN sent' : sent'[i] \in PacketType
    BY <1>7
  <2>4. TypeOK'
    BY <1>2, <1>3, <1>4, <1>6, <2>2, <2>3 DEF TypeOK
  <2> QED  BY <1>5, <1>7, <2>4 DEF Types
<1>8. CASE Passes(t, key)
  <2>1. t \in Connected /\ (t = "video" => sentFirst \/ key) /\ interleave_packets(Packet(t, key))
    BY <1>1, <1>8 DEF Encode, Passes
  <2>2. /\ Buffer(output', d, T)
        /\ sent' \in Seq(PacketType) /\ InOrder(sent') /\ FromZero(sent')
        /\ ~Started(output') => sent' = << >>
        /\ ~stopped => Continues(output', d, T, sent')
        /\ output'.received \subseteq output.received \cup {t}
    BY <1>2, <2>1, InterleaveKeeps DEF T, d
  <2>3. Queues'
    <3>1. hooked = "audio" => t # "video"
      BY <2>1 DEF Connected
    <3>2. hooked = "audio" \/ (hooked = "both" /\ ~sentFirst') => t # "video"
      BY <1>3, <1>8, <3>1
    <3>3. hooked = "audio" \/ (hooked = "both" /\ ~sentFirst') => "video" \notin output'.received
      BY <1>2, <1>3, <2>2, <3>2 DEF Queues
    <3> QED  BY <1>3, <2>2, <3>3 DEF Queues
  <2>4. Types'
    BY <1>7, <2>2
  <2>5. SentInOrder' /\ WholeFromZero'
    <3>1. WholeFromZero'
      <4>1. DOMAIN sent' = 1..Len(sent')
        BY <2>2
      <4> QED  BY <2>2, <4>1 DEF WholeFromZero, FromZero, Follows, NoneSent, Comes
    <3>2. SentInOrder'
      BY <2>2, <2>4 DEF Types, SentInOrder, InOrder
    <3> QED  BY <3>1, <3>2
  <2>6. Sent'
    BY <1>3, <2>2, <2>5 DEF Sent
  <2> QED  BY <2>3, <2>4, <2>6 DEF IInv
<1>9. CASE ~Passes(t, key)
  <2>1. output' = output /\ sent' = sent
    BY <1>1, <1>9 DEF Encode
  <2>2. t \in T => ~Started(output) /\ Absent(output.packets, t)
    <3>1. SUFFICES ASSUME t \in Connected
                   PROVE  ~Started(output) /\ Absent(output.packets, t)
      BY DEF T
    <3>2. t = "video" /\ ~sentFirst /\ hooked = "both"
      BY <1>2, <1>9, <3>1 DEF Passes, Connected, TypeOK
    <3>3. "video" \notin output.received
      BY <1>2, <3>2 DEF Queues
    <3> QED  BY <1>2, <3>2, <3>3 DEF Started, Buffer, Type
  <2>3. Buffer(output, d, T) /\ (Continues(output, clock, T, sent) => Continues(output, d, T, sent))
    BY <1>2, <2>2, TickKeeps DEF d
  <2>4. Types'
    BY <1>2, <1>7, <2>1, <2>3
  <2>5. Queues'
    BY <1>2, <1>3, <1>9, <2>1, <2>3 DEF Queues
  <2>6. SentInOrder' /\ WholeFromZero'
    <3>1. SentInOrder /\ WholeFromZero
      BY <1>2 DEF Sent
    <3>2. WholeFromZero'
      BY <2>1, <3>1 DEF WholeFromZero, Follows, NoneSent
    <3> QED  BY <2>1, <2>4, <3>1, <3>2 DEF SentInOrder, Types
  <2>7. Sent'
    BY <1>2, <1>3, <2>1, <2>3, <2>6 DEF Sent, T
  <2> QED  BY <2>4, <2>5, <2>7 DEF IInv
<1> QED  BY <1>8, <1>9

LEMMA HookAudioIInv == IInv /\ HookAudio => IInv'
<1>1. SUFFICES ASSUME IInv, HookAudio
               PROVE  IInv'
  OBVIOUS
<1>2. /\ hooked' = "audio" /\ captures < MaxCaptures /\ captures' = captures + 1
      /\ output' = Empty /\ stopped' = FALSE /\ sent' = << >> /\ seen' = Unseen
      /\ clock' = clock /\ lastKey' = lastKey /\ sentFirst' = sentFirst /\ Connected' = {"audio"}
  BY <1>1 DEF HookAudio, Connected
<1>3. TypeOK
  BY <1>1 DEF IInv, Types
<1>4. /\ Empty \in Fields /\ Empty.packets = << >> /\ Empty.received = {}
      /\ \A t \in Type : Empty.offset[t] = 0 /\ Empty.highest[t] = 0
      /\ ~Started(Empty)
  BY DEF Empty, Fields, Started, Type
<1>5. Queue(Empty.packets, Epoch)
  BY <1>4 DEF Queue, Stamped, Sorted, Spaced, Whole
<1>6. Buffer(Empty, clock, {"audio"})
  BY <1>4, <1>5 DEF Buffer, Filling, Kept, Absent, Reaches
<1>7. Types'
  <2>1. captures' \in 0..MaxCaptures
    <3>1. captures \in 0..MaxCaptures /\ MaxCaptures \in Nat
      BY <1>3, TimeAssumption DEF TypeOK
    <3> QED  BY <1>2, <3>1
  <2>2. Unseen \in [audioFrom : Nat \cup {None}, lastKey : Nat \cup {None}, behind : BOOLEAN]
    BY DEF Unseen
  <2>3. TypeOK'
    BY <1>2, <1>3, <1>4, <2>1, FieldsTyped DEF TypeOK
  <2> QED  BY <1>2, <2>2, <2>3 DEF Types
<1>8. Sent'
  <2>1. SentInOrder' /\ WholeFromZero'
    BY <1>2, <1>7 DEF Types, SentInOrder, WholeFromZero
  <2> QED  BY <1>2, <1>4, <2>1 DEF Sent, Continues
<1>9. Queues'
  BY <1>2, <1>4, <1>6 DEF Queues
<1> QED  BY <1>7, <1>8, <1>9 DEF IInv

LEMMA HookVideoIInv == IInv /\ HookVideo => IInv'
<1>1. SUFFICES ASSUME IInv, HookVideo
               PROVE  IInv'
  OBVIOUS
<1>2. /\ hooked = "audio" /\ hooked' = "both" /\ sentFirst' = FALSE
      /\ clock' = clock /\ lastKey' = lastKey /\ output' = output /\ stopped' = stopped
      /\ sent' = sent /\ seen' = seen /\ captures' = captures
      /\ Connected = {"audio"} /\ Connected' = Type
  BY <1>1 DEF HookVideo, Connected
<1>3. "video" \notin output.received /\ Buffer(output, clock, {"audio"}) /\ Sent /\ Types
  BY <1>1, <1>2 DEF IInv, Queues
<1>4. ~Started(output) /\ Absent(output.packets, "video") /\ Filling(output, clock, {"audio"})
  BY <1>3 DEF Buffer, Started, Type
<1>5. Filling(output, clock, Type)
  BY <1>4 DEF Filling, Kept, Reaches, Type
<1>6. Buffer(output, clock, Type) /\ Continues(output, clock, Type, sent)
  BY <1>3, <1>4, <1>5 DEF Buffer, Continues
<1>7. Types' /\ SentInOrder' /\ WholeFromZero'
  BY <1>2, <1>3 DEF Types, TypeOK, Sent, SentInOrder, WholeFromZero, Follows, NoneSent
<1>8. Queues' /\ Sent'
  BY <1>2, <1>3, <1>4, <1>6, <1>7 DEF Queues, Sent
<1> QED  BY <1>7, <1>8 DEF IInv

(* Stop, UnhookVideo and UnhookAudio touch none of the fields.             *)
LEMMA EndingIInv ==
  ASSUME IInv, UNCHANGED << clock, lastKey, sentFirst, output, sent, seen, captures >>,
         hooked' \in {"none", "audio", "both", "ending"}, stopped' \in BOOLEAN, stopped => stopped',
         Connected' \subseteq Connected, hooked' \in {"audio", "both"} => hooked' = hooked
  PROVE  IInv'
<1>1. Types /\ Queues /\ Sent
  BY DEF IInv
<1>2. /\ Buffer(output, clock, Connected')
      /\ Continues(output, clock, Connected, sent) => Continues(output, clock, Connected', sent)
  BY <1>1, FewerKeeps DEF Queues
<1>3. Types' /\ SentInOrder' /\ WholeFromZero'
  BY <1>1 DEF Types, TypeOK, Sent, SentInOrder, WholeFromZero, Follows, NoneSent
<1>4. Queues' /\ Sent'
  BY <1>1, <1>2, <1>3 DEF Queues, Sent
<1> QED  BY <1>3, <1>4 DEF IInv

LEMMA UnchangedIInv == IInv /\ UNCHANGED vars => IInv'
<1>1. SUFFICES ASSUME IInv, UNCHANGED vars
               PROVE  IInv'
  OBVIOUS
<1>2. TypeOK /\ Connected' = Connected
  BY <1>1 DEF IInv, Types, vars, Connected
<1> QED  BY <1>1, <1>2, EndingIInv DEF TypeOK, vars

LEMMA IInvHolds == Spec => []IInv
<1>1. IInv /\ [Next]_vars => IInv'
  <2>1. IInv /\ Stop => IInv'
    <3>1. SUFFICES ASSUME IInv, Stop
                   PROVE  IInv'
      OBVIOUS
    <3>2. Connected' = Connected /\ hooked' = hooked /\ hooked = "both"
      BY <3>1 DEF Stop, Connected
    <3> QED  BY <3>1, <3>2, EndingIInv DEF Stop
  <2>2. IInv /\ (UnhookVideo \/ UnhookAudio) => IInv'
    <3>1. SUFFICES ASSUME IInv, UnhookVideo \/ UnhookAudio
                   PROVE  IInv'
      OBVIOUS
    <3>2. Connected' \subseteq Connected /\ hooked' \in {"none", "ending"} /\ TypeOK
      BY <3>1 DEF UnhookVideo, UnhookAudio, Connected, Type, IInv, Types
    <3>3. /\ UNCHANGED << clock, lastKey, sentFirst, output, sent, seen, captures >>
          /\ stopped' = stopped /\ stopped \in BOOLEAN
      BY <3>1, <3>2 DEF UnhookVideo, UnhookAudio, TypeOK
    <3> QED  BY <3>1, <3>2, <3>3, EndingIInv
  <2> QED  BY <2>1, <2>2, EncodeIInv, HookAudioIInv, HookVideoIInv, UnchangedIInv DEF Next
<1> QED  BY <1>1, InitIInv, PTL DEF Spec

-----------------------------------------------------------------------------
(* What an output's plugin is handed is in order across the two streams,   *)
(* whatever order the encoder threads call interleave_packets in and       *)
(* however far one is ahead, for any periods; and no dts turns negative    *)
(* when the offsets are subtracted (send_interleaved,                      *)
(* apply_interleaved_packet_offset).                                       *)
THEOREM PacketsInOrder == Spec => []SentInOrder
BY IInvHolds, PTL DEF IInv, Sent

(* Each stream handed to the plugin starts at timestamp 0 and from there   *)
(* neither skips nor repeats a packet, whatever was pruned before it       *)
(* started (prune_interleaved_packets, initialize_interleaved_packets).    *)
THEOREM StreamsWhole == Spec => []WholeFromZero
BY IInvHolds, PTL DEF IInv, Sent

-----------------------------------------------------------------------------
(* Where the stream starts.  The start is tried when the first packet of a *)
(* type arrives: the only video packet, or audio that is behind all video. *)

AudioShort == Period["audio"] <= 2 * Period["video"]

Meets(o) ==
  \/ \A i, j \in 1..Len(o.packets) :
       o.packets[i].type = "video" /\ o.packets[j].type = "audio" => i < j
  \/ \A i, j \in 1..Len(o.packets) :
       o.packets[i].type = "video" /\ o.packets[j].type = "video" => i = j

Both(o) == \A t \in Type : ~Absent(o.packets, t)

LEMMA FirstsAre ==
  ASSUME NEW c, NEW T, NEW o, Filling(o, c, T), Both(o), NEW t \in Type
  PROVE  /\ FirstOf(o, t) \in 1..Len(o.packets) /\ First(o, t) = o.packets[FirstOf(o, t)]
         /\ IsFirst(o.packets, FirstOf(o, t))
         /\ First(o, t) \in PacketType /\ First(o, t).type = t /\ First(o, t).dts \in Nat
         /\ First(o, t).ts = First(o, t).dts + Epoch
<1>1. o.packets \in Seq(PacketType) /\ Queue(o.packets, Epoch)
  BY DEF Filling, Kept, Queue
<1>2. FirstOf(o, t) \in 1..Len(o.packets) /\ o.packets[FirstOf(o, t)].type = t /\ IsFirst(o.packets, FirstOf(o, t))
  BY <1>1, FirstIs DEF Both
<1>3. First(o, t) = o.packets[FirstOf(o, t)]
  BY DEF First
<1>4. First(o, t) \in PacketType
  BY <1>1, <1>2, <1>3
<1>5. First(o, t).ts = First(o, t).dts + Epoch
  BY <1>1, <1>2, <1>3 DEF Queue, Stamped
<1> QED  BY <1>2, <1>3, <1>4, <1>5 DEF PacketType

(* Premature video is dropped altogether.                                  *)
LEMMA PrematureIs ==
  ASSUME NEW c, NEW T, NEW o, Filling(o, c, T), Both(o), Meets(o), Premature(o)
  PROVE  /\ FirstOf(o, "video") < FirstOf(o, "audio") /\ MaxIdx(o) = FirstOf(o, "audio")
         /\ Absent(discard_to_idx(o, MaxIdx(o)).packets, "video")
<1> DEFINE q == o.packets
           a == FirstOf(o, "audio")
           v == FirstOf(o, "video")
           w == discard_to_idx(o, MaxIdx(o)).packets
<1>1. /\ q \in Seq(PacketType) /\ Len(q) \in Nat /\ Sorted(q) /\ Epoch \in Nat
      /\ Period["video"] \in Nat /\ "audio" \in Type /\ "video" \in Type
  BY TimeAssumption, PeriodAssumption DEF Filling, Kept, Queue, Type
<1>2. /\ a \in 1..Len(q) /\ First(o, "audio") = q[a] /\ q[a].type = "audio" /\ q[a].ts \in Nat
      /\ v \in 1..Len(q) /\ First(o, "video") = q[v] /\ q[v].type = "video" /\ q[v].ts \in Nat
  BY <1>1, FirstsAre, SMTT(30) DEF PacketType
<1> HIDE DEF a, v
<1>3. q[a].ts - q[v].ts > Period["video"]
  BY <1>2 DEF Premature
<1>4. v < a
  <2>1. ~(a < v)
    BY <1>1, <1>2, <1>3 DEF Sorted
  <2>2. a # v
    BY <1>2
  <2> QED  BY <1>2, <2>1, <2>2
<1>5. MaxIdx(o) = a
  BY <1>2, <1>4 DEF MaxIdx, a, v
<1>6. a \in 0..Len(q)
  BY <1>2
<1>7. Suffix(q, w, a)
  BY <1>5, <1>6, DiscardFills
<1>8. ASSUME NEW i \in 1..Len(w), w[i].type = "video"
      PROVE  FALSE
  <2> HIDE DEF w
  <2>1. q[a + i].type = "video" /\ a + i \in 1..Len(q)
    BY <1>7, <1>8 DEF Suffix
  <2>3. a + i > a
    BY <1>2
  <2> QED  BY <1>2, <1>4, <2>1, <2>3 DEF Meets
<1> QED  BY <1>4, <1>5, <1>8 DEF Absent, a, v

(* Otherwise the packets kept start with the first video packet and the    *)
(* audio closest to it.                                                    *)
LEMMA StartKeeps ==
  ASSUME NEW c, NEW T, NEW o, Filling(o, c, T), Both(o), NEW k, Closest(o, k),
         get_interleaved_start_idx(o) =
           IF FirstOf(o, "video") < k THEN FirstOf(o, "video") - 1 ELSE k - 1
  PROVE  LET w == discard_to_idx(o, get_interleaved_start_idx(o))
         IN  /\ First(w, "video") = First(o, "video")
             /\ First(w, "audio") = o.packets[k]
             /\ Both(w)
<1> DEFINE q == o.packets
           n == get_interleaved_start_idx(o)
           w == discard_to_idx(o, n)
           u == w.packets
           v == FirstOf(o, "video")
<1>1. /\ q \in Seq(PacketType) /\ Len(q) \in Nat /\ Sorted(q) /\ Epoch \in Nat
      /\ "audio" \in Type /\ "video" \in Type
  BY TimeAssumption DEF Filling, Kept, Queue, Type
<1>2. /\ v \in 1..Len(q) /\ First(o, "video") = q[v] /\ q[v].type = "video" /\ q[v].ts \in Nat
      /\ IsFirst(q, v)
  BY <1>1, FirstsAre DEF PacketType
<1>3. k \in 1..Len(q) /\ q[k].type = "audio"
  BY DEF Closest
<1>4. k # v /\ n = IF v < k THEN v - 1 ELSE k - 1
  BY <1>2, <1>3
<1>5. n \in 0..Len(q) /\ n < v /\ n < k
  BY <1>1, <1>2, <1>3, <1>4
<1>6. Suffix(q, u, n)
  BY <1>5, DiscardFills
<1> HIDE DEF n, v, w
<1>7. /\ u \in Seq(PacketType) /\ Len(u) = Len(q) - n
      /\ \A i \in 1..Len(u) : u[i] = q[n + i] /\ n + i \in 1..Len(q)
  BY <1>6 DEF Suffix
<1> HIDE DEF u
<1>8. v - n \in 1..Len(u) /\ k - n \in 1..Len(u) /\ n + (v - n) = v /\ n + (k - n) = k
  BY <1>1, <1>2, <1>3, <1>5, <1>7
<1>9. u[v - n] = q[v] /\ u[k - n] = q[k]
  BY <1>7, <1>8
<1>10. IsFirst(u, v - n)
  <2>1. ASSUME NEW i \in 1..(v - n) - 1
        PROVE  u[i].type # u[v - n].type
    <3>1. i \in 1..Len(u) /\ n + i \in 1..v - 1
      BY <1>2, <1>5, <1>7, <1>8, SMTT(30)
    <3> QED  BY <1>2, <1>7, <1>9, <3>1 DEF IsFirst
  <2> QED  BY <2>1 DEF IsFirst
<1>11. IsFirst(u, k - n)
  <2>1. ASSUME NEW i \in 1..(k - n) - 1, u[i].type = u[k - n].type
        PROVE  FALSE
    <3>1. i \in 1..Len(u) /\ n + i \in 1..Len(q) /\ n + i < k /\ n + i > n /\ q[n + i].type = "audio"
      <4>1. i \in 1..Len(u) /\ n + i < k /\ n + i > n
        BY <1>1, <1>3, <1>5, <1>7, <1>8
      <4> QED  BY <1>3, <1>7, <1>9, <2>1, <4>1
    <3>2. v < n + i
      <4>1. n = v - 1
        BY <1>2, <1>3, <1>4, <3>1
      <4>2. n + i # v
        BY <1>2, <3>1
      <4> QED  BY <1>2, <3>1, <4>1, <4>2
    <3>3. q[v].ts <= q[n + i].ts /\ q[n + i].ts <= q[k].ts
      BY <1>1, <1>2, <1>3, <3>1, <3>2 DEF Sorted
    <3>4. q[n + i].ts \in Nat /\ q[k].ts \in Nat
      <4>1. q[n + i] \in PacketType /\ q[k] \in PacketType
        BY <1>1, <1>3, <3>1
      <4> QED  BY <4>1 DEF PacketType
    <3>5. Distance(o, n + i) = q[n + i].ts - q[v].ts /\ Distance(o, k) = q[k].ts - q[v].ts
      <4>1. ~(q[n + i].ts < q[v].ts) /\ ~(q[k].ts < q[v].ts)
        BY <1>2, <3>3, <3>4
      <4> QED  BY <1>2, <4>1 DEF Distance
    <3>6. Distance(o, k) <= Distance(o, n + i) /\ (Distance(o, k) = Distance(o, n + i) => k <= n + i)
      BY <3>1 DEF Closest
    <3>7. Distance(o, k) = Distance(o, n + i)
      BY <1>2, <3>3, <3>4, <3>5, <3>6
    <3>8. k <= n + i /\ n + i < k
      BY <3>1, <3>6, <3>7
    <3> QED  BY <1>3, <3>1, <3>8
  <2> QED  BY <2>1 DEF IsFirst
<1>12. w.packets \in Seq(PacketType) /\ w.packets = u
  BY <1>7 DEF u
<1>13. FirstOf(w, "video") = v - n /\ FirstOf(w, "audio") = k - n
  <2>1. u[v - n].type = "video" /\ u[k - n].type = "audio"
    BY <1>2, <1>3, <1>9
  <2>2. FirstOf(w, u[v - n].type) = v - n
    BY <1>8, <1>10, <1>12, FirstUnique
  <2>3. FirstOf(w, u[k - n].type) = k - n
    BY <1>8, <1>11, <1>12, FirstUnique
  <2> QED  BY <2>1, <2>2, <2>3
<1>14. First(w, "video") = q[v] /\ First(w, "audio") = q[k]
  BY <1>9, <1>12, <1>13 DEF First
<1>15. Both(w)
  BY <1>2, <1>3, <1>8, <1>9, <1>12 DEF Both, Absent, Type
<1> QED  BY <1>2, <1>14, <1>15 DEF w, n

(* The arithmetic of ClosestNear: dts x and y of audio packets, v of the   *)
(* first video packet, p and q the periods of the two.                     *)
LEMMA DistanceIs ==
  ASSUME NEW x \in Nat, NEW v \in Nat, NEW e \in Nat, NEW xe, xe = x + e, NEW ve, ve = v + e,
         NEW d, d = IF xe < ve THEN ve - xe ELSE xe - ve
  PROVE  d \in Nat /\ (x <= v => d = v - x) /\ (x >= v => d = x - v)
OBVIOUS

LEMMA NearAfter ==
  ASSUME NEW x \in Nat, NEW y \in Nat, NEW v \in Nat, NEW p \in Nat, NEW q \in Nat,
         x >= v, x - v <= y - v, ~(y - v > q)
  PROVE  -q <= v - x /\ v - x <= p
OBVIOUS

LEMMA NearBefore ==
  ASSUME NEW x \in Nat, NEW y \in Nat, NEW v \in Nat, NEW p \in Nat, NEW q \in Nat,
         x <= v, v - x <= v - y, v <= y + p
  PROVE  -q <= v - x /\ v - x <= p
OBVIOUS

LEMMA NearBetween ==
  ASSUME NEW x \in Nat, NEW y \in Nat, NEW v \in Nat, NEW p \in Nat, NEW q \in Nat, p <= 2 * q,
         y <= v, v <= y + p, NEW d \in Nat, d <= v - y, d <= y + p - v, d = v - x \/ d = x - v
  PROVE  -q <= v - x /\ v - x <= p
OBVIOUS

LEMMA ClosestNear ==
  ASSUME AudioShort, NEW c \in [Type -> Nat], NEW T \in SUBSET Type, "audio" \in T, NEW o, Filling(o, c, T),
         Both(o), ~Premature(o), First(o, "video").dts <= c["audio"], NEW k, Closest(o, k)
  PROVE  LET n == First(o, "video").dts - o.packets[k].dts
         IN  -Period["video"] <= n /\ n <= Period["audio"]
<1> DEFINE q == o.packets
           f == FirstOf(o, "audio")
           V == First(o, "video").dts
           D(i) == Distance(o, i)
           P == Period["audio"]
           R == Period["video"]
<1>1. /\ q \in Seq(PacketType) /\ Len(q) \in Nat /\ Queue(q, Epoch) /\ Epoch \in Nat /\ o.offset["audio"] = 0
      /\ P \in Nat /\ R \in Nat /\ c["audio"] \in Nat /\ "audio" \in Type /\ "video" \in Type /\ P <= 2 * R
  BY TimeAssumption, PeriodAssumption DEF Filling, Kept, Queue, Type, AudioShort
<1>2. /\ f \in 1..Len(q) /\ First(o, "audio") = q[f] /\ q[f].type = "audio" /\ IsFirst(q, f)
      /\ V \in Nat /\ First(o, "video").ts = V + Epoch
  BY <1>1, FirstsAre
<1>3. ASSUME NEW i \in 1..Len(q)
      PROVE  /\ q[i].dts \in Nat /\ q[i].ts = q[i].dts + Epoch /\ D(i) \in Nat
             /\ q[i].dts <= V => D(i) = V - q[i].dts
             /\ q[i].dts >= V => D(i) = q[i].dts - V
  <2>1. q[i].dts \in Nat /\ q[i].ts = q[i].dts + Epoch
    <3>1. q[i] \in PacketType
      BY <1>1
    <3> QED  BY <1>1, <3>1 DEF PacketType, Queue, Stamped
  <2> DEFINE X == q[i].dts
  <2>2. X \in Nat /\ V \in Nat /\ Epoch \in Nat /\ q[i].ts = X + Epoch /\ First(o, "video").ts = V + Epoch
    BY <1>1, <1>2, <2>1
  <2>3. D(i) = IF q[i].ts < First(o, "video").ts THEN First(o, "video").ts - q[i].ts ELSE q[i].ts - First(o, "video").ts
    BY DEF Distance
  <2> HIDE DEF X, V, D
  <2>4. D(i) \in Nat /\ (X <= V => D(i) = V - X) /\ (X >= V => D(i) = X - V)
    BY <2>2, <2>3, DistanceIs
  <2> QED  BY <2>1, <2>4 DEF X, V, D
<1>4. ~(q[f].dts - V > R)
  BY <1>1, <1>2, <1>3 DEF Premature
<1>5. /\ k \in 1..Len(q) /\ q[k].type = "audio" /\ q[k].dts \in Nat
      /\ \A j \in 1..Len(q) : q[j].type = "audio" => D(k) <= D(j)
  BY <1>3 DEF Closest
<1> HIDE DEF V, f, P, R, D
<1>6. CASE q[f].dts >= V
  <2>1. q[f].dts <= q[k].dts
    BY <1>1, <1>2, <1>5, FirstLeast DEF f
  <2>2. D(k) <= D(f) /\ q[f].dts \in Nat
    BY <1>2, <1>3, <1>5
  <2>3. q[k].dts >= V /\ D(k) = q[k].dts - V /\ D(f) = q[f].dts - V
    BY <1>2, <1>3, <1>5, <1>6, <2>1, <2>2
  <2>4. -R <= V - q[k].dts /\ V - q[k].dts <= P
    <3> DEFINE X == q[k].dts
               Y == q[f].dts
    <3>1. X \in Nat /\ Y \in Nat /\ X >= V /\ X - V <= Y - V /\ ~(Y - V > R) /\ V \in Nat /\ P \in Nat /\ R \in Nat
      BY <1>1, <1>2, <1>4, <1>5, <2>2, <2>3
    <3> HIDE DEF X, Y
    <3>2. -R <= V - X /\ V - X <= P
      BY <3>1, NearAfter
    <3> QED  BY <3>2 DEF X
  <2> QED  BY <2>4 DEF V, P, R
<1>7. CASE q[f].dts < V
  <2> DEFINE S == {j \in 1..Len(q) : q[j].type = "audio" /\ q[j].dts > V}
  <2>1. S \subseteq Nat
    OBVIOUS
  <2>2. CASE S = {}
    <3>1. Reaches(q, "audio", c["audio"] - o.offset["audio"])
      BY DEF Filling, Kept
    <3>2. PICK l \in 1..Len(q) : q[l].type = "audio" /\ q[l].dts + P = c["audio"]
      BY <1>1, <1>2, <3>1 DEF Reaches, Absent, P
    <3>3. D(k) <= D(l) /\ q[l].dts \in Nat /\ q[l].dts <= V /\ q[k].dts <= V
      <4>1. ~(q[l].dts > V) /\ ~(q[k].dts > V)
        BY <1>5, <2>2, <3>2
      <4>2. D(k) <= D(l)
        BY <1>5, <3>2
      <4>3. q[l].dts \in Nat /\ q[k].dts \in Nat /\ V \in Nat
        BY <1>2, <1>3, <1>5, <3>2
      <4> QED  BY <4>1, <4>2, <4>3
    <3>4. V <= c["audio"]
      BY DEF V
    <3>5. V - q[k].dts <= P /\ -R <= V - q[k].dts
      <4>1. D(l) = V - q[l].dts /\ D(k) = V - q[k].dts
        BY <1>3, <1>5, <3>3
      <4> DEFINE X == q[k].dts
                 Y == q[l].dts
      <4>2. X \in Nat /\ Y \in Nat /\ X <= V /\ V - X <= V - Y /\ V <= Y + P /\ V \in Nat /\ P \in Nat /\ R \in Nat
        BY <1>1, <1>2, <1>5, <3>2, <3>3, <3>4, <4>1
      <4> HIDE DEF X, Y
      <4>3. -R <= V - X /\ V - X <= P
        BY <4>2, NearBefore
      <4> QED  BY <4>3 DEF X
    <3> QED  BY <3>5 DEF V, P, R
  <2>3. CASE S # {}
    <3> DEFINE j == Min(S)
    <3>1. j \in S /\ \A n \in S : j <= n
      BY <2>1, <2>3, LeastIs
    <3> HIDE DEF j
    <3>2. j \in 1..Len(q) /\ q[j].type = "audio" /\ q[j].dts > V
      BY <3>1
    <3>3. ~IsFirst(q, j)
      <4>1. j # f
        BY <1>2, <1>3, <1>7, <3>2
      <4>2. IsFirst(q, j) => FirstOf(o, q[j].type) = j
        BY <1>1, <3>2, FirstUnique
      <4> QED  BY <3>2, <4>1, <4>2 DEF f
    <3>4. PICK i \in 1..j - 1 : q[i].type = "audio" /\ q[j].dts = q[i].dts + P
      BY <1>1, <3>2, <3>3 DEF Queue, Whole, P
    <3>5. i \in 1..Len(q) /\ i < j
      BY <1>1, <3>2
    <3>6. q[i].dts <= V
      <4>1. i \notin S
        BY <3>1, <3>2, <3>5
      <4> QED  BY <1>2, <1>3, <3>4, <3>5, <4>1
    <3>7. D(k) <= D(i) /\ D(k) <= D(j) /\ q[i].dts \in Nat /\ q[j].dts \in Nat
      BY <1>3, <1>5, <3>2, <3>4, <3>5
    <3>8. D(k) \in Nat /\ D(k) <= V - q[i].dts /\ D(k) <= q[i].dts + P - V
      <4>1. D(i) = V - q[i].dts /\ D(j) = q[j].dts - V
        BY <1>2, <1>3, <3>2, <3>5, <3>6, <3>7, SMTT(30)
      <4>2. D(j) = q[i].dts + P - V
        BY <1>1, <1>2, <3>4, <3>7, <4>1
      <4> QED  BY <1>3, <1>5, <3>7, <4>1, <4>2
    <3>9. D(k) = V - q[k].dts \/ D(k) = q[k].dts - V
      BY <1>2, <1>3, <1>5
    <3>10. -R <= V - q[k].dts /\ V - q[k].dts <= P
      <4> DEFINE X == q[k].dts
                 Y == q[i].dts
                 E == D(k)
      <4>1. /\ X \in Nat /\ Y \in Nat /\ V \in Nat /\ P \in Nat /\ R \in Nat /\ P <= 2 * R
            /\ Y <= V /\ V <= Y + P
            /\ E \in Nat /\ E <= V - Y /\ E <= Y + P - V /\ (E = V - X \/ E = X - V)
        BY <1>1, <1>2, <1>5, <3>2, <3>4, <3>6, <3>7, <3>8, <3>9, SMTT(30)
      <4> HIDE DEF X, Y, E
      <4>2. -R <= V - X /\ V - X <= P
        BY <4>1, NearBetween
      <4> QED  BY <4>2 DEF X
    <3> QED  BY <3>10 DEF V, P, R
  <2> QED  BY <2>2, <2>3
<1> QED  BY <1>1, <1>2, <1>3, <1>6, <1>7

(* What becomes of the queue when both types were received.                *)
LEMMA TryStartSyncs ==
  ASSUME AudioShort, NEW c \in [Type -> Nat], NEW T \in SUBSET Type, "audio" \in T, NEW o, Filling(o, c, T),
         o.received = Type, Both(o) => Meets(o), Led(o, c), Keyed(o.packets)
  PROVE  LET r == TryStart(o)
         IN  Near(r) /\ Startable(r, c) /\ Begun(r, << >>)
<1> DEFINE w == Pruned(o)
           r == TryStart(o)
<1>1. Filling(w, c, T) /\ w.received = Type /\ w.packets \in Seq(PacketType) /\ w \in Fields
  <2>1. Filling(w, c, T) /\ w.received = Type /\ w.packets \in Seq(PacketType)
    BY PrunedFills
  <2> QED  BY <2>1 DEF Filling, Kept
<1>2. o.packets \in Seq(PacketType)
  BY DEF Filling, Kept, Queue
<1>3. ASSUME ~Both(w), Led(w, c), Keyed(w.packets)
      PROVE  Near(r) /\ Startable(r, c) /\ Begun(r, << >>)
  <2> HIDE DEF w
  <2>1. Missing(w) # {} /\ r = ForgetMissing(w)
    BY <1>1, <1>3, MissingIs DEF TryStart, w, Both
  <2>2. r = [w EXCEPT !.received = Type \ Missing(w)]
    BY <1>1, <2>1 DEF ForgetMissing
  <2>3. r.received = Type \ Missing(w) /\ r.packets = w.packets
    BY <1>1, <2>2 DEF Fields
  <2>4. ~Started(r)
    BY <2>1, <2>3 DEF Started, Missing
  <2>5. Absent(r.packets, "video") => "video" \notin r.received
    BY <1>1, <2>3, MissingIs DEF Type
  <2>6. Led(r, c) /\ Keyed(r.packets)
    BY <1>3, <2>3 DEF Led
  <2> QED  BY <2>4, <2>5, <2>6 DEF Near, Startable, Begun
<1>4. CASE ~Both(o)
  <2>1. w = o
    BY <1>2, <1>4, MissingIs DEF Pruned, Both
  <2> QED  BY <1>3, <1>4, <2>1
<1>5. CASE Both(o) /\ Premature(o)
  <2>1. w = discard_to_idx(o, MaxIdx(o))
    BY <1>2, <1>5, PrunedIs DEF Both
  <2>2. Absent(w.packets, "video")
    BY <1>5, <2>1, PrematureIs
  <2>3. ~Both(w) /\ Led(w, c) /\ Keyed(w.packets)
    BY <2>2 DEF Both, Type, Led, Keyed, Absent
  <2> QED  BY <1>3, <2>3
<1>6. CASE Both(o) /\ ~Premature(o)
  <2>1. w = discard_to_idx(o, get_interleaved_start_idx(o))
    BY <1>2, <1>6, PrunedIs DEF Both
  <2>2. PICK k : /\ Closest(o, k)
                 /\ get_interleaved_start_idx(o) =
                      IF FirstOf(o, "video") < k THEN FirstOf(o, "video") - 1 ELSE k - 1
    BY <1>2, <1>6, StartIs DEF Both, Type
  <2>3. First(w, "video") = First(o, "video") /\ First(w, "audio") = o.packets[k] /\ Both(w)
    BY <1>6, <2>1, <2>2, StartKeeps
  <2>4. /\ FirstOf(o, "video") \in 1..Len(o.packets) /\ First(o, "video") = o.packets[FirstOf(o, "video")]
        /\ IsFirst(o.packets, FirstOf(o, "video")) /\ First(o, "video").type = "video"
    BY <1>6, FirstsAre DEF Type
  <2>5. First(o, "video").dts <= c["audio"] /\ First(o, "video").keyframe
    BY <2>4 DEF Led, Keyed
  <2>6. LET n == First(o, "video").dts - o.packets[k].dts
        IN  -Period["video"] <= n /\ n <= Period["audio"]
    BY <1>6, <2>2, <2>5, ClosestNear
  <2> HIDE DEF w, r
  <2>7. r = initialize_interleaved_packets(w)
    BY <1>1, <2>3, MissingIs DEF TryStart, Both, w, r
  <2>8. /\ Started(r)
        /\ \A t \in Type : ~Absent(r.packets, t) /\ r.offset[t] = First(w, t).dts
        /\ \A t \in Type, i \in 1..Len(r.packets) :
             r.packets[i].type = t /\ IsFirst(r.packets, i) =>
               r.packets[i].keyframe = First(w, t).keyframe
    <3> DEFINE z == initialize_interleaved_packets(w)
    <3>1. \A t \in Type : ~Absent(w.packets, t)
      BY <2>3 DEF Both
    <3>2. Started(z) /\ \A t \in Type : ~Absent(z.packets, t)
      BY <1>1, <3>1, InitRuns
    <3>3. \A t \in Type : z.offset[t] = First(w, t).dts
      BY <1>1, <3>1, InitRuns
    <3>4. \A t \in Type, i \in 1..Len(z.packets) :
            z.packets[i].type = t /\ IsFirst(z.packets, i) =>
              z.packets[i].keyframe = First(w, t).keyframe
      BY <1>1, <3>1, InitRuns, ZenonT(40)
    <3> HIDE DEF z
    <3>5. r = z
      BY <2>7 DEF z
    <3> QED  BY <3>2, <3>3, <3>4, <3>5
  <2>9. r.offset["video"] = First(o, "video").dts /\ r.offset["audio"] = o.packets[k].dts
    BY <2>3, <2>8 DEF Type
  <2>10. Near(r)
    BY <2>6, <2>9 DEF Near
  <2>11. Keyed(r.packets)
    BY <2>3, <2>5, <2>8 DEF Keyed, Type
  <2>12. Near(r) /\ Startable(r, c) /\ Begun(r, << >>)
    BY <2>8, <2>10, <2>11 DEF Startable, Begun, Type
  <2> QED  BY <2>12 DEF r
<1> QED  BY <1>4, <1>5, <1>6

(* Of two types received, one has been queued just now.                    *)
LEMMA QueuedMeets ==
  ASSUME NEW c \in [Type -> Nat], NEW T \in SUBSET Type, NEW o, Filling(o, c, T), Led(o, c),
         NEW p \in PacketType, p.dts = c[p.type], p.ts = Epoch + p.dts, Absent(o.packets, p.type),
         NEW w, NEW k, Inserted(o.packets, w, p, k)
  PROVE  \A u : u.packets = w => Meets(u)
<1> DEFINE q == o.packets
<1>1. /\ q \in Seq(PacketType) /\ Len(q) \in Nat /\ k \in 1..Len(q) + 1 /\ Len(w) = Len(q) + 1 /\ Epoch \in Nat
  BY TimeAssumption DEF Filling, Kept, Queue, Inserted
<1>2. SUFFICES ASSUME NEW u, u.packets = w
               PROVE  Meets(u)
  OBVIOUS
<1>3. \A j \in 1..Len(w) : j = k \/ w[j].type # p.type
  <2>1. TAKE j \in 1..Len(w)
  <2>2. \/ j \in 1..k - 1 /\ j \in 1..Len(q) /\ w[j] = q[j] /\ q[j].ts <= p.ts
        \/ j = k /\ w[j] = p
        \/ j > k /\ j - 1 \in k..Len(q) /\ j - 1 \in 1..Len(q) /\ w[j] = q[j - 1] /\ p.ts < q[j - 1].ts
    BY <1>1, InsertedAt
  <2> QED  BY <2>2 DEF Absent
<1>4. CASE p.type = "video"
  BY <1>2, <1>3, <1>4 DEF Meets
<1>5. CASE p.type = "audio"
  <2>1. ASSUME NEW i \in k..Len(q)
        PROVE  FALSE
    <3>1. i \in 1..Len(q) /\ p.ts < q[i].ts
      BY <1>1 DEF Inserted
    <3>2. q[i] \in PacketType
      BY <1>1, <3>1
    <3>3. q[i].type = "video"
      BY <1>5, <3>1, <3>2 DEF Absent, PacketType, Type
    <3>4. q[i].dts <= c["audio"] /\ q[i].ts = q[i].dts + Epoch
      BY <3>1, <3>3 DEF Led, Filling, Kept, Queue, Stamped
    <3>5. q[i].dts \in Nat /\ c["audio"] \in Nat /\ p.ts = Epoch + c["audio"]
      BY <1>5, <3>2 DEF PacketType, Type
    <3> QED  BY <1>1, <3>1, <3>4, <3>5
  <2>2. k = Len(w)
    BY <1>1, <2>1
  <2> QED  BY <1>1, <1>2, <1>3, <1>5, <2>2 DEF Meets
<1> QED  BY <1>4, <1>5 DEF PacketType, Type

(* What is queued keeps the first video packet, unless it is that.         *)
LEMMA InsertKeyed ==
  ASSUME NEW q, NEW e \in Nat, Queue(q, e), NEW p \in PacketType, p.ts = p.dts + e,
         Reaches(q, p.type, p.dts), NEW r, NEW k, Inserted(q, r, p, k),
         Keyed(q), p.type = "video" /\ Absent(q, "video") => p.keyframe
  PROVE  Keyed(r)
<1>1. SUFFICES ASSUME NEW j \in 1..Len(r), r[j].type = "video", IsFirst(r, j)
               PROVE  r[j].keyframe
  BY DEF Keyed
<1>2. \/ r[j] = p /\ Absent(q, p.type)
      \/ \E i \in 1..Len(q) : IsFirst(q, i) /\ q[i] = r[j]
  BY <1>1, InsertFirst
<1> QED  BY <1>1, <1>2 DEF Keyed

LEMMA ReadySyncs ==
  ASSUME AudioShort, NEW c \in [Type -> Nat], NEW T \in SUBSET Type, "audio" \in T,
         NEW o, Buffer(o, c, T), Near(o), Startable(o, c),
         NEW p \in PacketType, p.type \in T, p.dts = c[p.type], p.ts = Epoch + p.dts,
         p.type = "video" => c["video"] <= c["audio"],
         p.type = "video" /\ "video" \notin o.received => p.keyframe,
         NEW s, ~Started(o) => s = << >>
  PROVE  LET r == Ready(o, p)
         IN  /\ Near(r) /\ Startable(r, Ticked(c, p.type))
             /\ Begun(o, s) => Begun(r, s)
<1> DEFINE w == Queued(o, p)
           r == Ready(o, p)
           d == Ticked(c, p.type)
<1>1. p.type \in Type /\ d \in [Type -> Nat]
  BY TickTyped DEF PacketType
<1>2. CASE Started(o)
  <2>1. r = w /\ Running(o, c, T) /\ o.packets \in Seq(PacketType)
    BY <1>2 DEF Ready, Buffer, Running, Kept, Queue
  <2>2. Started(w) /\ Incoming(o, p) \in PacketType
    BY <1>2, <2>1, QueuedRuns
  <2>3. PICK k : Inserted(o.packets, w.packets, Incoming(o, p), k)
    BY <1>2, <2>1, QueuedRuns
  <2>4. w.offset = o.offset
    BY <2>1, <2>2, QueuedIs DEF Running, Kept, Queue
  <2>5. Near(w) /\ Startable(w, d)
    BY <1>2, <2>2, <2>4 DEF Near, Startable
  <2>6. ASSUME Begun(o, s)
        PROVE  Begun(w, s)
    <3>1. SUFFICES ASSUME Absent(s, "video")
                   PROVE  ~Absent(w.packets, "video") /\ Keyed(w.packets)
      BY DEF Begun
    <3>2. ~Absent(o.packets, "video") /\ Keyed(o.packets)
      BY <1>2, <2>6, <3>1 DEF Begun
    <3>3. /\ Incoming(o, p).type = p.type /\ Incoming(o, p).dts = c[p.type] - o.offset[p.type]
          /\ Incoming(o, p).ts = Incoming(o, p).dts
      BY <1>2, IncomingIs
    <3>4. Queue(o.packets, 0) /\ Reaches(o.packets, p.type, c[p.type] - o.offset[p.type])
      BY <2>1 DEF Running, Kept
    <3>5. Incoming(o, p).dts \in Nat
      BY <2>2 DEF PacketType
    <3>6. Keyed(w.packets)
      <4> DEFINE x == Incoming(o, p)
      <4>1. /\ x \in PacketType /\ x.ts = x.dts + 0 /\ Reaches(o.packets, x.type, x.dts) /\ 0 \in Nat
            /\ x.type = "video" /\ Absent(o.packets, "video") => x.keyframe
        BY <2>2, <3>2, <3>3, <3>4, <3>5
      <4> HIDE DEF x
      <4>2. Inserted(o.packets, w.packets, x, k)
        BY <2>3 DEF x
      <4> QED  BY <3>2, <3>4, <4>1, <4>2, InsertKeyed
    <3>7. ~Absent(w.packets, "video")
      BY <2>1, <2>3, <3>2, InsertHas
    <3> QED  BY <3>6, <3>7
  <2> HIDE DEF w, d
  <2> QED  BY <2>1, <2>5, <2>6 DEF d
<1>3. CASE ~Started(o)
  <2>1. /\ Filling(o, c, T) /\ \A t \in Type \ o.received : Absent(o.packets, t)
        /\ Led(o, c) /\ Keyed(o.packets) /\ (Absent(o.packets, "video") => "video" \notin o.received)
        /\ s = << >>
    BY <1>3 DEF Buffer, Startable
  <2>2. /\ o.packets \in Seq(PacketType) /\ Queue(o.packets, Epoch) /\ Epoch \in Nat
        /\ Reaches(o.packets, p.type, p.dts) /\ p.ts = p.dts + Epoch /\ p.dts \in Nat
    <3>1. Reaches(o.packets, p.type, c[p.type] - o.offset[p.type]) /\ o.offset[p.type] = 0
      BY <1>1, <2>1 DEF Filling, Kept
    <3>2. p.dts \in Nat /\ Epoch \in Nat
      BY TimeAssumption DEF PacketType
    <3> QED  BY <2>1, <3>1, <3>2 DEF Filling, Kept, Queue
  <2>3. Filling(w, d, T)
    BY <1>3, <2>1, QueuedFills
  <2>4. w.received = o.received \cup {p.type}
    <3>1. Incoming(o, p) \in PacketType /\ o \in Fields /\ Sorted(o.packets)
      BY <1>3, <2>1 DEF Incoming, Filling, Kept, Queue
    <3>2. w.received = IF Started(o) THEN o.received ELSE o.received \cup {p.type}
      BY <3>1, QueuedIs
    <3> QED  BY <1>3, <3>2
  <2>5. PICK k : Inserted(o.packets, w.packets, p, k)
    BY <1>3, <2>1, QueuedFills
  <2>6. Keyed(w.packets)
    BY <2>1, <2>2, <2>5, InsertKeyed
  <2>7. Led(w, d)
    <3>1. ASSUME NEW j \in 1..Len(w.packets), w.packets[j].type = "video"
          PROVE  w.packets[j].dts <= d["audio"]
      <4>1. w.packets[j] = p \/ \E i \in 1..Len(o.packets) : w.packets[j] = o.packets[i]
        BY <2>2, <2>5, InsertHas
      <4>2. w.packets[j].dts <= c["audio"]
        BY <2>1, <3>1, <4>1 DEF Led
      <4>3. c["audio"] \in Nat /\ d["audio"] \in Nat /\ d["audio"] >= c["audio"]
        BY <1>1, PeriodAssumption DEF Ticked, Type
      <4>4. w.packets[j].dts \in Nat
        <5>1. w.packets[j] \in PacketType
          BY <2>3 DEF Filling, Kept, Queue
        <5> QED  BY <5>1 DEF PacketType
      <4> QED  BY <4>2, <4>3, <4>4
    <3> QED  BY <3>1 DEF Led
  <2>8. CASE ~Started(w)
    <3>1. r = w
      BY <2>8 DEF Ready
    <3>2. ASSUME Absent(w.packets, "video")
          PROVE  "video" \notin w.received
      <4>1. Absent(o.packets, "video") /\ p.type # "video"
        BY <2>2, <2>5, <3>2, InsertHas
      <4> QED  BY <2>1, <2>4, <4>1
    <3>3. Near(w) /\ Startable(w, d) /\ Begun(w, s)
      BY <2>6, <2>7, <2>8, <3>2 DEF Near, Startable, Begun
    <3> HIDE DEF w, d
    <3> QED  BY <3>1, <3>3 DEF d
  <2>9. CASE Started(w)
    <3>1. r = TryStart(w) /\ w.received = Type
      BY <1>3, <2>9 DEF Ready, Started
    <3>2. Absent(o.packets, p.type)
      <4>1. o.received # Type /\ o.received \subseteq Type
        BY <1>3, <2>1 DEF Started, Filling, Kept, Fields
      <4>2. p.type \notin o.received
        BY <1>1, <2>4, <3>1, <4>1
      <4> QED  BY <1>1, <2>1, <4>2
    <3>3. Meets(w)
      BY <2>1, <2>5, <3>2, QueuedMeets
    <3> HIDE DEF w, d
    <3>4. Near(r) /\ Startable(r, d) /\ Begun(r, << >>)
      BY <1>1, <2>3, <2>6, <2>7, <3>1, <3>3, TryStartSyncs
    <3> QED  BY <2>1, <3>4 DEF d
  <2> QED  BY <2>8, <2>9
<1> QED  BY <1>2, <1>3

LEMMA SentSyncs ==
  ASSUME NEW o, o.packets \in Seq(PacketType), o.packets # << >>, Started(o),
         NEW s \in Seq(PacketType), Keyed(s), Begun(o, s)
  PROVE  /\ Keyed(Append(s, Head(o.packets)))
         /\ \A r : r.packets = Tail(o.packets) => Begun(r, Append(s, Head(o.packets)))
<1> DEFINE q == o.packets
           h == Head(q)
           a == Append(s, h)
<1>1. /\ Len(q) \in Nat \ {0} /\ h = q[1] /\ h \in PacketType /\ Len(s) \in Nat
      /\ Len(a) = Len(s) + 1 /\ (\A i \in 1..Len(s) : a[i] = s[i]) /\ a[Len(s) + 1] = h
  BY AppendIs
<1> HIDE DEF h, a
<1>2. Absent(s, "video") => ~Absent(q, "video") /\ Keyed(q)
  BY DEF Begun
<1>3. ASSUME NEW i \in 1..Len(a), a[i].type = "video", IsFirst(a, i)
      PROVE  a[i].keyframe
  <2>1. CASE i \in 1..Len(s)
    <3>1. \A j \in 1..i - 1 : j \in 1..Len(s)
      BY <1>1, <2>1
    <3>2. IsFirst(s, i)
      BY <1>1, <1>3, <2>1, <3>1 DEF IsFirst
    <3> QED  BY <1>1, <1>3, <2>1, <3>2 DEF Keyed
  <2>2. CASE i = Len(s) + 1
    <3>1. \A j \in 1..Len(s) : j \in 1..i - 1
      BY <1>1, <2>2
    <3>2. Absent(s, "video")
      BY <1>1, <1>3, <3>1 DEF IsFirst, Absent
    <3>3. IsFirst(q, 1) /\ 1 \in 1..Len(q)
      BY <1>1 DEF IsFirst
    <3> QED  BY <1>1, <1>2, <1>3, <2>2, <3>2, <3>3 DEF Keyed
  <2> QED  BY <1>1, <2>1, <2>2
<1>4. ASSUME NEW r, r.packets = Tail(q), Absent(a, "video")
      PROVE  ~Absent(r.packets, "video") /\ Keyed(r.packets)
  <2> DEFINE u == r.packets
  <2>1. u \in Seq(PacketType) /\ Len(u) = Len(q) - 1 /\ \A i \in 1..Len(u) : u[i] = q[i + 1]
    BY <1>1, <1>4
  <2> HIDE DEF u
  <2>2. Absent(s, "video") /\ q[1].type # "video"
    <3>1. \A i \in 1..Len(s) : i \in 1..Len(a)
      BY <1>1
    <3>2. Len(s) + 1 \in 1..Len(a)
      BY <1>1
    <3> QED  BY <1>1, <1>4, <3>1, <3>2 DEF Absent
  <2>3. PICK i \in 1..Len(q) : q[i].type = "video"
    BY <1>2, <2>2 DEF Absent
  <2>4. i - 1 \in 1..Len(u) /\ (i - 1) + 1 = i
    BY <1>1, <2>1, <2>2, <2>3
  <2>5. ~Absent(u, "video")
    BY <2>1, <2>3, <2>4 DEF Absent
  <2>6. ASSUME NEW j \in 1..Len(u), u[j].type = "video", IsFirst(u, j)
        PROVE  u[j].keyframe
    <3>1. j + 1 \in 1..Len(q) /\ q[j + 1] = u[j]
      BY <1>1, <2>1
    <3>2. ASSUME NEW l \in 1..(j + 1) - 1
          PROVE  q[l].type # q[j + 1].type
      <4>1. CASE l = 1
        BY <2>2, <2>6, <3>1, <4>1
      <4>2. CASE l # 1
        <5>1. l - 1 \in 1..j - 1 /\ l - 1 \in 1..Len(u) /\ (l - 1) + 1 = l
          BY <1>1, <2>1, <4>2
        <5>2. q[l] = u[l - 1]
          BY <2>1, <5>1
        <5> QED  BY <2>6, <3>1, <5>1, <5>2 DEF IsFirst
      <4> QED  BY <4>1, <4>2
    <3>3. IsFirst(q, j + 1)
      BY <3>2 DEF IsFirst
    <3> QED  BY <1>2, <2>2, <2>6, <3>1, <3>3 DEF Keyed
  <2> QED  BY <2>5, <2>6 DEF Keyed, u
<1>5. Keyed(a)
  BY <1>3 DEF Keyed
<1>6. \A r : r.packets = Tail(q) => Begun(r, a)
  BY <1>4 DEF Begun
<1> QED  BY <1>5, <1>6 DEF a, h

LEMMA InterleaveSyncs ==
  ASSUME AudioShort, Types, Buffer(output, clock, Connected), Sent, NEW t \in Connected, NEW key \in BOOLEAN,
         interleave_packets(Packet(t, key)),
         Keyed(sent), Near(output), Startable(output, clock), ~stopped => Begun(output, sent),
         t = "video" => clock["video"] <= clock["audio"]
  PROVE  /\ Keyed(sent') /\ Near(output') /\ Startable(output', Ticked(clock, t))
         /\ ~stopped => Begun(output', sent')
<1> DEFINE p == Packet(t, key)
           d == Ticked(clock, t)
           r == Ready(output, p)
           T == Connected
<1>1. /\ T \in SUBSET Type /\ clock \in [Type -> Nat] /\ t \in Type /\ "audio" \in T
      /\ sent \in Seq(PacketType) /\ (~Started(output) => sent = << >>)
  BY DEF Types, TypeOK, Connected, Type, Sent
<1>2. p \in PacketType /\ p.type = t /\ p.keyframe = key /\ p.dts = clock[t] /\ p.ts = Epoch + p.dts
  BY <1>1, PacketIs
<1> HIDE DEF p, T
<1>3. CASE t = "video" /\ "video" \notin output.received /\ ~key
  <2>1. output' = discard_unused_audio_packets(output, p.ts) /\ sent' = sent
    BY <1>2, <1>3 DEF interleave_packets, p
  <2>2. ~Started(output) /\ Filling(output, clock, T) /\ Absent(output.packets, "video")
    BY <1>3 DEF Buffer, Started, Type, T
  <2>3. output.packets \in Seq(PacketType)
    BY <2>2 DEF Filling, Kept, Queue
  <2>4. PICK n \in 0..Len(output.packets) : output' = discard_to_idx(output, n)
    BY <2>1, <2>3, UnusedIs
  <2>5. output'.received = output.received /\ Absent(output'.packets, "video")
    BY <2>2, <2>4, DiscardFills
  <2>6. ~Started(output')
    BY <2>2, <2>5 DEF Started
  <2>7. Near(output') /\ Startable(output', d) /\ Begun(output', sent')
    BY <1>3, <2>5, <2>6 DEF Near, Startable, Begun, Led, Keyed, Absent
  <2> HIDE DEF d
  <2> QED  BY <2>1, <2>7 DEF d
<1>4. CASE ~(t = "video" /\ "video" \notin output.received /\ ~key)
  <2>1. Near(r) /\ Startable(r, d) /\ (Begun(output, sent) => Begun(r, sent))
    <3> DEFINE x == Ready(output, p)
    <3>1. Buffer(output, clock, T) /\ p.type \in T /\ p.dts = clock[p.type]
      BY <1>2 DEF T
    <3>2. /\ p.type = "video" => clock["video"] <= clock["audio"]
          /\ p.type = "video" /\ "video" \notin output.received => p.keyframe
      BY <1>2, <1>4
    <3>3. /\ Near(x) /\ Startable(x, Ticked(clock, p.type))
          /\ Begun(output, sent) => Begun(x, sent)
      BY <1>1, <1>2, <3>1, <3>2, ReadySyncs
    <3> QED  BY <1>2, <3>3
  <2>2. /\ Buffer(r, d, T) /\ (Started(r) => r.packets # << >>)
    <3> DEFINE x == Ready(output, p)
    <3>1. Buffer(output, clock, T) /\ p.type \in T /\ p.dts = clock[p.type]
      BY <1>2 DEF T
    <3>2. /\ Buffer(x, Ticked(clock, p.type), T)
          /\ Continues(output, clock, T, sent) => Continues(x, Ticked(clock, p.type), T, sent)
          /\ Started(output) => Started(x)
          /\ Started(x) => x.packets # << >>
          /\ x.received \subseteq output.received \cup {p.type}
      BY <1>1, <1>2, <3>1, ReadyKeeps
    <3> QED  BY <1>2, <3>2
  <2>3. IF ~Started(r) \/ ~Sends(r) THEN output' = r /\ sent' = sent
        ELSE /\ output' = [r EXCEPT !.packets = Tail(@)]
             /\ sent' = IF stopped THEN sent ELSE Append(sent, Head(r.packets))
    <3>1. ~(p.type = "video" /\ "video" \notin output.received /\ ~p.keyframe)
      BY <1>2, <1>4
    <3> QED  BY <3>1 DEF interleave_packets, Ready, p
  <2> HIDE DEF r, d
  <2>4. CASE ~Started(r) \/ ~Sends(r)
    BY <2>1, <2>3, <2>4 DEF d
  <2>5. CASE Started(r) /\ Sends(r)
    <3>1. output' = [r EXCEPT !.packets = Tail(@)] /\ Running(r, d, T) /\ r.packets # << >>
      BY <2>2, <2>3, <2>5 DEF Buffer
    <3>2. Started(output') /\ output'.offset = r.offset /\ output'.packets = Tail(r.packets)
      BY <2>5, <3>1, SentRuns
    <3>3. Near(output') /\ Startable(output', d)
      BY <2>1, <2>5, <3>2 DEF Near, Startable
    <3>4. CASE stopped
      BY <2>3, <2>5, <3>3, <3>4 DEF d
    <3>5. CASE ~stopped
      <4>1. sent' = Append(sent, Head(r.packets)) /\ Begun(r, sent)
        BY <2>1, <2>3, <2>5, <3>5
      <4>2. r.packets \in Seq(PacketType)
        BY <3>1 DEF Running, Kept, Queue
      <4>3. Keyed(sent') /\ Begun(output', sent')
        BY <1>1, <2>5, <3>1, <3>2, <4>1, <4>2, SentSyncs
      <4> QED  BY <3>3, <4>3 DEF d
    <3> QED  BY <3>4, <3>5
  <2> QED  BY <2>4, <2>5
<1> QED  BY <1>3, <1>4

(* Time passes.                                                            *)
LEMMA TickSyncs ==
  ASSUME NEW c \in [Type -> Nat], NEW t \in Type, NEW o \in Fields, Startable(o, c)
  PROVE  Startable(o, Ticked(c, t))
<1> DEFINE d == Ticked(c, t)
<1>1. c["audio"] \in Nat /\ d["audio"] \in Nat /\ d["audio"] >= c["audio"]
  BY PeriodAssumption DEF Ticked, Type
<1>2. \A i \in 1..Len(o.packets) : o.packets[i].dts \in Nat
  <2>1. \A i \in 1..Len(o.packets) : o.packets[i] \in PacketType
    BY DEF Fields
  <2> QED  BY <2>1 DEF PacketType
<1> HIDE DEF d
<1>3. Led(o, c) => Led(o, d)
  BY <1>1, <1>2 DEF Led
<1> QED  BY <1>3 DEF Startable, d

LEMMA EncodeSync ==
  AudioShort /\ IInv /\ Sync /\ (\E t \in Type, key \in BOOLEAN : Encode(t, key)) => Sync'
<1>1. SUFFICES ASSUME AudioShort, IInv, Sync, NEW t \in Type, NEW key \in BOOLEAN, Encode(t, key), ~seen.behind'
               PROVE  /\ Keyed(sent') /\ Near(output') /\ Startable(output', clock')
                      /\ ~stopped' => Begun(output', sent')
  BY DEF Sync
<1>2. /\ Types /\ Queues /\ Sent /\ Buffer(output, clock, Connected)
      /\ clock \in [Type -> Nat] /\ clock' = Ticked(clock, t) /\ stopped' = stopped
  BY <1>1 DEF IInv, Types, TypeOK, Queues, Encode, Ticked
<1>3. CASE Passes(t, key)
  <2>1. t \in Connected /\ interleave_packets(Packet(t, key)) /\ seen' = Seen(t, key)
    BY <1>1, <1>3 DEF Encode, Passes
  <2>2. seen \in [audioFrom : Nat \cup {None}, lastKey : Nat \cup {None}, behind : BOOLEAN]
    BY <1>2 DEF Types
  <2>3. ~seen.behind /\ (t = "video" => ~(clock["video"] > clock["audio"]))
    <3>1. CASE t = "video"
      <4>1. seen' = [seen EXCEPT !.lastKey = IF key THEN clock[t] ELSE @,
                                 !.behind = @ \/ clock[t] > clock["audio"]]
        BY <2>1, <3>1 DEF Seen
      <4>2. seen.behind' = (seen.behind \/ clock[t] > clock["audio"])
        BY <2>2, <4>1
      <4> QED  BY <1>1, <3>1, <4>2
    <3>2. CASE t # "video"
      <4>1. seen' = seen \/ seen' = [seen EXCEPT !.audioFrom = clock[t]]
        BY <2>1, <3>2 DEF Seen
      <4>2. seen.behind' = seen.behind
        BY <2>2, <4>1
      <4> QED  BY <1>1, <3>2, <4>2
    <3> QED  BY <3>1, <3>2
  <2>4. t = "video" => clock["video"] <= clock["audio"]
    <3>1. clock["video"] \in Nat /\ clock["audio"] \in Nat
      BY <1>2 DEF Type
    <3> QED  BY <2>3, <3>1
  <2>5. Keyed(sent) /\ Near(output) /\ Startable(output, clock) /\ (~stopped => Begun(output, sent))
    BY <1>1, <2>3 DEF Sync
  <2>6. /\ Keyed(sent') /\ Near(output') /\ Startable(output', Ticked(clock, t))
        /\ ~stopped => Begun(output', sent')
    BY <1>1, <1>2, <2>1, <2>4, <2>5, InterleaveSyncs
  <2> QED  BY <1>2, <2>6
<1>4. CASE ~Passes(t, key)
  <2>1. output' = output /\ sent' = sent /\ seen' = seen
    BY <1>1, <1>4 DEF Encode
  <2>2. Keyed(sent) /\ Near(output) /\ Startable(output, clock) /\ (~stopped => Begun(output, sent))
    BY <1>1, <2>1 DEF Sync
  <2>3. Startable(output, Ticked(clock, t))
    BY <1>2, <2>2, BufferTyped, TickSyncs
  <2> QED  BY <1>2, <2>1, <2>2, <2>3
<1> QED  BY <1>3, <1>4

LEMMA SyncHolds == ASSUME AudioShort PROVE Spec => []Sync
<1>1. Empty.packets = << >> /\ Empty.received = {} /\ ~Started(Empty)
  BY DEF Empty, Started, Type
<1>2. \A c : Near(Empty) /\ Startable(Empty, c) /\ Begun(Empty, << >>) /\ Keyed(<< >>)
  BY <1>1 DEF Near, Startable, Begun, Led, Keyed
<1>3. Init => Sync
  BY <1>2 DEF Init, Sync
<1>4. IInv /\ Sync /\ [Next]_vars => Sync'
  <2>1. HookAudio => Sync'
    BY <1>2 DEF HookAudio, Sync
  <2>2. Sync /\ (HookVideo \/ Stop \/ UnhookVideo \/ UnhookAudio \/ UNCHANGED vars) => Sync'
    <3>1. SUFFICES ASSUME Sync, HookVideo \/ Stop \/ UnhookVideo \/ UnhookAudio \/ UNCHANGED vars
                   PROVE  Sync'
      OBVIOUS
    <3>2. clock' = clock /\ output' = output /\ sent' = sent /\ seen' = seen
      BY <3>1 DEF HookVideo, Stop, UnhookVideo, UnhookAudio, vars
    <3>3. ~stopped' => ~stopped
      BY <3>1 DEF HookVideo, Stop, UnhookVideo, UnhookAudio, vars
    <3> QED  BY <3>1, <3>2, <3>3 DEF Sync
  <2> QED  BY <2>1, <2>2, EncodeSync DEF Next
<1> QED  BY <1>3, <1>4, IInvHolds, PTL DEF Spec

(* The stream starts with a keyframe, and with an audio and a video packet *)
(* made within one packet of each other, for any periods with audio        *)
(* packets no longer than two frames and any lead of one encoder over the  *)
(* other (get_interleaved_start_idx, prune_premature_packets).             *)
THEOREM StartsTogether == ASSUME AudioShort PROVE Spec => []StartsInSync
<1>1. IInv /\ Sync => StartsInSync
  <2>1. SUFFICES ASSUME IInv, Sync, ~seen.behind
                 PROVE  /\ \A i \in DOMAIN sent :
                             sent[i].type = "video" /\ NoneSent("video", i - 1) => sent[i].keyframe
                        /\ Started(output) => WithinAPacket
    BY DEF StartsInSync
  <2>2. Keyed(sent) /\ Near(output) /\ DOMAIN sent = 1..Len(sent)
    BY <2>1 DEF Sync, IInv, Types
  <2>3. Started(output) => WithinAPacket
    BY <2>2 DEF Near, WithinAPacket, Shift
  <2> QED  BY <2>2, <2>3 DEF Keyed, IsFirst, NoneSent
<1> QED  BY <1>1, IInvHolds, SyncHolds, PTL

-----------------------------------------------------------------------------
(* When the stream starts.  Keyframes are further apart than the audio     *)
(* leads, so that not every one discards the audio of the next.            *)
KeysApart ==
  /\ KeyGap > Ahead["audio"] + Period["audio"]
  /\ KeyGap + Period["video"] >= Ahead["audio"] + 2 * Period["audio"]

(* The first packets once p is queued.                                     *)
LEMMA InsertFirsts ==
  ASSUME NEW o, NEW e \in Nat, Queue(o.packets, e), NEW p \in PacketType, p.ts = p.dts + e,
         Reaches(o.packets, p.type, p.dts), NEW w, NEW k, Inserted(o.packets, w.packets, p, k)
  PROVE  /\ \A t : ~Absent(o.packets, t) => First(w, t) = First(o, t)
         /\ Absent(o.packets, p.type) => First(w, p.type) = p
<1> SUFFICES ASSUME NEW t
             PROVE  /\ ~Absent(o.packets, t) => First(w, t) = First(o, t)
                    /\ Absent(o.packets, t) /\ t = p.type => First(w, t) = p
  OBVIOUS
<1> DEFINE j == FirstOf(w, t)
<1>1. /\ o.packets \in Seq(PacketType) /\ w.packets \in Seq(PacketType)
      /\ ~Absent(w.packets, t) <=> ~Absent(o.packets, t) \/ t = p.type
  <2>1. o.packets \in Seq(PacketType) /\ w.packets \in Seq(PacketType)
    BY DEF Queue, Inserted
  <2>2. Absent(w.packets, t) <=> Absent(o.packets, t) /\ t # p.type
    BY <2>1, InsertHas
  <2> QED  BY <2>1, <2>2
<1>2. SUFFICES ASSUME ~Absent(o.packets, t) \/ t = p.type
               PROVE  /\ ~Absent(o.packets, t) => w.packets[j] = First(o, t)
                      /\ Absent(o.packets, t) => w.packets[j] = p
  BY DEF First
<1>3. j \in 1..Len(w.packets) /\ w.packets[j].type = t /\ IsFirst(w.packets, j)
  BY <1>1, <1>2, FirstIs
<1> HIDE DEF j
<1>4. \/ w.packets[j] = p /\ Absent(o.packets, p.type)
      \/ \E i \in 1..Len(o.packets) : IsFirst(o.packets, i) /\ o.packets[i] = w.packets[j]
  BY <1>3, InsertFirst
<1>5. CASE w.packets[j] = p /\ Absent(o.packets, p.type)
  BY <1>3, <1>5
<1>6. CASE \E i \in 1..Len(o.packets) : IsFirst(o.packets, i) /\ o.packets[i] = w.packets[j]
  <2>1. PICK i \in 1..Len(o.packets) : IsFirst(o.packets, i) /\ o.packets[i] = w.packets[j]
    BY <1>6
  <2>2. FirstOf(o, t) = i
    BY <1>1, <1>3, <2>1, FirstUnique
  <2>3. First(o, t) = w.packets[j] /\ ~Absent(o.packets, t)
    BY <1>3, <2>1, <2>2 DEF First, Absent
  <2> QED  BY <2>3
<1> QED  BY <1>4, <1>5, <1>6

LEMMA NextAudioIs ==
  ASSUME NEW c \in [Type -> Nat], NEW T \in SUBSET Type, "audio" \in T, NEW o, Filling(o, c, T)
  PROVE  NextAudio(o, c) \in Nat /\ NextAudio(o, c) <= c["audio"]
<1>1. /\ o.packets \in Seq(PacketType) /\ Queue(o.packets, Epoch) /\ Epoch \in Nat /\ o.offset["audio"] = 0
      /\ c["audio"] \in Nat /\ Period["audio"] \in Nat /\ "audio" \in Type
      /\ Reaches(o.packets, "audio", c["audio"] - o.offset["audio"])
  BY TimeAssumption, PeriodAssumption DEF Filling, Kept, Queue, Type
<1>2. CASE Absent(o.packets, "audio")
  BY <1>1, <1>2 DEF NextAudio
<1>3. CASE ~Absent(o.packets, "audio")
  <2>1. PICK i \in 1..Len(o.packets) : o.packets[i].type = "audio" /\ o.packets[i].dts + Period["audio"] = c["audio"]
    BY <1>1, <1>3 DEF Reaches
  <2> DEFINE F == First(o, o.packets[i].type)
  <2>2. o.packets[i] \in PacketType /\ F \in PacketType /\ F.dts <= o.packets[i].dts
    <3>1. F \in PacketType
      BY <1>1, FirstLeast
    <3>2. F.dts <= o.packets[i].dts
      BY <1>1, FirstLeast
    <3>3. o.packets[i] \in PacketType
      BY <1>1
    <3> QED  BY <3>1, <3>2, <3>3
  <2>3. o.packets[i].dts \in Nat /\ F.dts \in Nat
    BY <2>2 DEF PacketType
  <2>4. NextAudio(o, c) = F.dts
    BY <1>3, <2>1 DEF NextAudio
  <2> HIDE DEF F
  <2>5. F.dts <= c["audio"]
    BY <1>1, <2>1, <2>2, <2>3
  <2> QED  BY <2>3, <2>4, <2>5
<1> QED  BY <1>2, <1>3

(* Before the start one of the types is missing.                           *)
LEMMA OneMissing ==
  ASSUME NEW c, NEW T, NEW o, Buffer(o, c, T), ~Started(o), Startable(o, c)
  PROVE  /\ Absent(o.packets, "audio") \/ Absent(o.packets, "video")
         /\ "video" \in o.received <=> ~Absent(o.packets, "video")
         /\ "audio" \notin o.received => Absent(o.packets, "audio")
<1>1. Filling(o, c, T) /\ \A t \in Type \ o.received : Absent(o.packets, t)
  BY DEF Buffer
<1>2. o.received \subseteq Type /\ o.received # Type
  BY <1>1 DEF Filling, Kept, Fields, Started
<1>3. "video" \in o.received <=> ~Absent(o.packets, "video")
  BY <1>1 DEF Startable, Type
<1> QED  BY <1>1, <1>2, <1>3 DEF Type

(* An encoder makes a packet that is not passed on: only the video's moves.*)
LEMMA TickPaired ==
  ASSUME NEW c \in [Type -> Nat], NEW T \in SUBSET Type, "audio" \in T, NEW o, Buffer(o, c, T),
         NEW f \in Nat \cup {None}, NEW k \in Nat \cup {None}, Paired(o, c, f, k)
  PROVE  Paired(o, Ticked(c, "video"), f, k)
<1> DEFINE d == Ticked(c, "video")
<1>1. d["audio"] = c["audio"] /\ d["video"] = c["video"] + Period["video"]
  BY DEF Ticked, Type
<1>2. NextAudio(o, d) = NextAudio(o, c)
  BY <1>1 DEF NextAudio
<1>3. c["audio"] \in Nat /\ c["video"] \in Nat /\ Period["video"] \in Nat /\ Period["audio"] \in Nat
  BY PeriodAssumption DEF Type
<1>4. ~Started(o) => NextAudio(o, c) \in Nat
  BY NextAudioIs DEF Buffer
<1> HIDE DEF d
<1>5. NextAudio(o, c) \in Nat /\ NextAudio(o, c) + Period["video"] < c["video"] + Period["audio"] =>
        NextAudio(o, d) + Period["video"] < d["video"] + Period["audio"]
  BY <1>1, <1>2, <1>3
<1>6. Paired(o, d, f, k)
  BY <1>1, <1>2, <1>4, <1>5 DEF Paired
<1> QED  BY <1>6 DEF d

(* Packets of video before its first keyframe discard the audio before it. *)
LEMMA DiscardPaired ==
  ASSUME NEW c \in [Type -> Nat], NEW T \in SUBSET Type, "audio" \in T, NEW o, Buffer(o, c, T),
         ~Started(o), Absent(o.packets, "video"),
         NEW f \in Nat \cup {None}, NEW k \in Nat \cup {None}, Paired(o, c, f, k)
  PROVE  Paired(discard_unused_audio_packets(o, Epoch + c["video"]), Ticked(c, "video"), f, k)
<1> DEFINE q == o.packets
           d == Ticked(c, "video")
           w == discard_unused_audio_packets(o, Epoch + c["video"])
           P == Period["audio"]
           R == Period["video"]
           V == c["video"]
<1>1. /\ Filling(o, c, T) /\ q \in Seq(PacketType) /\ Queue(q, Epoch) /\ Len(q) \in Nat /\ o.offset["audio"] = 0
      /\ Reaches(q, "audio", c["audio"] - o.offset["audio"])
  BY DEF Buffer, Filling, Kept, Queue, Type
<1>2. /\ Epoch \in Nat /\ P \in Nat /\ R \in Nat /\ V \in Nat /\ c["audio"] \in Nat
      /\ d["audio"] = c["audio"] /\ d["video"] = V + R
  BY TimeAssumption, PeriodAssumption DEF Type, Ticked
<1>3. PICK n \in 0..Len(q) : /\ w = discard_to_idx(o, n)
                             /\ \A i \in 1..n : ~(q[i].ts >= Epoch + V)
  BY <1>1, UnusedIs
<1>4. Filling(w, c, T) /\ Suffix(q, w.packets, n) /\ \A t : Absent(q, t) => Absent(w.packets, t)
  <2>1. Filling(discard_to_idx(o, n), c, T)
    BY <1>1, DiscardFills
  <2>2. Suffix(q, discard_to_idx(o, n).packets, n)
    BY <1>1, DiscardFills
  <2>3. \A t : Absent(q, t) => Absent(discard_to_idx(o, n).packets, t)
    BY <1>1, DiscardFills
  <2> QED  BY <1>3, <2>1, <2>2, <2>3
<1> HIDE DEF w, d, P, R, V
<1>5. \A i \in 1..Len(q) : q[i].type = "audio" /\ q[i].dts \in Nat /\ q[i].ts = q[i].dts + Epoch
  <2>1. TAKE i \in 1..Len(q)
  <2>2. q[i] \in PacketType /\ q[i].type # "video"
    BY <1>1 DEF Absent
  <2> QED  BY <1>1, <2>2 DEF PacketType, Type, Queue, Stamped
<1>6. \A i \in 1..n : q[i].dts < V
  <2>1. TAKE i \in 1..n
  <2>2. i \in 1..Len(q) /\ ~(q[i].ts >= Epoch + V)
    BY <1>1, <1>3
  <2>3. q[i].dts \in Nat /\ q[i].ts = q[i].dts + Epoch
    BY <1>5, <2>2
  <2> QED  BY <1>2, <2>2, <2>3
<1>7. CASE n = 0
  <2>1. w.packets = q
    BY <1>1, <1>4, <1>7 DEF Suffix
  <2>2. NextAudio(w, d) = NextAudio(o, c) /\ NextAudio(o, c) \in Nat
    BY <1>1, <1>2, <2>1, NextAudioIs DEF NextAudio, First, FirstOf
  <2>3. NextAudio(o, c) + R < V + P => NextAudio(w, d) + R < d["video"] + P
    BY <1>2, <2>2
  <2>4. Paired(w, d, f, k)
    BY <1>2, <2>1, <2>2, <2>3 DEF Paired, P, R, V
  <2> QED  BY <2>4 DEF d, w, V
<1>8. CASE n > 0
  <2>1. n \in 1..Len(q) /\ \A i \in 1..Len(w.packets) : w.packets[i] = q[n + i] /\ n + i \in 1..Len(q)
    BY <1>1, <1>3, <1>4, <1>8 DEF Suffix
  <2>2. NextAudio(w, d) \in Nat /\ NextAudio(w, d) < V + P
    <3>1. CASE Absent(w.packets, "audio")
      <4>1. PICK i \in 1..Len(q) : q[i].dts + P = c["audio"] /\ \A j \in i + 1..Len(q) : q[j].type # "audio"
        BY <1>1, <1>2, <1>5, <2>1 DEF Reaches, Absent, P
      <4>2. ~(i > n)
        <5>1. SUFFICES ASSUME i > n
                       PROVE  FALSE
          OBVIOUS
        <5>2. i - n \in 1..Len(w.packets) /\ n + (i - n) = i
          BY <1>1, <1>4, <2>1, <5>1 DEF Suffix
        <5>3. w.packets[i - n].type = "audio"
          BY <1>5, <2>1, <5>2
        <5> QED  BY <3>1, <5>2, <5>3 DEF Absent
      <4>3. q[i].dts < V /\ q[i].dts \in Nat
        BY <1>5, <1>6, <2>1, <4>2
      <4> QED  BY <1>2, <3>1, <4>1, <4>3 DEF NextAudio
    <3>2. CASE ~Absent(w.packets, "audio")
      <4> DEFINE m == FirstOf(w, "audio")
      <4>1. w.packets \in Seq(PacketType)
        BY <1>4 DEF Suffix
      <4>2. m \in 1..Len(w.packets) /\ IsFirst(w.packets, m) /\ w.packets[m].type = "audio"
        BY <3>2, <4>1, FirstIs
      <4>3. NextAudio(w, d) = w.packets[m].dts
        BY <3>2 DEF NextAudio, First
      <4> HIDE DEF m
      <4>4. n + m \in 1..Len(q) /\ w.packets[m] = q[n + m] /\ n \in 1..(n + m) - 1
        BY <2>1, <4>2
      <4>5. ~IsFirst(q, n + m)
        BY <1>5, <2>1, <4>4 DEF IsFirst
      <4>6. PICK i \in 1..(n + m) - 1 : q[n + m].dts = q[i].dts + P
        BY <1>1, <1>5, <4>4, <4>5 DEF Queue, Whole, P
      <4>7. i \in 1..Len(q) /\ i <= n
        <5>1. i \in 1..Len(q)
          BY <1>1, <4>4
        <5>2. ~(i > n)
          <6>1. SUFFICES ASSUME i > n
                         PROVE  FALSE
            OBVIOUS
          <6>2. i - n \in 1..m - 1 /\ i - n \in 1..Len(w.packets) /\ n + (i - n) = i
            BY <2>1, <4>2, <4>4, <6>1
          <6>3. w.packets[i - n].type = "audio"
            BY <1>5, <2>1, <5>1, <6>2
          <6> QED  BY <4>2, <6>2, <6>3 DEF IsFirst
        <5> QED  BY <2>1, <5>1, <5>2
      <4>8. q[i].dts < V /\ q[i].dts \in Nat
        BY <1>5, <1>6, <2>1, <4>7
      <4> QED  BY <1>2, <4>3, <4>4, <4>6, <4>8, SMTT(30)
    <3> QED  BY <3>1, <3>2
  <2>3. NextAudio(w, d) + R < d["video"] + P
    BY <1>2, <2>2
  <2>4. Absent(w.packets, "video") /\ (Absent(q, "audio") => Absent(w.packets, "audio"))
    BY <1>4
  <2>5. Paired(w, d, f, k)
    BY <1>2, <2>3, <2>4 DEF Paired, P, R
  <2> QED  BY <2>5 DEF d, w, V
<1> QED  BY <1>3, <1>7, <1>8 DEF d, w, V

(* The queue before the start with one packet more.                        *)
LEMMA QueuedFirsts ==
  ASSUME NEW c \in [Type -> Nat], NEW T \in SUBSET Type, NEW o, Buffer(o, c, T), ~Started(o),
         NEW p \in PacketType, p.type \in T, p.dts = c[p.type], p.ts = Epoch + p.dts
  PROVE  LET w == Queued(o, p)
         IN  /\ Filling(w, Ticked(c, p.type), T) /\ w.received = o.received \cup {p.type}
             /\ \A t : Absent(w.packets, t) <=> Absent(o.packets, t) /\ t # p.type
             /\ \A t : ~Absent(o.packets, t) => First(w, t) = First(o, t)
             /\ Absent(o.packets, p.type) => First(w, p.type) = p
             /\ Led(o, c) /\ Absent(o.packets, p.type) => Meets(w)
<1> DEFINE w == Queued(o, p)
<1>1. Filling(o, c, T)
  BY DEF Buffer
<1>2. /\ o.packets \in Seq(PacketType) /\ Queue(o.packets, Epoch) /\ Epoch \in Nat
      /\ Reaches(o.packets, p.type, p.dts) /\ p.ts = p.dts + Epoch
  <2>1. Reaches(o.packets, p.type, c[p.type] - o.offset[p.type]) /\ o.offset[p.type] = 0
    BY <1>1 DEF Filling, Kept, PacketType
  <2>2. p.dts \in Nat /\ Epoch \in Nat
    BY TimeAssumption DEF PacketType
  <2> QED  BY <1>1, <2>1, <2>2 DEF Filling, Kept, Queue
<1>3. Filling(w, Ticked(c, p.type), T)
  BY <1>1, QueuedFills
<1>4. w.received = o.received \cup {p.type}
  <2>1. Incoming(o, p) \in PacketType /\ o \in Fields /\ Sorted(o.packets)
    BY <1>1 DEF Incoming, Filling, Kept, Queue
  <2>2. w.received = IF Started(o) THEN o.received ELSE o.received \cup {p.type}
    BY <2>1, QueuedIs
  <2> QED  BY <2>2
<1>5. PICK k : Inserted(o.packets, w.packets, p, k)
  BY <1>1, QueuedFills
<1> HIDE DEF w
<1>6. \A t : Absent(w.packets, t) <=> Absent(o.packets, t) /\ t # p.type
  BY <1>2, <1>5, InsertHas
<1>7. /\ \A t : ~Absent(o.packets, t) => First(w, t) = First(o, t)
      /\ Absent(o.packets, p.type) => First(w, p.type) = p
  BY <1>2, <1>5, InsertFirsts
<1>8. Led(o, c) /\ Absent(o.packets, p.type) => Meets(w)
  BY <1>1, <1>5, QueuedMeets
<1> QED  BY <1>3, <1>4, <1>6, <1>7, <1>8 DEF w

(* Whether the stream starts once both types were received.                *)
LEMMA TryStartIs ==
  ASSUME NEW c \in [Type -> Nat], NEW T \in SUBSET Type, NEW o, Filling(o, c, T),
         o.received = Type, Both(o) => Meets(o)
  PROVE  LET r == TryStart(o)
         IN  /\ ~Both(o) => r.packets = o.packets
             /\ Both(o) /\ ~Premature(o) => Started(r)
             /\ Both(o) /\ Premature(o) => Absent(r.packets, "video")
<1> DEFINE w == Pruned(o)
           r == TryStart(o)
<1>1. Filling(w, c, T) /\ w.received = Type /\ w.packets \in Seq(PacketType) /\ w \in Fields
  <2>1. Filling(w, c, T) /\ w.received = Type /\ w.packets \in Seq(PacketType)
    BY PrunedFills
  <2> QED  BY <2>1 DEF Filling, Kept
<1>2. o.packets \in Seq(PacketType)
  BY DEF Filling, Kept, Queue
<1>3. ASSUME ~Both(w)
      PROVE  r.packets = w.packets
  <2> HIDE DEF w
  <2>1. r = ForgetMissing(w)
    BY <1>1, <1>3, MissingIs DEF TryStart, w, Both
  <2> QED  BY <1>1, <2>1 DEF ForgetMissing, Fields
<1>4. CASE ~Both(o)
  <2>1. w = o
    BY <1>2, <1>4, MissingIs DEF Pruned, Both
  <2> QED  BY <1>3, <1>4, <2>1
<1>5. CASE Both(o) /\ Premature(o)
  <2>1. w = discard_to_idx(o, MaxIdx(o))
    BY <1>2, <1>5, PrunedIs DEF Both
  <2>2. Absent(w.packets, "video")
    BY <1>5, <2>1, PrematureIs
  <2>3. ~Both(w)
    BY <2>2 DEF Both, Type
  <2> QED  BY <1>3, <1>5, <2>2, <2>3
<1>6. CASE Both(o) /\ ~Premature(o)
  <2>1. w = discard_to_idx(o, get_interleaved_start_idx(o))
    BY <1>2, <1>6, PrunedIs DEF Both
  <2>2. PICK k : /\ Closest(o, k)
                 /\ get_interleaved_start_idx(o) =
                      IF FirstOf(o, "video") < k THEN FirstOf(o, "video") - 1 ELSE k - 1
    BY <1>2, <1>6, StartIs DEF Both, Type
  <2>3. Both(w)
    BY <1>6, <2>1, <2>2, StartKeeps
  <2> HIDE DEF w
  <2>4. r = initialize_interleaved_packets(w) /\ \A t \in Type : ~Absent(w.packets, t)
    BY <1>1, <2>3, MissingIs DEF TryStart, Both, w
  <2>5. Started(r)
    BY <1>1, <2>4, InitRuns
  <2> QED  BY <1>6, <2>5
<1> QED  BY <1>4, <1>5, <1>6

(* The fields once p is queued and the start was tried, if it has not come.*)
LEMMA ReadyPaired ==
  ASSUME NEW c \in [Type -> Nat], NEW T \in SUBSET Type, NEW o, Buffer(o, c, T), ~Started(o), Led(o, c),
         NEW p \in PacketType, p.type \in T, p.dts = c[p.type], p.ts = Epoch + p.dts,
         ~Started(Ready(o, p))
  PROVE  LET r == Ready(o, p)
             w == Queued(o, p)
         IN  /\ Filling(r, Ticked(c, p.type), T)
             /\ \/ r.packets = w.packets /\ (o.received \cup {p.type} # Type \/ ~Both(w))
                \/ /\ Both(w) /\ Premature(w) /\ Absent(r.packets, "video")
                   /\ o.received \cup {p.type} = Type
<1> DEFINE w == Queued(o, p)
           r == Ready(o, p)
           d == Ticked(c, p.type)
<1>1. /\ Filling(w, d, T) /\ w.received = o.received \cup {p.type}
      /\ Absent(o.packets, p.type) => Meets(w)
  BY QueuedFirsts
<1>2. Buffer(r, d, T)
  <2>1. << >> \in Seq(PacketType)
    OBVIOUS
  <2> QED  BY <2>1, ReadyKeeps
<1>3. Filling(r, d, T) /\ d \in [Type -> Nat]
  BY <1>2, TickTyped DEF Buffer, PacketType
<1> HIDE DEF w, d
<1>4. CASE ~Started(w)
  <2>1. r = w
    BY <1>4 DEF Ready, w
  <2> QED  BY <1>1, <1>3, <1>4, <2>1 DEF Started, w, d
<1>5. CASE Started(w)
  <2>1. r = TryStart(w) /\ w.received = Type
    BY <1>5 DEF Ready, Started, w
  <2>2. Meets(w)
    <3>1. o.received # Type /\ o.received \subseteq Type /\ p.type \in Type
      BY DEF Buffer, Started, Filling, Kept, Fields, PacketType
    <3>2. p.type \notin o.received
      BY <1>1, <2>1, <3>1
    <3>3. Absent(o.packets, p.type)
      BY <3>1, <3>2 DEF Buffer
    <3> QED  BY <1>1, <3>3
  <2> DEFINE x == TryStart(w)
  <2>3. /\ ~Both(w) => x.packets = w.packets
        /\ Both(w) /\ ~Premature(w) => Started(x)
        /\ Both(w) /\ Premature(w) => Absent(x.packets, "video")
    BY <1>1, <1>3, <2>1, <2>2, TryStartIs
  <2> HIDE DEF x
  <2>4. r = x /\ ~Started(x)
    BY <2>1 DEF x
  <2> HIDE DEF r
  <2> QED  BY <1>1, <1>3, <2>1, <2>3, <2>4 DEF r, w, d
<1> QED  BY <1>4, <1>5

(* The arithmetic of AudioPaired and VideoPaired: a and v are the dts of   *)
(* the packets to come, n the first audio that is or will be queued, f the *)
(* first passed and k the last keyframe, p and q the periods of audio and  *)
(* video, l the lead of audio and g the gap of keyframes.                  *)
LEMMA KeyframeWaits ==
  ASSUME NEW a \in Nat, NEW v \in Nat, NEW f \in Nat, NEW k \in Nat \cup {None},
         NEW p \in Nat, NEW q \in Nat, NEW l \in Nat, NEW g \in Nat,
         p <= 2 * q, g > l + p, g + q >= l + 2 * p, f < a, k # None => v >= k + g,
         a = f \/ a + q < v + p \/ (k # None /\ a <= k + l + 2 * p)
  PROVE  a <= v + q /\ a <= v + p
BY DEF None

LEMMA KeyframeDropped ==
  ASSUME NEW n \in Nat, NEW v \in Nat, NEW f \in Nat, NEW k \in Nat \cup {None},
         NEW p \in Nat, NEW q \in Nat, NEW l \in Nat, NEW g \in Nat,
         p <= 2 * q, g > l + p, g + q >= l + 2 * p, n - v > q, k # None => v >= k + g,
         n = f \/ n + q < v + p \/ (k # None /\ n <= k + l + 2 * p)
  PROVE  n = f /\ v < f
BY DEF None

LEMMA AudioPaired ==
  ASSUME NEW c \in [Type -> Nat], NEW T \in SUBSET Type, NEW o, Buffer(o, c, T), ~Started(o), Startable(o, c),
         NEW p \in PacketType, p.type = "audio", "audio" \in T, p.dts = c["audio"], p.ts = Epoch + p.dts,
         NEW f \in Nat \cup {None}, NEW k \in Nat \cup {None}, Paired(o, c, f, k),
         c["audio"] <= c["video"] + Ahead["audio"] + Period["audio"]
  PROVE  Paired(Ready(o, p), Ticked(c, "audio"), IF f = None THEN c["audio"] ELSE f, k)
<1> DEFINE w == Queued(o, p)
           r == Ready(o, p)
           d == Ticked(c, "audio")
           g == IF f = None THEN c["audio"] ELSE f
<1>1. SUFFICES ASSUME ~Started(r)
               PROVE  Paired(r, d, g, k)
  BY DEF Paired
<1>2. /\ c["audio"] \in Nat /\ c["video"] \in Nat /\ Period["audio"] \in Nat \ {0} /\ Period["video"] \in Nat
      /\ Ahead["audio"] \in Nat /\ d["audio"] = c["audio"] + Period["audio"] /\ d["video"] = c["video"]
      /\ d \in [Type -> Nat] /\ Epoch \in Nat
  BY PeriodAssumption, TimeAssumption, TickTyped DEF Type, Ticked
<1>3. g \in Nat /\ g # None /\ g <= c["audio"] /\ g < d["audio"]
  BY <1>2 DEF None, Paired
<1>4. /\ \A t : Absent(w.packets, t) <=> Absent(o.packets, t) /\ t # "audio"
      /\ \A t : ~Absent(o.packets, t) => First(w, t) = First(o, t)
      /\ Absent(o.packets, "audio") => First(w, "audio") = p
  <2>1. /\ \A t : Absent(w.packets, t) <=> Absent(o.packets, t) /\ t # p.type
        /\ \A t : ~Absent(o.packets, t) => First(w, t) = First(o, t)
        /\ Absent(o.packets, p.type) => First(w, p.type) = p
    BY QueuedFirsts
  <2> QED  BY <2>1
<1>5. /\ Filling(r, d, T)
      /\ \/ r.packets = w.packets /\ (o.received \cup {"audio"} # Type \/ ~Both(w))
         \/ /\ Both(w) /\ Premature(w) /\ Absent(r.packets, "video")
            /\ o.received \cup {"audio"} = Type
  <2>1. /\ Filling(r, Ticked(c, p.type), T)
        /\ \/ r.packets = w.packets /\ (o.received \cup {p.type} # Type \/ ~Both(w))
           \/ /\ Both(w) /\ Premature(w) /\ Absent(r.packets, "video")
              /\ o.received \cup {p.type} = Type
    <3>1. Led(o, c) /\ p.type \in T /\ p.dts = c[p.type]
      BY DEF Startable
    <3> QED  BY <1>1, <3>1, ReadyPaired
  <2> QED  BY <2>1
<1>6. /\ Absent(o.packets, "audio") \/ Absent(o.packets, "video")
      /\ "video" \in o.received <=> ~Absent(o.packets, "video")
  BY OneMissing
<1> HIDE DEF w, r, d, g
<1>7. CASE r.packets = w.packets
  <2>1. Absent(o.packets, "video")
    <3>1. Both(w) \/ Absent(w.packets, "video")
      BY <1>4 DEF Both, Type
    <3>2. "video" \in o.received => o.received \cup {"audio"} = Type
      BY DEF Buffer, Filling, Kept, Fields, Type
    <3> QED  BY <1>4, <1>5, <1>6, <1>7, <3>1, <3>2 DEF Both, Type
  <2>2. Absent(r.packets, "video") /\ ~Absent(r.packets, "audio")
    BY <1>4, <1>7, <2>1
  <2>3. NextAudio(r, d) = NextAudio(o, c)
    <3>1. NextAudio(r, d) = First(w, "audio").dts
      <4>1. First(r, "audio") = First(w, "audio")
        BY <1>7 DEF First, FirstOf
      <4> QED  BY <2>2, <4>1 DEF NextAudio
    <3> QED  BY <1>4, <3>1 DEF NextAudio
  <2>4. CASE f = None
    <3>1. Absent(o.packets, "audio") /\ k = None /\ g = c["audio"]
      BY <2>1, <2>4 DEF Paired, g
    <3>2. NextAudio(r, d) = g
      BY <2>3, <3>1 DEF NextAudio
    <3> QED  BY <1>3, <2>2, <3>1, <3>2 DEF Paired, None
  <2>5. CASE f # None
    <3>1. g = f
      BY <2>5 DEF g
    <3> QED  BY <1>2, <1>3, <2>1, <2>2, <2>3, <2>5, <3>1 DEF Paired
  <2> QED  BY <2>4, <2>5
<1>8. CASE Both(w) /\ Premature(w) /\ Absent(r.packets, "video")
  <2>1. ~Absent(o.packets, "video") /\ Absent(o.packets, "audio")
    BY <1>4, <1>6, <1>8 DEF Both, Type
  <2>2. /\ k \in Nat /\ First(o, "video").dts = k /\ c["audio"] <= k + Ahead["audio"] + Period["audio"]
        /\ f # None => c["audio"] <= k + Period["video"]
    BY <2>1 DEF Paired
  <2>3. First(o, "video").ts = k + Epoch
    <3>1. Queue(o.packets, Epoch) /\ o.packets \in Seq(PacketType)
      BY DEF Buffer, Filling, Kept, Queue
    <3>2. FirstOf(o, "video") \in 1..Len(o.packets)
      BY <2>1, <3>1, FirstIs
    <3> QED  BY <2>2, <3>1, <3>2 DEF Queue, Stamped, First
  <2>4. c["audio"] > k + Period["video"]
    <3>1. (Epoch + c["audio"]) - (k + Epoch) > Period["video"]
      BY <1>4, <1>8, <2>1, <2>3 DEF Premature
    <3> QED  BY <1>2, <2>2, <3>1
  <2>5. f = None /\ g = c["audio"]
    <3>1. f = None
      BY <1>2, <2>2, <2>4
    <3> QED  BY <3>1 DEF g
  <2>6. k < g
    BY <1>2, <2>2, <2>4, <2>5
  <2>7. NextAudio(r, d) \in Nat /\ NextAudio(r, d) <= k + Ahead["audio"] + 2 * Period["audio"]
    <3>1. NextAudio(r, d) \in Nat /\ NextAudio(r, d) <= d["audio"]
      BY <1>2, <1>5, NextAudioIs
    <3> QED  BY <1>2, <2>2, <3>1
  <2> QED  BY <1>3, <1>8, <2>2, <2>6, <2>7 DEF Paired, None
<1> QED  BY <1>5, <1>7, <1>8 DEF r, d, g

LEMMA VideoPaired ==
  ASSUME AudioShort, KeysApart,
         NEW c \in [Type -> Nat], NEW T \in SUBSET Type, "audio" \in T,
         NEW o, Buffer(o, c, T), ~Started(o), Startable(o, c),
         NEW p \in PacketType, p.type = "video", "video" \in T, p.dts = c["video"], p.ts = Epoch + p.dts,
         NEW f \in Nat \cup {None}, NEW k \in Nat \cup {None}, Paired(o, c, f, k),
         c["video"] <= c["audio"], c["audio"] <= c["video"] + Ahead["audio"] + Period["audio"],
         NEW key \in BOOLEAN, key /\ k # None => c["video"] >= k + KeyGap, "video" \notin o.received => key
  PROVE  Paired(Ready(o, p), Ticked(c, "video"), f, IF key THEN c["video"] ELSE k)
<1> DEFINE w == Queued(o, p)
           r == Ready(o, p)
           d == Ticked(c, "video")
           h == IF key THEN c["video"] ELSE k
           P == Period["audio"]
           R == Period["video"]
           L == Ahead["audio"]
           A == c["audio"]
           V == c["video"]
<1>1. SUFFICES ASSUME ~Started(r)
               PROVE  Paired(r, d, f, h)
  BY DEF Paired
<1>2. /\ A \in Nat /\ V \in Nat /\ P \in Nat \ {0} /\ R \in Nat /\ L \in Nat /\ KeyGap \in Nat
      /\ d["audio"] = A /\ d["video"] = V + R /\ d \in [Type -> Nat] /\ Epoch \in Nat
      /\ V <= A /\ A <= V + L + P /\ P <= 2 * R /\ KeyGap > L + P /\ KeyGap + R >= L + 2 * P
      /\ key /\ k # None => V >= k + KeyGap
  BY PeriodAssumption, TimeAssumption, TickTyped DEF Type, Ticked, AudioShort, KeysApart
<1>4. /\ \A t : Absent(w.packets, t) <=> Absent(o.packets, t) /\ t # "video"
      /\ \A t : ~Absent(o.packets, t) => First(w, t) = First(o, t)
      /\ Absent(o.packets, "video") => First(w, "video") = p
  <2>1. /\ \A t : Absent(w.packets, t) <=> Absent(o.packets, t) /\ t # p.type
        /\ \A t : ~Absent(o.packets, t) => First(w, t) = First(o, t)
        /\ Absent(o.packets, p.type) => First(w, p.type) = p
    BY QueuedFirsts
  <2> QED  BY <2>1
<1>5. /\ Filling(r, d, T)
      /\ \/ r.packets = w.packets /\ (o.received \cup {"video"} # Type \/ ~Both(w))
         \/ /\ Both(w) /\ Premature(w) /\ Absent(r.packets, "video")
            /\ o.received \cup {"video"} = Type
  <2>1. /\ Filling(r, Ticked(c, p.type), T)
        /\ \/ r.packets = w.packets /\ (o.received \cup {p.type} # Type \/ ~Both(w))
           \/ /\ Both(w) /\ Premature(w) /\ Absent(r.packets, "video")
              /\ o.received \cup {p.type} = Type
    <3>1. Led(o, c) /\ p.type \in T /\ p.dts = c[p.type]
      BY DEF Startable
    <3> QED  BY <1>1, <3>1, ReadyPaired
  <2> QED  BY <2>1
<1>6. /\ Absent(o.packets, "audio") \/ Absent(o.packets, "video")
      /\ "video" \in o.received <=> ~Absent(o.packets, "video")
      /\ "audio" \notin o.received => Absent(o.packets, "audio")
  BY OneMissing
<1>7. NextAudio(o, c) \in Nat /\ NextAudio(o, c) <= A
  BY NextAudioIs DEF Buffer
<1>8. /\ f = None => Absent(o.packets, "audio")
      /\ f # None => /\ f < A
                     /\ \/ NextAudio(o, c) = f
                        \/ NextAudio(o, c) + R < V + P
                        \/ k # None /\ NextAudio(o, c) <= k + L + 2 * P
      /\ ~Absent(o.packets, "video") =>
           /\ k # None /\ First(o, "video").dts = k /\ A <= k + L + P
           /\ f # None => A <= k + R /\ A <= k + P
  BY DEF Paired
<1> HIDE DEF w, r, d, h, P, R, L, A, V
<1>9. CASE ~Absent(o.packets, "video")
  <2>1. k \in Nat /\ Absent(o.packets, "audio")
    BY <1>6, <1>8, <1>9 DEF None
  <2>2. ~key /\ h = k
    <3>1. ~key
      BY <1>2, <1>8, <1>9, <2>1
    <3> QED  BY <3>1 DEF h
  <2>3. ~Both(w)
    BY <1>4, <2>1 DEF Both, Type
  <2>4. r.packets = w.packets
    BY <1>5, <2>3
  <2>5. Absent(r.packets, "audio") /\ ~Absent(r.packets, "video") /\ First(r, "video").dts = k
    <3>1. First(r, "video") = First(w, "video")
      BY <2>4 DEF First, FirstOf
    <3>2. First(w, "video").dts = k
      BY <1>4, <1>8, <1>9
    <3> QED  BY <1>4, <1>9, <2>1, <2>4, <3>1, <3>2
  <2>6. NextAudio(r, d) = A /\ NextAudio(o, c) = A
    BY <1>2, <2>1, <2>5 DEF NextAudio, A
  <2>7. NextAudio(r, d) + R < V + P => NextAudio(r, d) + R < d["video"] + P
    BY <1>2, <2>6
  <2> QED  BY <1>2, <1>8, <1>9, <2>2, <2>5, <2>6, <2>7 DEF Paired, P, R, L
<1>10. CASE Absent(o.packets, "video") /\ r.packets = w.packets
  <2>1. key /\ h = V /\ V # None
    <3>1. key
      BY <1>6, <1>10
    <3> QED  BY <1>2, <3>1 DEF h, V, None
  <2>2. Absent(o.packets, "audio")
    <3>1. "audio" \in o.received => o.received \cup {"video"} = Type
      BY DEF Buffer, Filling, Kept, Fields, Type
    <3> QED  BY <1>4, <1>5, <1>6, <1>10, <3>1 DEF Both, Type
  <2>3. Absent(r.packets, "audio") /\ ~Absent(r.packets, "video") /\ First(r, "video").dts = V
    <3>1. First(r, "video") = First(w, "video")
      BY <1>10 DEF First, FirstOf
    <3>2. First(w, "video").dts = V
      BY <1>4, <1>10 DEF V
    <3> QED  BY <1>4, <1>10, <2>2, <3>1, <3>2
  <2>4. NextAudio(r, d) = A /\ NextAudio(o, c) = A
    BY <1>2, <2>2, <2>3 DEF NextAudio, A
  <2>5. f # None => A <= V + R /\ A <= V + P
    <3>1. SUFFICES ASSUME f # None
                   PROVE  A <= V + R /\ A <= V + P
      OBVIOUS
    <3>2. /\ f \in Nat /\ f < A /\ (k # None => V >= k + KeyGap)
          /\ A = f \/ A + R < V + P \/ (k # None /\ A <= k + L + 2 * P)
      BY <1>2, <1>8, <2>1, <2>4, <3>1
    <3> QED  BY <1>2, <3>2, KeyframeWaits
  <2>6. A <= V + L + 2 * P
    BY <1>2
  <2> QED  BY <1>2, <1>8, <2>1, <2>3, <2>4, <2>5, <2>6 DEF Paired, P, R, L
<1>11. CASE Both(w) /\ Premature(w) /\ Absent(r.packets, "video") /\ Absent(o.packets, "video")
  <2>1. key /\ h = V /\ V # None
    <3>1. key
      BY <1>6, <1>11
    <3> QED  BY <1>2, <3>1 DEF h, V, None
  <2>2. ~Absent(o.packets, "audio") /\ f # None
    BY <1>4, <1>8, <1>11 DEF Both, Type
  <2>3. First(o, "audio").ts = NextAudio(o, c) + Epoch
    <3>1. Queue(o.packets, Epoch) /\ o.packets \in Seq(PacketType)
      BY DEF Buffer, Filling, Kept, Queue
    <3>2. FirstOf(o, "audio") \in 1..Len(o.packets)
      BY <2>2, <3>1, FirstIs
    <3> QED  BY <2>2, <3>1, <3>2 DEF Queue, Stamped, First, NextAudio
  <2>4. NextAudio(o, c) - V > R
    <3>1. (NextAudio(o, c) + Epoch) - (Epoch + V) > R
      BY <1>4, <1>11, <2>2, <2>3 DEF Premature, V, R
    <3> QED  BY <1>2, <1>7, <3>1
  <2>5. V < f
    <3> DEFINE N == NextAudio(o, c)
    <3>1. /\ f \in Nat /\ N \in Nat /\ (k # None => V >= k + KeyGap) /\ N - V > R
          /\ N = f \/ N + R < V + P \/ (k # None /\ N <= k + L + 2 * P)
      BY <1>2, <1>7, <1>8, <2>1, <2>2, <2>4
    <3> HIDE DEF N
    <3> QED  BY <1>2, <3>1, KeyframeDropped
  <2>6. NextAudio(r, d) \in Nat /\ NextAudio(r, d) <= A
    BY <1>2, <1>5, NextAudioIs
  <2>7. NextAudio(r, d) <= V + L + 2 * P
    BY <1>2, <2>6
  <2> QED  BY <1>2, <1>8, <1>11, <2>1, <2>2, <2>5, <2>7 DEF Paired, P, R, L
<1> QED  BY <1>5, <1>9, <1>10, <1>11 DEF r, d, h, V

LEMMA InterleavePaired ==
  ASSUME AudioShort, KeysApart, Types, Buffer(output, clock, Connected), "audio" \in Connected,
         Startable(output, clock), NEW t \in Connected, NEW key \in BOOLEAN,
         interleave_packets(Packet(t, key)), key => t = "video",
         NEW f \in Nat \cup {None}, NEW k \in Nat \cup {None}, Paired(output, clock, f, k),
         clock["audio"] <= clock["video"] + Ahead["audio"] + Period["audio"],
         t = "video" => clock["video"] <= clock["audio"], key /\ k # None => clock["video"] >= k + KeyGap
  PROVE  Paired(output', Ticked(clock, t), IF t = "audio" /\ f = None THEN clock["audio"] ELSE f,
                IF key THEN clock["video"] ELSE k)
<1> DEFINE p == Packet(t, key)
           d == Ticked(clock, t)
           r == Ready(output, p)
           T == Connected
           g == IF t = "audio" /\ f = None THEN clock["audio"] ELSE f
           h == IF key THEN clock["video"] ELSE k
<1>1. T \in SUBSET Type /\ clock \in [Type -> Nat] /\ t \in Type /\ "audio" \in T /\ t \in T
  BY DEF Types, TypeOK, Connected, Type
<1>2. p \in PacketType /\ p.type = t /\ p.keyframe = key /\ p.dts = clock[t] /\ p.ts = Epoch + p.dts
  BY <1>1, PacketIs
<1> HIDE DEF p, T
<1>3. CASE t = "video" /\ "video" \notin output.received /\ ~key
  <2>1. output' = discard_unused_audio_packets(output, p.ts) /\ p.ts = Epoch + clock["video"]
    BY <1>2, <1>3 DEF interleave_packets, p
  <2>2. ~Started(output) /\ Absent(output.packets, "video")
    BY <1>3 DEF Buffer, Started, Type, T
  <2>3. Paired(output', Ticked(clock, "video"), f, k)
    BY <1>1, <2>1, <2>2, DiscardPaired DEF T
  <2> QED  BY <1>3, <2>3
<1>4. CASE ~(t = "video" /\ "video" \notin output.received /\ ~key)
  <2>1. IF ~Started(r) \/ ~Sends(r) THEN output' = r ELSE output' = [r EXCEPT !.packets = Tail(@)]
    <3>1. ~(p.type = "video" /\ "video" \notin output.received /\ ~p.keyframe)
      BY <1>2, <1>4
    <3> QED  BY <3>1 DEF interleave_packets, Ready, p
  <2>2. Buffer(output, clock, T) /\ p.type \in T /\ p.dts = clock[p.type] /\ << >> \in Seq(PacketType)
    BY <1>1, <1>2 DEF T
  <2>3. CASE Started(r)
    <3>1. r \in Fields
      <4>1. CASE Started(output)
        <5>1. r = Queued(output, p) /\ Running(output, clock, T)
          BY <2>2, <4>1 DEF Ready, Buffer
        <5>2. Running(Queued(output, p), Ticked(clock, p.type), T)
          BY <1>1, <1>2, <2>2, <4>1, <5>1, QueuedRuns
        <5> QED  BY <5>1, <5>2 DEF Running, Kept
      <4>2. CASE ~Started(output)
        <5>1. Buffer(r, Ticked(clock, p.type), T)
          BY <1>1, <1>2, <2>2, <4>2, ReadyKeeps
        <5> QED  BY <5>1, BufferTyped
      <4> QED  BY <4>1, <4>2
    <3> HIDE DEF r
    <3>2. Started(output')
      BY <2>1, <2>3, <3>1 DEF Started, Fields
    <3> QED  BY <3>2 DEF Paired
  <2>4. CASE ~Started(r)
    <3>1. output' = r
      BY <2>1, <2>4
    <3>2. ~Started(output)
      <4>1. SUFFICES ASSUME Started(output)
                     PROVE  FALSE
        OBVIOUS
      <4>2. r = Queued(output, p) /\ Running(output, clock, T)
        BY <2>2, <4>1 DEF Ready, Buffer
      <4>3. Started(Queued(output, p))
        BY <1>1, <1>2, <2>2, <4>1, <4>2, QueuedRuns
      <4> QED  BY <2>4, <4>2, <4>3
    <3>3. CASE t = "audio"
      <4>1. Paired(r, Ticked(clock, "audio"), IF f = None THEN clock["audio"] ELSE f, k)
        BY <1>1, <1>2, <2>2, <3>2, <3>3, AudioPaired
      <4>2. ~key
        BY <3>3
      <4> HIDE DEF r
      <4> QED  BY <3>1, <3>3, <4>1, <4>2
    <3>4. CASE t = "video"
      <4>1. /\ clock["video"] <= clock["audio"]
            /\ "video" \notin output.received => key
        BY <1>4, <3>4
      <4>2. Paired(r, Ticked(clock, "video"), f, IF key THEN clock["video"] ELSE k)
        BY <1>1, <1>2, <2>2, <3>2, <3>4, <4>1, VideoPaired
      <4> HIDE DEF r
      <4> QED  BY <3>1, <3>4, <4>2
    <3> QED  BY <1>1, <3>3, <3>4 DEF Type
  <2> QED  BY <2>3, <2>4
<1> QED  BY <1>3, <1>4

LEMMA EncodeKeys ==
  AudioShort /\ KeysApart /\ IInv /\ Sync /\ Keys /\ (\E t \in Type, key \in BOOLEAN : Encode(t, key)) => Keys'
<1>1. SUFFICES ASSUME AudioShort, KeysApart, IInv, Sync, Keys, NEW t \in Type, NEW key \in BOOLEAN, Encode(t, key)
               PROVE  Keys'
  OBVIOUS
<1>2. /\ Types /\ Buffer(output, clock, Connected) /\ clock \in [Type -> Nat] /\ lastKey \in Int
      /\ seen \in [audioFrom : Nat \cup {None}, lastKey : Nat \cup {None}, behind : BOOLEAN]
      /\ hooked \in {"none", "audio", "both", "ending"}
  BY <1>1 DEF IInv, Types, TypeOK, Queues
<1>3. /\ clock' = Ticked(clock, t) /\ hooked' = hooked
      /\ clock[t] <= clock[Opposing[t]] + Ahead[t]
      /\ key => t = "video" /\ clock[t] >= lastKey + KeyGap
      /\ lastKey' = IF key THEN clock[t] ELSE lastKey
  BY <1>1 DEF Encode, Ticked
<1>4. /\ clock["audio"] \in Nat /\ clock["video"] \in Nat /\ Ahead["audio"] \in Nat /\ KeyGap \in Nat
      /\ Period["audio"] \in Nat \ {0} /\ Period["video"] \in Nat \ {0}
      /\ t = "audio" => clock'["audio"] = clock["audio"] + Period["audio"] /\ clock'["video"] = clock["video"]
      /\ t = "video" => clock'["audio"] = clock["audio"] /\ clock'["video"] = clock["video"] + Period["video"]
      /\ t = "audio" \/ t = "video"
  BY <1>2, <1>3, PeriodAssumption, TimeAssumption DEF Type, Ticked
<1>5. /\ clock["audio"] <= clock["video"] + Ahead["audio"] + Period["audio"]
      /\ lastKey < clock["video"]
      /\ seen.lastKey = None \/ seen.lastKey <= lastKey
  BY <1>1 DEF Keys
<1>6. /\ clock'["audio"] <= clock'["video"] + Ahead["audio"] + Period["audio"]
      /\ lastKey' < clock'["video"]
  <2>1. CASE t = "audio"
    <3>1. clock["audio"] <= clock["video"] + Ahead["audio"] /\ lastKey' = lastKey
      BY <1>3, <2>1 DEF Opposing
    <3> QED  BY <1>4, <1>5, <2>1, <3>1
  <2>2. CASE t = "video"
    <3>1. lastKey' = clock["video"] \/ lastKey' = lastKey
      BY <1>3, <2>2
    <3> QED  BY <1>2, <1>4, <1>5, <2>2, <3>1
  <2> QED  BY <1>4, <2>1, <2>2
<1>7. CASE Passes(t, key)
  <2>1. t \in Connected /\ interleave_packets(Packet(t, key)) /\ seen' = Seen(t, key)
    BY <1>1, <1>7 DEF Encode, Passes
  <2>2. /\ seen'.audioFrom = IF t = "audio" /\ seen.audioFrom = None THEN clock["audio"] ELSE seen.audioFrom
        /\ seen'.lastKey = IF key THEN clock["video"] ELSE seen.lastKey
        /\ ~seen'.behind => ~seen.behind /\ (t = "video" => ~(clock["video"] > clock["audio"]))
    <3>1. CASE t = "audio"
      <4>1. seen' = IF seen.audioFrom = None THEN [seen EXCEPT !.audioFrom = clock["audio"]] ELSE seen
        BY <2>1, <3>1 DEF Seen
      <4> QED  BY <1>2, <1>3, <3>1, <4>1
    <3>2. CASE t = "video"
      <4>1. seen' = [seen EXCEPT !.lastKey = IF key THEN clock[t] ELSE @,
                                 !.behind = @ \/ clock[t] > clock["audio"]]
        BY <2>1, <3>2 DEF Seen
      <4> QED  BY <1>2, <1>3, <3>2, <4>1
    <3> QED  BY <1>4, <3>1, <3>2
  <2>3. seen'.lastKey = None \/ seen'.lastKey <= lastKey'
    BY <1>2, <1>3, <1>4, <1>5, <2>2
  <2>4. ASSUME hooked' # "none", ~seen'.behind
        PROVE  Paired(output', clock', seen'.audioFrom, seen'.lastKey)
    <3>1. "audio" \in Connected /\ Paired(output, clock, seen.audioFrom, seen.lastKey) /\ Startable(output, clock)
      BY <1>1, <1>2, <1>3, <2>2, <2>4 DEF Keys, Connected, Type, Sync
    <3>2. /\ t = "video" => clock["video"] <= clock["audio"]
          /\ key /\ seen.lastKey # None => clock["video"] >= seen.lastKey + KeyGap
      BY <1>2, <1>3, <1>4, <1>5, <2>2, <2>4
    <3> DEFINE f == seen.audioFrom
               k == seen.lastKey
    <3>3. f \in Nat \cup {None} /\ k \in Nat \cup {None} /\ (key => t = "video")
      BY <1>2, <1>3
    <3> HIDE DEF f, k
    <3>4. Paired(output', Ticked(clock, t), IF t = "audio" /\ f = None THEN clock["audio"] ELSE f,
                 IF key THEN clock["video"] ELSE k)
      <4>1. Paired(output, clock, f, k) /\ (key /\ k # None => clock["video"] >= k + KeyGap)
        BY <3>1, <3>2 DEF f, k
      <4> QED  BY <1>1, <1>2, <1>5, <2>1, <3>1, <3>2, <3>3, <4>1, InterleavePaired
    <3> QED  BY <1>3, <2>2, <3>4 DEF f, k
  <2> QED  BY <1>6, <2>3, <2>4 DEF Keys
<1>8. CASE ~Passes(t, key)
  <2>1. output' = output /\ seen' = seen
    BY <1>1, <1>8 DEF Encode
  <2>2. seen'.lastKey = None \/ seen'.lastKey <= lastKey'
    <3>1. lastKey' = lastKey \/ (lastKey' = clock["video"] /\ lastKey <= lastKey')
      BY <1>2, <1>3, <1>4, <1>5
    <3> QED  BY <1>2, <1>4, <1>5, <2>1, <3>1
  <2>3. ASSUME hooked' # "none", ~seen'.behind
        PROVE  Paired(output', clock', seen'.audioFrom, seen'.lastKey)
    <3>1. "audio" \in Connected /\ Paired(output, clock, seen.audioFrom, seen.lastKey)
      BY <1>1, <1>2, <1>3, <2>1, <2>3 DEF Keys, Connected, Type
    <3>2. t = "video"
      BY <1>4, <1>8, <3>1 DEF Passes
    <3>3. Connected \in SUBSET Type
      BY <1>2 DEF Connected, Type
    <3>4. Paired(output, Ticked(clock, "video"), seen.audioFrom, seen.lastKey)
      <4> DEFINE f == seen.audioFrom
                 k == seen.lastKey
      <4>1. f \in Nat \cup {None} /\ k \in Nat \cup {None} /\ Paired(output, clock, f, k)
        BY <1>2, <3>1
      <4> HIDE DEF f, k
      <4>2. Paired(output, Ticked(clock, "video"), f, k)
        BY <1>2, <3>1, <3>3, <4>1, TickPaired
      <4> QED  BY <4>2 DEF f, k
    <3> QED  BY <1>3, <2>1, <3>2, <3>4
  <2> QED  BY <1>6, <2>2, <2>3 DEF Keys
<1> QED  BY <1>7, <1>8

LEMMA KeysHolds == ASSUME AudioShort, KeysApart PROVE Spec => []Keys
<1>1. Init => Keys
  <2>1. SUFFICES ASSUME Init
                 PROVE  Keys
    OBVIOUS
  <2>2. /\ clock \in [Type -> Nat] /\ clock["audio"] <= clock["video"] + Ahead["audio"] + Period["audio"]
    BY <2>1, JoinsAssumption DEF Init, Type, Opposing
  <2>3. lastKey < clock["video"]
    <3>1. clock["video"] \in Nat /\ KeyGap \in Nat /\ Ahead["audio"] \in Nat /\ Period["audio"] \in Nat
      BY <2>2, TimeAssumption, PeriodAssumption DEF Type
    <3>2. lastKey = -KeyGap /\ KeyGap > Ahead["audio"] + Period["audio"]
      BY <2>1 DEF Init, KeysApart
    <3> QED  BY <3>1, <3>2
  <2>4. hooked = "none" /\ seen.lastKey = None
    BY <2>1 DEF Init, Unseen
  <2> QED  BY <2>2, <2>3, <2>4 DEF Keys
<1>2. IInv /\ Sync /\ Keys /\ [Next]_vars => Keys'
  <2>1. Keys /\ HookAudio => Keys'
    <3>1. SUFFICES ASSUME Keys, HookAudio
                   PROVE  Keys'
      OBVIOUS
    <3>2. clock' = clock /\ lastKey' = lastKey /\ output' = Empty /\ seen' = Unseen
      BY <3>1 DEF HookAudio
    <3>3. Absent(Empty.packets, "audio") /\ Absent(Empty.packets, "video")
      BY DEF Empty, Absent
    <3>4. Paired(Empty, clock, None, None)
      BY <3>3 DEF Paired
    <3> QED  BY <3>1, <3>2, <3>4 DEF Keys, Unseen
  <2>2. Keys /\ (HookVideo \/ Stop \/ UnhookVideo \/ UnhookAudio \/ UNCHANGED vars) => Keys'
    <3>1. SUFFICES ASSUME Keys, HookVideo \/ Stop \/ UnhookVideo \/ UnhookAudio \/ UNCHANGED vars
                   PROVE  Keys'
      OBVIOUS
    <3>2. /\ clock' = clock /\ lastKey' = lastKey /\ output' = output /\ seen' = seen
          /\ hooked' # "none" => hooked # "none"
      BY <3>1 DEF HookVideo, Stop, UnhookVideo, UnhookAudio, vars
    <3> QED  BY <3>1, <3>2 DEF Keys
  <2> QED  BY <2>1, <2>2, EncodeKeys DEF Next
<1> QED  BY <1>1, <1>2, IInvHolds, SyncHolds, PTL DEF Spec

(* No capture waits for ever: the first keyframe made after the first      *)
(* audio packet starts the stream as soon as the audio is past it, for any *)
(* periods, if keyframes are further apart than the audio leads, so that   *)
(* what one of them discards (discard_unused_audio_packets,                *)
(* prune_premature_packets) is not what the next one needs.                *)
THEOREM StartsOnKeyframe == ASSUME AudioShort, KeysApart PROVE Spec => []StartsByKeyframe
<1>1. IInv /\ Keys => StartsByKeyframe
  <2>1. SUFFICES ASSUME IInv, Keys, hooked = "both", ~seen.behind, seen.audioFrom # None,
                        seen.lastKey >= seen.audioFrom, clock["audio"] > seen.lastKey + Period["audio"],
                        ~Started(output)
                 PROVE  FALSE
    BY DEF StartsByKeyframe
  <2> DEFINE f == seen.audioFrom
             k == seen.lastKey
  <2>2. f \in Nat /\ k \in Nat \cup {None} /\ clock["audio"] \in Nat /\ Period["audio"] \in Nat
    BY <2>1, PeriodAssumption DEF IInv, Types, TypeOK, Type
  <2>3. Paired(output, clock, f, k)
    BY <2>1 DEF Keys
  <2>4. k >= f /\ f # None /\ clock["audio"] > k + Period["audio"]
    BY <2>1
  <2> HIDE DEF f, k
  <2>5. (k < f \/ ~Absent(output.packets, "video")) /\ (~Absent(output.packets, "video") => clock["audio"] <= k + Period["audio"])
    BY <2>1, <2>3, <2>4 DEF Paired
  <2> QED  BY <2>2, <2>4, <2>5 DEF None
<1> QED  BY <1>1, IInvHolds, KeysHolds, PTL
=============================================================================
