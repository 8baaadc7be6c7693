---------------------------- MODULE CaptureProofs ----------------------------
(***************************************************************************)
(* For any cache, frame time and packet size, and however late the threads *)
(* run: the frames that are passed on are intact, a picture keeps its lag, *)
(* and the video and the audio keep their time.                            *)
(***************************************************************************)
EXTENDS MCCapture, SequenceTheorems, TLAPS

Info == [ts : Nat \ {0}, count : Nat \ {0}, tick : Nat]
FrameData == [pic : Nat, tick : Nat, ts : Nat, count : Nat]

GraphicsTypes ==
  /\ time \in 1..MaxTime /\ tick \in Nat /\ cur \in Texture
  /\ pc \in {"render", "download", "lock", "copy", "sleep"}
  /\ rendered \in [Texture -> Nat] /\ scaled \in [Texture -> Nat]
  /\ copied \in [Texture -> Nat \cup {NotCopied}]
  /\ infos \in Seq(Info) /\ picture \in Nat /\ fails \in Nat

OutputTypes ==
  /\ cache \in [Slot -> FrameData] /\ available \in 0..CacheSize /\ sem \in 0..CacheSize
  /\ {first, last} \subseteq Slot /\ {writing, reading} \subseteq Slot \cup {-1}

-----------------------------------------------------------------------------
(* The ring of frames: those from first on that were filled, and the one   *)
(* that is being filled behind them.                                       *)

At(k) == IF first + k < CacheSize THEN first + k ELSE first + k - CacheSize
Used == CacheSize - available
Held == IF writing = -1 THEN Used ELSE Used + 1

Ring ==
  /\ Used = sem + (IF reading = -1 THEN 0 ELSE 1)
  /\ reading # -1 => reading = first
  /\ writing # -1 <=> pc = "copy"
  /\ writing # -1 => available > 0 /\ writing = last
  /\ last = IF Held = 0 THEN first ELSE At(Held - 1)

(* The time of the frames: each begins where the one before it ends, and   *)
(* those that are to come where the last of them does.                     *)
InfoEnd == IF infos = <<>> THEN time ELSE infos[1].ts

Times ==
  /\ \A i \in 1..Len(infos) :
       infos[i].ts + infos[i].count = IF i = Len(infos) THEN time ELSE infos[i + 1].ts
  /\ \A k \in 0..Held - 1 :
       /\ cache[At(k)].ts > 0 /\ cache[At(k)].count > 0
       /\ cache[At(k)].ts + cache[At(k)].count =
            IF k = Held - 1 THEN InfoEnd ELSE cache[At(k + 1)].ts

-----------------------------------------------------------------------------
(* The way of a picture: what the textures hold of which tick.             *)

Since(n) == IF tick > n THEN tick - n ELSE Blank
Latest == IF pc = "download" THEN cur ELSE Prev(cur)
Slept == IF pc = "render" THEN tick ELSE tick - 1

Textures ==
  /\ rendered[Latest] = tick /\ scaled[Latest] = Since(1)
  /\ copied[Latest] = IF tick = 0 THEN NotCopied ELSE Since(2)
  /\ pc = "download" => copied[Prev(cur)] = IF tick = 1 THEN NotCopied ELSE Since(3)
  /\ pc # "render" => tick > 0
  /\ pc \in {"lock", "copy"} => tick > 1 /\ picture = Since(3)

(* The infos are those of the last ticks: one of each surface that was not *)
(* mapped, and until it is taken the one of the tick before.               *)
Infos ==
  /\ tick <= 1 => fails = 0
  /\ Len(infos) = IF pc \in {"copy", "sleep"} THEN fails
                  ELSE IF Slept = 0 THEN 0 ELSE fails + 1
  /\ \A i \in 1..Len(infos) : infos[i].tick = Slept - Len(infos) + i

Lags(f) == f.pic # Blank => f.tick - f.pic \in (2 - fails)..2

Pictures ==
  /\ \A k \in 0..Used - 1 : Lags(cache[At(k)])
  /\ writing # -1 => cache[writing].tick = tick - 1 - fails

IInv == GraphicsTypes /\ OutputTypes /\ Ring /\ Times /\ Textures /\ Infos /\ Pictures

-----------------------------------------------------------------------------
(* The encoders.  Where the next frame and the next block are due.         *)

Coming == IF Held = 0 THEN InfoEnd ELSE cache[first].ts

EncoderTypes ==
  /\ video \in [on : BOOLEAN, first : BOOLEAN, start : Nat, pts : Nat]
  /\ audio \in [on : BOOLEAN, first : BOOLEAN, start : Nat, pts : Nat, firstRaw : Nat,
                buf : Seq(Nat)]
  /\ sentVideo \in [ts : Nat, pts : Nat] /\ sentAudio \in [frames : Seq(Nat), pts : Nat]
  /\ left \in [at : Nat, n : Nat] /\ block \in Nat \ {0}

VideoTime ==
  /\ video.start # 0 => /\ video.on /\ audio.first /\ audio.firstRaw <= video.start
                        /\ video.start + video.pts = Coming * Interval
  /\ video.start = 0 => video.pts = 0 /\ sentVideo.ts = 0 /\ audio.start = 0
  /\ video.first => video.start # 0
  /\ VideoKeepsTime

(* The buffer holds the frames from the time on that is due to be encoded, *)
(* all those from where a block was left out ahead of their time by it,    *)
(* and the stream goes on at end.                                          *)
DueFrom(a) == IF a.start = 0 THEN a.firstRaw ELSE a.start + a.pts
Ahead(l, p) == IF l.at # 0 /\ l.at <= p THEN l.n ELSE 0

InTime(a, l, end) ==
  /\ l.at = 0 => l.n = 0
  /\ l.at # 0 => a.start # 0 /\ l.at <= DueFrom(a) + Len(a.buf)
  /\ \A i \in 1..Len(a.buf) : a.buf[i] = DueFrom(a) + i - 1 + Ahead(l, DueFrom(a) + i - 1)
  /\ end = DueFrom(a) + Len(a.buf) + l.n

AudioTime ==
  /\ audio.first => audio.on
  /\ audio.start # 0 => audio.first /\ audio.start = video.start
  /\ audio.start = 0 => audio.pts = 0 /\ sentAudio.frames = <<>>
  /\ IF audio.first THEN InTime(audio, left, block) ELSE left = [at |-> 0, n |-> 0]
  /\ AudioKeepsTime

AudioType == [on : BOOLEAN, first : BOOLEAN, start : Nat, pts : Nat, firstRaw : Nat,
              buf : Seq(Nat)]

EInv == EncoderTypes /\ VideoTime /\ AudioTime

-----------------------------------------------------------------------------
(* Walking the ring.                                                       *)

LEMMA FollowingIs ==
  ASSUME NEW i \in Slot
  PROVE  Following(i) \in Slot /\ Following(i) = IF i + 1 = CacheSize THEN 0 ELSE i + 1
<1>1. CacheSize \in Nat /\ CacheSize > 0 /\ i \in 0..CacheSize - 1
  BY VideoConstants DEF Slot
<1>2. CASE i + 1 = CacheSize
  <2>1. CacheSize % CacheSize = 0
    BY <1>1
  <2> QED  BY <1>1, <1>2, <2>1 DEF Following, Slot
<1>3. CASE i + 1 # CacheSize
  <2>1. (i + 1) % CacheSize = i + 1
    BY <1>1, <1>3
  <2> QED  BY <1>1, <1>3, <2>1 DEF Following, Slot
<1> QED  BY <1>2, <1>3

LEMMA AtIs ==
  ASSUME first \in Slot
  PROVE  /\ At(0) = first
         /\ \A k \in 0..CacheSize - 1 :
              /\ At(k) \in Slot /\ Following(At(k)) = At(k + 1)
              /\ k > 0 => At(k) # first
         /\ \A j, k \in 0..CacheSize - 1 : At(j) = At(k) => j = k
<1>1. CacheSize \in Nat /\ CacheSize > 0 /\ first \in 0..CacheSize - 1
  BY VideoConstants DEF Slot
<1>2. \A k \in 0..CacheSize - 1 : At(k) \in Slot
  BY <1>1 DEF At, Slot
<1>3. \A k \in 0..CacheSize - 1 : Following(At(k)) = At(k + 1)
  BY <1>1, <1>2, FollowingIs DEF At
<1>4. At(0) = first /\ \A k \in 1..CacheSize - 1 : At(k) # first
  BY <1>1 DEF At
<1>5. \A j, k \in 0..CacheSize - 1 : At(j) = At(k) => j = k
  BY <1>1 DEF At
<1> QED  BY <1>1, <1>2, <1>3, <1>4, <1>5

(* The frame that was first is passed on: the ring begins at the next.     *)
LEMMA AtShifts ==
  ASSUME first \in Slot, first' = Following(first)
  PROVE  first' \in Slot /\ \A k \in 0..CacheSize - 1 : At(k)' = At(k + 1)
<1>1. CacheSize \in Nat /\ CacheSize > 0 /\ first \in 0..CacheSize - 1
  BY VideoConstants DEF Slot
<1>2. first' \in Slot /\ first' = IF first + 1 = CacheSize THEN 0 ELSE first + 1
  BY FollowingIs
<1> QED  BY <1>1, <1>2 DEF At

LEMMA AtStays ==
  ASSUME first' = first
  PROVE  \A k \in 0..CacheSize : At(k)' = At(k)
BY DEF At

-----------------------------------------------------------------------------
LEMMA InitInv == CaptureInit => IInv /\ EInv
<1> SUFFICES ASSUME CaptureInit PROVE IInv /\ EInv
  OBVIOUS
<1> USE DEF CaptureInit, Init, Blank, NotCopied, Texture
<1>1. CacheSize \in Nat /\ CacheSize > 0 /\ MaxTime \in Nat /\ MaxTime > 0
  BY VideoConstants
<1>2. GraphicsTypes
  BY <1>1 DEF GraphicsTypes
<1>3. OutputTypes
  BY <1>1 DEF OutputTypes, Slot, FrameData
<1>4. Used = 0 /\ Held = 0
  BY <1>1 DEF Used, Held
<1>5. Ring
  BY <1>4 DEF Ring
<1>6. Times
  BY <1>4 DEF Times
<1>7. Textures
  BY DEF Textures, Latest, Prev, Since
<1>8. Infos
  BY DEF Infos, Slept
<1>9. Pictures
  BY <1>4 DEF Pictures
<1>10. EncoderTypes
  <2>1. block \in Nat \ {0} /\ <<>> \in Seq(Nat)
    BY CaptureConstants
  <2> QED  BY <2>1 DEF EncoderTypes, InitSync
<1>11. VideoTime
  BY DEF VideoTime, InitSync, VideoKeepsTime
<1>12. AudioTime
  BY DEF AudioTime, InitSync, AudioKeepsTime
<1> QED  BY <1>2, <1>3, <1>5, <1>6, <1>7, <1>8, <1>9, <1>10, <1>11, <1>12 DEF IInv, EInv

LEMMA LagsLonger ==
  ASSUME NEW f \in FrameData, fails \in Nat, fails' \in Nat, fails' >= fails, Lags(f)
  PROVE  f.pic # Blank => f.tick - f.pic \in (2 - fails')..2
BY DEF Lags, FrameData

LEMMA RenderKeeps ==
  ASSUME IInv, Render
  PROVE  IInv' /\ Coming' = Coming
<1> USE DEF IInv, Render, output
<1>1. GraphicsTypes'
  BY DEF GraphicsTypes, Staged, Prev, Texture
<1>2. OutputTypes'
  BY DEF OutputTypes, Slot
<1>3. Used' = Used /\ Held' = Held /\ InfoEnd' = InfoEnd /\ Coming' = Coming
  BY DEF Used, Held, InfoEnd, Coming
<1>4. Ring'
  BY <1>3 DEF Ring, At
<1>5. Times'
  BY <1>3 DEF Times, At
<1>6. Textures'
  BY DEF GraphicsTypes, Textures, Latest, Prev, Since, Staged, Texture, Blank, NotCopied
<1>7. Infos'
  <2>1. Slept' = Slept /\ tick \in Nat /\ tick' = tick + 1 /\ fails' = fails /\ infos' = infos
        /\ pc = "render" /\ pc' = "download"
    BY DEF GraphicsTypes, Slept
  <2> QED  BY <2>1 DEF Infos
<1>8. Pictures'
  BY <1>3 DEF Ring, Pictures, Lags, At
<1> QED  BY <1>1, <1>2, <1>3, <1>4, <1>5, <1>6, <1>7, <1>8

LEMMA DownloadKeeps ==
  ASSUME IInv, Download \/ NotReady
  PROVE  IInv' /\ Coming' = Coming
<1> USE DEF IInv, output
<1>1. /\ pc = "download" /\ pc' \in {"lock", "sleep"} /\ cur' = Prev(cur)
      /\ pc' = "lock" => copied[Prev(cur)] # NotCopied /\ picture' = copied[Prev(cur)]
      /\ pc' = "sleep" => picture' = picture
      /\ fails' = IF pc' = "lock" \/ copied[Prev(cur)] = NotCopied THEN fails ELSE fails + 1
      /\ UNCHANGED <<time, tick, rendered, scaled, copied, infos, writing, output, reading>>
  BY DEF Download, NotReady
<1>2. GraphicsTypes'
  BY <1>1 DEF GraphicsTypes, Prev, Texture
<1>3. OutputTypes'
  BY <1>1 DEF OutputTypes, Slot
<1>4. Used' = Used /\ Held' = Held /\ InfoEnd' = InfoEnd /\ Coming' = Coming
  BY <1>1 DEF Used, Held, InfoEnd, Coming
<1>5. Ring'
  BY <1>1, <1>4 DEF Ring, At
<1>6. Times'
  BY <1>1, <1>4 DEF Times, At
<1>7. Textures'
  BY <1>1 DEF GraphicsTypes, Textures, Latest, Prev, Since, Texture, Blank, NotCopied
<1>8. Infos'
  BY <1>1, SMTT(30) DEF GraphicsTypes, Textures, Infos, Slept, Since, Blank, NotCopied
<1>9. Pictures'
  <2>1. fails \in Nat /\ fails' \in Nat /\ fails' >= fails /\ writing' = -1
    BY <1>1 DEF GraphicsTypes, Ring
  <2>2. \A k \in 0..Used - 1 : cache[At(k)] \in FrameData
    <3>1. \A k \in 0..Used - 1 : At(k) \in Slot
      BY AtIs, VideoConstants DEF OutputTypes, Used
    <3> QED  BY <3>1 DEF OutputTypes
  <2>3. \A k \in 0..Used - 1 : Lags(cache[At(k)])'
    <3> TAKE k \in 0..Used - 1
    <3>1. Lags(cache[At(k)]) /\ cache'[At(k)'] = cache[At(k)]
      BY <1>1, SMTT(30) DEF Pictures, At
    <3> QED  BY <2>1, <2>2, <3>1, LagsLonger DEF Lags
  <2> QED  BY <1>4, <2>1, <2>3 DEF Pictures
<1> QED  BY <1>2, <1>3, <1>4, <1>5, <1>6, <1>7, <1>8, <1>9

-----------------------------------------------------------------------------
(* A frame is taken into the ring, or lengthens the last one.              *)

(* The first of the infos is taken.                                        *)
LEMMA InfosShift ==
  ASSUME GraphicsTypes, Times, infos # <<>>, infos' = Tail(infos), time' = time
  PROVE  /\ Head(infos) = infos[1] /\ infos[1] \in Info /\ InfoEnd = infos[1].ts
         /\ infos' \in Seq(Info) /\ Len(infos') = Len(infos) - 1 /\ Len(infos) \in Nat \ {0}
         /\ \A i \in 1..Len(infos') : infos'[i] = infos[i + 1]
         /\ InfoEnd' = infos[1].ts + infos[1].count
         /\ \A i \in 1..Len(infos') :
              infos'[i].ts + infos'[i].count =
                IF i = Len(infos') THEN time' ELSE infos'[i + 1].ts
<1>1. /\ Head(infos) = infos[1] /\ infos[1] \in Info
      /\ infos' \in Seq(Info) /\ Len(infos') = Len(infos) - 1 /\ Len(infos) \in Nat \ {0}
      /\ \A i \in 1..Len(infos') : infos'[i] = infos[i + 1]
  BY DEF GraphicsTypes
<1>2. \A i \in 1..Len(infos) :
        infos[i].ts + infos[i].count = IF i = Len(infos) THEN time ELSE infos[i + 1].ts
  BY DEF Times
<1>3. infos' = <<>> <=> Len(infos) = 1
  BY <1>1, SMTT(30)
<1>4. InfoEnd' = infos[1].ts + infos[1].count
  <2>1. infos[1].ts + infos[1].count = IF Len(infos) = 1 THEN time ELSE infos[2].ts
    <3>1. 1 \in 1..Len(infos) /\ 1 + 1 = 2
      BY <1>1
    <3> QED  BY <1>2, <3>1
  <2>2. Len(infos) # 1 => infos'[1] = infos[2]
    <3>1. Len(infos) # 1 => 1 \in 1..Len(infos') /\ 1 + 1 = 2
      BY <1>1
    <3> QED  BY <1>1, <3>1
  <2> QED  BY <1>3, <2>1, <2>2 DEF InfoEnd
<1>5. InfoEnd = infos[1].ts
  BY DEF InfoEnd
<1>6. \A i \in 1..Len(infos') :
              infos'[i].ts + infos'[i].count =
                IF i = Len(infos') THEN time' ELSE infos'[i + 1].ts
  <2> TAKE i \in 1..Len(infos')
  <2>1. /\ i + 1 \in 1..Len(infos) /\ infos'[i] = infos[i + 1]
        /\ i = Len(infos') <=> i + 1 = Len(infos)
    BY <1>1
  <2>2. infos[i + 1].ts + infos[i + 1].count =
          IF i + 1 = Len(infos) THEN time ELSE infos[(i + 1) + 1].ts
    BY <1>2, <2>1
  <2>3. i # Len(infos') => infos'[i + 1] = infos[(i + 1) + 1]
    <3>1. i \in Int /\ i >= 1 /\ i <= Len(infos') /\ Len(infos') \in Int
      BY <1>1
    <3>2. i # Len(infos') => i + 1 \in 1..Len(infos')
      BY <3>1
    <3> QED  BY <1>1, <3>1, <3>2
  <2> QED  BY <2>1, <2>2, <2>3
<1> QED  BY <1>1, <1>4, <1>5, <1>6

LEMMA LockKeeps ==
  ASSUME IInv, Lock
  PROVE  IInv' /\ Coming' = Coming
<1> USE DEF textures
<1>1. /\ pc = "lock" /\ infos' = Tail(infos) /\ writing = -1
      /\ UNCHANGED <<time, tick, textures, picture, fails, available, first, sem, reading>>
  BY DEF Lock, IInv, Ring
<1>2. infos # <<>> /\ Len(infos) = fails + 1 /\ Slept = tick - 1 /\ tick > 1 /\ tick \in Nat
      /\ fails \in Nat
  <2>1. Len(infos) = fails + 1 /\ tick > 1 /\ tick \in Nat /\ fails \in Nat /\ Slept = tick - 1
    BY <1>1 DEF IInv, Infos, Textures, Slept, GraphicsTypes
  <2>2. Len(<<>>) = 0
    OBVIOUS
  <2> QED  BY <2>1, <2>2
<1>3. /\ Head(infos) = infos[1] /\ infos[1] \in Info /\ InfoEnd = infos[1].ts
      /\ infos' \in Seq(Info) /\ Len(infos') = Len(infos) - 1 /\ Len(infos) \in Nat \ {0}
      /\ \A i \in 1..Len(infos') : infos'[i] = infos[i + 1]
      /\ InfoEnd' = infos[1].ts + infos[1].count
      /\ \A i \in 1..Len(infos') :
              infos'[i].ts + infos'[i].count =
                IF i = Len(infos') THEN time' ELSE infos'[i + 1].ts
  BY <1>1, <1>2, InfosShift DEF IInv
<1>4. /\ CacheSize \in Nat /\ CacheSize > 0 /\ available \in 0..CacheSize /\ first \in Slot
      /\ Used = CacheSize - available /\ Held = Used /\ cache \in [Slot -> FrameData]
      /\ last \in Slot
  BY <1>1, VideoConstants DEF IInv, OutputTypes, Used, Held
<1>5. \A k \in 0..CacheSize : At(k)' = At(k)
  BY <1>1, AtStays
<1>6. Textures'
  <2>1. pc' \in {"copy", "sleep"}
    BY DEF Lock
  <2> QED  BY <1>1, <2>1 DEF IInv, Textures, Latest, Since
<1>7. Infos'
  <2>1. pc' \in {"copy", "sleep"} /\ Slept' = Slept
    BY <1>1 DEF Lock, Slept
  <2>2. \A i \in 1..Len(infos') : infos'[i].tick = Slept' - Len(infos') + i
    BY <1>2, <1>3, <2>1 DEF IInv, Infos
  <2> QED  BY <1>1, <1>2, <1>3, <2>1, <2>2 DEF IInv, Infos
<1>8. CASE available = 0
  <2>1. /\ cache' = [cache EXCEPT ![last].count = @ + infos[1].count] /\ pc' = "sleep"
        /\ UNCHANGED <<last, writing>>
    BY <1>3, <1>8 DEF Lock, Skipped
  <2>2. Used' = CacheSize /\ Held' = CacheSize /\ Used = CacheSize /\ last = At(CacheSize - 1)
    BY <1>1, <1>4, <1>8, <2>1 DEF Used, Held, IInv, Ring
  <2>3. /\ cache' \in [Slot -> FrameData]
        /\ \A i \in Slot : /\ cache'[i].ts = cache[i].ts /\ cache'[i].pic = cache[i].pic
                           /\ cache'[i].tick = cache[i].tick
                           /\ i # last => cache'[i] = cache[i]
        /\ cache'[last].count = cache[last].count + infos[1].count
    <3> DEFINE f == [cache[last] EXCEPT !.count = @ + infos[1].count]
    <3>1. cache[last] \in FrameData /\ infos[1].count \in Nat
      BY <1>3, <1>4 DEF Info
    <3>2. /\ f \in FrameData /\ f.ts = cache[last].ts /\ f.pic = cache[last].pic
          /\ f.tick = cache[last].tick /\ f.count = cache[last].count + infos[1].count
      BY <3>1 DEF FrameData
    <3>3. cache' = [cache EXCEPT ![last] = f]
      BY <2>1
    <3> HIDE DEF f
    <3> QED  BY <1>4, <3>2, <3>3
  <2>4. \A k \in 0..CacheSize - 1 : At(k) \in Slot /\ (At(k) = last <=> k = CacheSize - 1)
    BY <1>4, <2>2, AtIs
  <2>5. GraphicsTypes'
    BY <1>1, <1>3, <2>1 DEF IInv, GraphicsTypes
  <2>6. OutputTypes'
    BY <1>1, <2>1, <2>3 DEF IInv, OutputTypes
  <2>7. Ring'
    BY <1>1, <1>4, <1>5, <2>1, <2>2 DEF IInv, Ring
  <2>8. Times'
    <3>1. ASSUME NEW k \in 0..CacheSize - 1
          PROVE  /\ cache'[At(k)'].ts > 0 /\ cache'[At(k)'].count > 0
                 /\ cache'[At(k)'].ts + cache'[At(k)'].count =
                      IF k = CacheSize - 1 THEN InfoEnd' ELSE cache'[At(k + 1)'].ts
      <4>1. /\ cache[At(k)].ts > 0 /\ cache[At(k)].count > 0
            /\ cache[At(k)].ts + cache[At(k)].count =
                 IF k = CacheSize - 1 THEN InfoEnd ELSE cache[At(k + 1)].ts
        BY <1>4, <2>2 DEF IInv, Times
      <4>2. At(k)' = At(k) /\ At(k + 1)' = At(k + 1)
        BY <1>4, <1>5
      <4>3. cache[At(k)] \in FrameData /\ At(k) \in Slot
        BY <1>4, <2>4
      <4>4. CASE k = CacheSize - 1
        BY <1>3, <2>2, <2>3, <4>1, <4>2, <4>3, <4>4, SMTT(30) DEF FrameData, Info
      <4>5. CASE k # CacheSize - 1
        <5>1. At(k + 1) \in Slot /\ At(k) # last
          BY <1>4, <2>4, <4>5
        <5> QED  BY <2>3, <4>1, <4>2, <4>3, <4>5, <5>1
      <4> QED  BY <4>4, <4>5
    <3> QED  BY <1>3, <2>2, <3>1 DEF Times
  <2>9. Pictures'
    <3>1. \A k \in 0..CacheSize - 1 : Lags(cache[At(k)])
      BY <2>2 DEF IInv, Pictures
    <3>2. \A k \in 0..CacheSize - 1 : Lags(cache[At(k)])'
      BY <1>1, <1>4, <1>5, <2>3, <2>4, <3>1 DEF Lags
    <3> QED  BY <1>1, <2>1, <2>2, <3>2 DEF Pictures
  <2>10. Coming' = Coming
    BY <1>1, <1>4, <2>2, <2>3, SMTT(30) DEF Coming
  <2> QED  BY <1>6, <1>7, <2>5, <2>6, <2>7, <2>8, <2>9, <2>10 DEF IInv
<1>9. CASE available > 0
  <2>1. /\ last' = Added /\ writing' = last' /\ pc' = "copy"
        /\ cache' = [cache EXCEPT ![last'].ts = infos[1].ts, ![last'].count = infos[1].count,
                                  ![last'].tick = infos[1].tick]
    <3>1. ~(available = 0) /\ Head(infos) = infos[1]
      BY <1>3, <1>4, <1>9
    <3> QED  BY <3>1 DEF Lock
  <2>2. last' = At(Used) /\ Used \in 0..CacheSize - 1
    <3>1. Used \in 0..CacheSize - 1 /\ (available = CacheSize <=> Used = 0)
      BY <1>4, <1>9
    <3>2. last = IF Used = 0 THEN first ELSE At(Used - 1)
      BY <1>4 DEF IInv, Ring
    <3>3. CASE Used = 0
      BY <1>4, <2>1, <3>1, <3>2, <3>3, AtIs DEF Added
    <3>4. CASE Used # 0
      <4>1. Used - 1 \in 0..CacheSize - 1 /\ (Used - 1) + 1 = Used
        BY <1>4, <3>1, <3>4
      <4>2. Following(At(Used - 1)) = At(Used)
        BY <1>4, <4>1, AtIs
      <4> QED  BY <2>1, <3>1, <3>2, <3>4, <4>2 DEF Added
    <3> QED  BY <3>1, <3>3, <3>4
  <2>3. last' \in Slot /\ (\A k \in 0..CacheSize - 1 : At(k) \in Slot /\ (At(k) = last' <=> k = Used))
        /\ At(0) = first
    BY <1>4, <2>2, AtIs
  <2>4. Used' = Used /\ Held' = Used + 1
    <3>1. -1 \notin Slot
      BY <1>4 DEF Slot
    <3> QED  BY <1>1, <1>4, <2>1, <2>3, <3>1 DEF Used, Held
  <2>5. /\ cache' \in [Slot -> FrameData]
        /\ \A i \in Slot : i # last' => cache'[i] = cache[i]
        /\ cache'[last'].ts = infos[1].ts /\ cache'[last'].count = infos[1].count
        /\ cache'[last'].tick = infos[1].tick
    <3> DEFINE f == [cache[last'] EXCEPT !.ts = infos[1].ts, !.count = infos[1].count,
                                         !.tick = infos[1].tick]
    <3>1. cache[last'] \in FrameData /\ infos[1] \in Info
      BY <1>3, <1>4, <2>3
    <3>2. /\ f \in FrameData /\ f.ts = infos[1].ts /\ f.count = infos[1].count
          /\ f.tick = infos[1].tick
      BY <3>1 DEF FrameData, Info
    <3>3. cache' = [cache EXCEPT ![last'] = f]
      BY <1>4, <2>1, <2>3
    <3> HIDE DEF f
    <3> QED  BY <1>4, <2>3, <3>2, <3>3
  <2>6. GraphicsTypes'
    BY <1>1, <1>3, <2>1 DEF IInv, GraphicsTypes
  <2>7. OutputTypes'
    BY <1>1, <2>1, <2>3, <2>5 DEF IInv, OutputTypes
  <2>8. Ring'
    <3>1. -1 \notin Slot /\ Used' + 1 # 0 /\ (Used + 1) - 1 = Used
      BY <1>4, <2>4 DEF Slot
    <3>2. last' = IF Held' = 0 THEN first' ELSE At(Held - 1)'
      BY <1>1, <1>4, <2>2, <2>4, <3>1 DEF At
    <3>3. Used' = sem' + (IF reading' = -1 THEN 0 ELSE 1) /\ (reading' # -1 => reading' = first')
          /\ available' > 0 /\ writing' # -1 /\ writing' = last' /\ pc' = "copy"
      BY <1>1, <1>9, <2>1, <2>3, <2>4, <3>1 DEF IInv, Ring
    <3> QED  BY <3>2, <3>3 DEF Ring
  <2>9. Times'
    <3>1. ASSUME NEW k \in 0..Used
          PROVE  /\ cache'[At(k)'].ts > 0 /\ cache'[At(k)'].count > 0
                 /\ cache'[At(k)'].ts + cache'[At(k)'].count =
                      IF k = Used THEN InfoEnd' ELSE cache'[At(k + 1)'].ts
      <4>1. At(k)' = At(k) /\ At(k + 1)' = At(k + 1) /\ k \in 0..CacheSize - 1
        BY <1>4, <1>5, <2>2
      <4>2. CASE k = Used
        <5>1. At(k) = last'
          BY <2>3, <4>1, <4>2
        <5> QED  BY <1>3, <2>5, <4>1, <4>2, <5>1 DEF Info
      <4>3. CASE k # Used
        <5>1. k \in 0..Held - 1 /\ (k = Held - 1 <=> k + 1 = Used) /\ k + 1 \in 0..CacheSize - 1
          BY <1>4, <2>2, <4>3
        <5>2. /\ cache[At(k)].ts > 0 /\ cache[At(k)].count > 0
              /\ cache[At(k)].ts + cache[At(k)].count =
                   IF k = Held - 1 THEN InfoEnd ELSE cache[At(k + 1)].ts
          BY <5>1 DEF IInv, Times
        <5>3. cache'[At(k)] = cache[At(k)]
          BY <2>3, <2>5, <4>1, <4>3
        <5>4. cache'[At(k + 1)].ts = IF k + 1 = Used THEN InfoEnd ELSE cache[At(k + 1)].ts
          BY <1>3, <2>3, <2>5, <5>1
        <5> QED  BY <4>1, <4>3, <5>1, <5>2, <5>3, <5>4
      <4> QED  BY <4>2, <4>3
    <3>2. Held' - 1 = Used
      BY <1>4, <2>4
    <3> QED  BY <1>3, <3>1, <3>2 DEF Times
  <2>10. Pictures'
    <3>1. \A k \in 0..Used - 1 : Lags(cache[At(k)])
      BY DEF IInv, Pictures
    <3>2. \A k \in 0..Used - 1 : At(k)' = At(k) /\ cache'[At(k)] = cache[At(k)]
      BY <1>4, <1>5, <2>2, <2>3, <2>5
    <3>3. \A k \in 0..Used' - 1 : Lags(cache[At(k)])'
      BY <1>1, <2>4, <3>1, <3>2 DEF Lags
    <3>4. infos[1].tick = tick - 1 - fails
      BY <1>2, <1>3 DEF IInv, Infos
    <3> QED  BY <1>1, <2>1, <2>5, <3>3, <3>4 DEF Pictures
  <2>11. Coming' = Coming
    <3>1. CASE Used = 0
      <4>1. last' = first /\ Held' # 0 /\ Held = 0 /\ first' = first
        BY <1>1, <1>4, <2>2, <2>3, <2>4, <3>1
      <4> QED  BY <1>3, <2>5, <4>1 DEF Coming
    <3>2. CASE Used # 0
      <4>1. 0 \in 0..CacheSize - 1
        BY <1>4
      <4>2. first # last' /\ first \in Slot
        BY <1>4, <2>3, <3>2, <4>1
      <4> QED  BY <1>1, <1>4, <2>4, <2>5, <3>2, <4>2 DEF Coming
    <3> QED  BY <3>1, <3>2
  <2> QED  BY <1>6, <1>7, <2>6, <2>7, <2>8, <2>9, <2>10, <2>11 DEF IInv
<1> QED  BY <1>4, <1>8, <1>9

LEMMA UnlockKeeps ==
  ASSUME IInv, Unlock
  PROVE  IInv' /\ Coming' = Coming
<1> USE DEF textures
<1>1. /\ pc = "copy" /\ pc' = "sleep" /\ writing' = -1
      /\ cache' = [cache EXCEPT ![writing].pic = picture]
      /\ available' = available - 1 /\ sem' = sem + 1
      /\ UNCHANGED <<time, tick, textures, infos, picture, fails, first, last, reading>>
  BY DEF Unlock
<1>2. /\ CacheSize \in Nat /\ CacheSize > 0 /\ available \in 1..CacheSize /\ first \in Slot
      /\ writing = last /\ last \in Slot /\ writing # -1 /\ cache \in [Slot -> FrameData]
      /\ Used \in 0..CacheSize - 1 /\ Held = Used + 1 /\ last = At(Used)
      /\ sem \in Nat /\ picture \in Nat
  <2>1. /\ CacheSize \in Nat /\ CacheSize > 0 /\ available \in 1..CacheSize /\ first \in Slot
        /\ writing = last /\ last \in Slot /\ writing # -1 /\ cache \in [Slot -> FrameData]
        /\ sem \in Nat /\ picture \in Nat
    BY <1>1, VideoConstants DEF IInv, GraphicsTypes, OutputTypes, Ring
  <2>2. Used \in 0..CacheSize - 1 /\ Held = Used + 1
    BY <2>1 DEF Used, Held
  <2>3. (Used + 1) - 1 = Used /\ Used + 1 # 0
    BY <2>2
  <2> QED  BY <2>1, <2>2, <2>3 DEF IInv, Ring
<1>3. Used' = Used + 1 /\ Held' = Used + 1 /\ InfoEnd' = InfoEnd
  BY <1>1, <1>2 DEF Used, Held, InfoEnd
<1>4. /\ cache' \in [Slot -> FrameData]
      /\ \A i \in Slot : /\ cache'[i].ts = cache[i].ts /\ cache'[i].count = cache[i].count
                         /\ i # last => cache'[i] = cache[i]
      /\ cache'[last].pic = picture /\ cache'[last].tick = cache[last].tick
  <2> DEFINE f == [cache[last] EXCEPT !.pic = picture]
  <2>1. cache[last] \in FrameData
    BY <1>2
  <2>2. /\ f \in FrameData /\ f.ts = cache[last].ts /\ f.count = cache[last].count
        /\ f.tick = cache[last].tick /\ f.pic = picture
    BY <1>2, <2>1 DEF FrameData
  <2>3. cache' = [cache EXCEPT ![last] = f]
    BY <1>1, <1>2
  <2> HIDE DEF f
  <2> QED  BY <1>2, <2>2, <2>3
<1>5. /\ \A k \in 0..CacheSize : At(k)' = At(k)
      /\ \A k \in 0..CacheSize - 1 : At(k) \in Slot /\ (At(k) = last <=> k = Used)
  BY <1>1, <1>2, AtStays, AtIs
<1>6. GraphicsTypes'
  BY <1>1 DEF IInv, GraphicsTypes
<1>7. OutputTypes'
  <2>1. sem + 1 \in 0..CacheSize
    BY <1>1, <1>2 DEF IInv, Ring, OutputTypes, Used
  <2> QED  BY <1>1, <1>2, <1>4, <2>1 DEF IInv, OutputTypes
<1>8. Ring'
  <2>1. last' = IF Held' = 0 THEN first' ELSE At(Held - 1)'
    BY <1>1, <1>2, <1>3 DEF At
  <2>2. Used' = sem' + (IF reading' = -1 THEN 0 ELSE 1) /\ (reading' # -1 => reading' = first')
    BY <1>1, <1>2, <1>3 DEF IInv, Ring
  <2> QED  BY <1>1, <2>1, <2>2 DEF Ring
<1>9. Times'
  <2>1. ASSUME NEW k \in 0..Used
        PROVE  /\ cache'[At(k)'].ts > 0 /\ cache'[At(k)'].count > 0
               /\ cache'[At(k)'].ts + cache'[At(k)'].count =
                    IF k = Used THEN InfoEnd' ELSE cache'[At(k + 1)'].ts
    <3>1. /\ cache[At(k)].ts > 0 /\ cache[At(k)].count > 0
          /\ cache[At(k)].ts + cache[At(k)].count =
               IF k = Used THEN InfoEnd ELSE cache[At(k + 1)].ts
      <4>1. k \in 0..Held - 1 /\ Held - 1 = Used
        BY <1>2
      <4> QED  BY <4>1 DEF IInv, Times
    <3>2. At(k) \in Slot /\ At(k)' = At(k) /\ At(k + 1)' = At(k + 1)
      BY <1>2, <1>5
    <3>3. k # Used => At(k + 1) \in Slot
      BY <1>2, <1>5
    <3> QED  BY <1>3, <1>4, <3>1, <3>2, <3>3
  <2>2. Held' - 1 = Used
    BY <1>2, <1>3
  <2>3. \A i \in 1..Len(infos') :
          infos'[i].ts + infos'[i].count = IF i = Len(infos') THEN time' ELSE infos'[i + 1].ts
    BY <1>1 DEF IInv, Times
  <2> QED  BY <2>1, <2>2, <2>3 DEF Times
<1>10. Textures'
  BY <1>1 DEF IInv, Textures, Latest, Since
<1>11. Infos'
  BY <1>1 DEF IInv, Infos, Slept
<1>12. Pictures'
  <2>1. ASSUME NEW k \in 0..Used
        PROVE  Lags(cache[At(k)])'
    <3>1. At(k)' = At(k) /\ At(k) \in Slot
      BY <1>2, <1>5
    <3>2. CASE k = Used
      <4>1. At(k) = last /\ picture = Since(3) /\ cache[last].tick = tick - 1 - fails
            /\ tick \in Nat /\ fails \in Nat
        BY <1>1, <1>2, <1>5, <3>2 DEF IInv, Textures, Pictures, GraphicsTypes
      <4> QED  BY <1>1, <1>4, <3>1, <4>1 DEF Lags, Since, Blank
    <3>3. CASE k # Used
      <4>1. k \in 0..Used - 1 /\ k \in 0..CacheSize - 1
        BY <1>2, <3>3
      <4>2. Lags(cache[At(k)]) /\ cache'[At(k)] = cache[At(k)]
        BY <1>4, <1>5, <3>3, <4>1 DEF IInv, Pictures
      <4> QED  BY <1>1, <3>1, <4>2 DEF Lags
    <3> QED  BY <3>2, <3>3
  <2>2. Used' - 1 = Used
    BY <1>2, <1>3
  <2> QED  BY <1>1, <2>1, <2>2 DEF Pictures
<1>13. Coming' = Coming
  <2>1. Held # 0 /\ Held' # 0
    BY <1>2, <1>3
  <2> QED  BY <1>1, <1>2, <1>4, <2>1 DEF Coming
<1> QED  BY <1>6, <1>7, <1>8, <1>9, <1>10, <1>11, <1>12, <1>13 DEF IInv

LEMMA SleepKeeps ==
  ASSUME IInv, NEW count \in 1..MaxCount, Sleep(count)
  PROVE  IInv' /\ Coming' = Coming
<1> USE DEF textures, output
<1> DEFINE info == [ts |-> time, count |-> count, tick |-> tick]
<1>1. /\ pc = "sleep" /\ pc' = "render" /\ time' = time + count /\ time' <= MaxTime
      /\ infos' = Append(infos, info)
      /\ UNCHANGED <<tick, textures, picture, writing, fails, output, reading>>
  BY DEF Sleep, Lasted
<1>2. /\ time \in Nat \ {0} /\ count \in Nat \ {0} /\ tick \in Nat /\ info \in Info
      /\ infos \in Seq(Info) /\ MaxTime \in Nat /\ tick > 0 /\ fails \in Nat
      /\ Len(infos) = fails
  BY <1>1, VideoConstants, SMTT(30) DEF IInv, GraphicsTypes, Info, Textures, Infos
<1>3. info.ts = time /\ info.count = count /\ info.tick = tick
  OBVIOUS
<1> HIDE DEF info
<1>4. /\ infos' \in Seq(Info) /\ Len(infos') = Len(infos) + 1 /\ Len(infos) \in Nat
      /\ infos'[Len(infos) + 1] = info
      /\ \A i \in 1..Len(infos) : infos'[i] = infos[i]
  BY <1>1, <1>2
<1>5. infos' # <<>> /\ (infos = <<>> <=> Len(infos) = 0)
  <2>1. Len(infos') # 0
    BY <1>4
  <2> QED  BY <1>4, <2>1
<1>6. InfoEnd' = InfoEnd
  <2>1. CASE infos = <<>>
    BY <1>3, <1>4, <1>5, <2>1 DEF InfoEnd
  <2>2. CASE infos # <<>>
    <3>1. 1 \in 1..Len(infos)
      BY <1>4, <1>5, <2>2
    <3> QED  BY <1>4, <1>5, <2>2, <3>1 DEF InfoEnd
  <2> QED  BY <2>1, <2>2
<1>7. Used' = Used /\ Held' = Held /\ Coming' = Coming
  BY <1>1, <1>6 DEF Used, Held, Coming
<1>8. GraphicsTypes'
  BY <1>1, <1>2, <1>4 DEF IInv, GraphicsTypes
<1>9. OutputTypes'
  BY <1>1 DEF IInv, OutputTypes
<1>10. Ring'
  BY <1>1, <1>7 DEF IInv, Ring, At
<1>11. Times'
  <2>1. ASSUME NEW i \in 1..Len(infos')
        PROVE  infos'[i].ts + infos'[i].count =
                 IF i = Len(infos') THEN time' ELSE infos'[i + 1].ts
    <3>1. CASE i = Len(infos')
      BY <1>1, <1>2, <1>3, <1>4, <3>1
    <3>2. CASE i # Len(infos')
      <4>1. i \in 1..Len(infos) /\ (i = Len(infos) \/ i + 1 \in 1..Len(infos))
        BY <1>4, <3>2
      <4>2. infos[i].ts + infos[i].count = IF i = Len(infos) THEN time ELSE infos[i + 1].ts
        BY <4>1 DEF IInv, Times
      <4>3. infos'[i + 1].ts = IF i = Len(infos) THEN time ELSE infos[i + 1].ts
        BY <1>3, <1>4, <4>1
      <4> QED  BY <1>4, <3>2, <4>1, <4>2, <4>3
    <3> QED  BY <3>1, <3>2
  <2>2. ASSUME NEW k \in 0..Held - 1
        PROVE  /\ cache'[At(k)'].ts > 0 /\ cache'[At(k)'].count > 0
               /\ cache'[At(k)'].ts + cache'[At(k)'].count =
                    IF k = Held - 1 THEN InfoEnd' ELSE cache'[At(k + 1)'].ts
    <3>1. At(k)' = At(k) /\ At(k + 1)' = At(k + 1) /\ cache' = cache
      BY <1>1 DEF At
    <3> QED  BY <1>6, <3>1 DEF IInv, Times
  <2> QED  BY <1>7, <2>1, <2>2 DEF Times
<1>12. Textures'
  BY <1>1, <1>2 DEF IInv, Textures, Latest, Since
<1>13. Infos'
  <2>1. Slept' = tick /\ Slept = tick - 1
    BY <1>1 DEF Slept
  <2>2. ASSUME NEW i \in 1..Len(infos')
        PROVE  infos'[i].tick = Slept' - Len(infos') + i
    <3>1. CASE i = Len(infos')
      BY <1>2, <1>3, <1>4, <2>1, <3>1
    <3>2. CASE i # Len(infos')
      <4>1. i \in 1..Len(infos)
        BY <1>4, <3>2
      <4>2. infos[i].tick = Slept - Len(infos) + i
        BY <4>1 DEF IInv, Infos
      <4> QED  BY <1>2, <1>4, <2>1, <4>1, <4>2
    <3> QED  BY <3>1, <3>2
  <2> QED  BY <1>1, <1>2, <1>4, <2>1, <2>2 DEF IInv, Infos
<1>14. Pictures'
  <2>1. writing = -1
    BY <1>1 DEF IInv, Ring
  <2> QED  BY <1>1, <1>7, <2>1 DEF IInv, Pictures, Lags, At
<1> QED  BY <1>7, <1>8, <1>9, <1>10, <1>11, <1>12, <1>13, <1>14 DEF IInv

(* What the output thread does leaves the graphics thread's alone.         *)
LEMMA GraphicsKept ==
  ASSUME IInv, UNCHANGED graphics
  PROVE  GraphicsTypes' /\ Textures' /\ Infos' /\ InfoEnd' = InfoEnd
<1> USE DEF graphics, textures
<1>1. GraphicsTypes'
  BY DEF IInv, GraphicsTypes
<1>2. Textures'
  BY DEF IInv, Textures, Latest, Since
<1>3. Infos'
  BY DEF IInv, Infos, Slept
<1> QED  BY <1>1, <1>2, <1>3 DEF InfoEnd

LEMMA VarsKeep ==
  ASSUME IInv, UNCHANGED vars
  PROVE  IInv' /\ Coming' = Coming
<1>1. UNCHANGED graphics /\ UNCHANGED output /\ reading' = reading /\ writing' = writing
      /\ pc' = pc /\ tick' = tick /\ fails' = fails /\ infos' = infos /\ time' = time
  BY DEF vars, graphics
<1>2. GraphicsTypes' /\ Textures' /\ Infos' /\ InfoEnd' = InfoEnd
  BY <1>1, GraphicsKept
<1>3. Used' = Used /\ Held' = Held /\ Coming' = Coming
  BY <1>1, <1>2 DEF output, Used, Held, Coming
<1>4. OutputTypes'
  BY <1>1 DEF output, IInv, OutputTypes
<1>5. Ring'
  BY <1>1, <1>3 DEF output, IInv, Ring, At
<1>6. Times'
  BY <1>1, <1>2, <1>3 DEF output, IInv, Times, At
<1>7. Pictures'
  BY <1>1, <1>3 DEF output, IInv, Pictures, Lags, At
<1> QED  BY <1>2, <1>3, <1>4, <1>5, <1>6, <1>7 DEF IInv

LEMMA WakeKeeps ==
  ASSUME IInv, Wake
  PROVE  IInv' /\ Coming' = Coming
<1>1. /\ reading = -1 /\ sem > 0 /\ sem' = sem - 1 /\ reading' = first
      /\ UNCHANGED <<graphics, cache, available, first, last>>
      /\ writing' = writing /\ pc' = pc /\ tick' = tick /\ fails' = fails /\ infos' = infos
      /\ time' = time
  BY DEF Wake, graphics
<1>2. GraphicsTypes' /\ Textures' /\ Infos' /\ InfoEnd' = InfoEnd
  BY <1>1, GraphicsKept
<1>3. Used' = Used /\ Held' = Held /\ Coming' = Coming
  BY <1>1, <1>2 DEF Used, Held, Coming
<1>4. OutputTypes'
  BY <1>1, VideoConstants DEF IInv, OutputTypes
<1>5. Ring'
  <2>1. first # -1 /\ sem \in Nat
    BY VideoConstants DEF IInv, OutputTypes, Slot
  <2> QED  BY <1>1, <1>3, <2>1 DEF IInv, Ring, At
<1>6. Times'
  BY <1>1, <1>2, <1>3 DEF IInv, Times, At
<1>7. Pictures'
  BY <1>1, <1>3 DEF IInv, Pictures, Lags, At
<1> QED  BY <1>2, <1>3, <1>4, <1>5, <1>6, <1>7 DEF IInv

(* A frame is passed on for one interval.                                  *)
LEMMA PassedKeeps ==
  ASSUME IInv, Passed
  PROVE  IInv' /\ Coming = Frame.ts /\ Coming' = Coming + 1 /\ Coming \in Nat \ {0}
<1>1. /\ reading # -1 /\ UNCHANGED <<graphics, sem>>
      /\ cache' = [cache EXCEPT ![reading].ts = @ + 1, ![reading].count = @ - 1]
      /\ writing' = writing /\ pc' = pc /\ tick' = tick /\ fails' = fails /\ infos' = infos
      /\ time' = time
  BY DEF Passed, graphics
<1>2. /\ CacheSize \in Nat /\ CacheSize > 0 /\ available \in 0..CacheSize
      /\ first \in Slot /\ last \in Slot /\ sem \in Nat /\ cache \in [Slot -> FrameData]
      /\ reading = first /\ Used = CacheSize - available /\ Used = sem + 1
      /\ Used \in 1..CacheSize
      /\ Held = (IF writing = -1 THEN Used ELSE Used + 1) /\ Held \in 1..CacheSize
      /\ At(0) = first /\ last = At(Held - 1) /\ -1 \notin Slot
  <2>1. /\ CacheSize \in Nat /\ CacheSize > 0 /\ available \in 0..CacheSize
        /\ first \in Slot /\ last \in Slot /\ sem \in Nat /\ cache \in [Slot -> FrameData]
        /\ reading = first /\ -1 \notin Slot
    BY <1>1, VideoConstants DEF IInv, OutputTypes, Ring, Slot
  <2>2. Used = CacheSize - available /\ Used = sem + 1 /\ Used \in 1..CacheSize
    BY <1>1, <2>1 DEF IInv, Ring, Used
  <2>3. Held = (IF writing = -1 THEN Used ELSE Used + 1) /\ Held \in 1..CacheSize
    BY <2>1, <2>2 DEF Held, IInv, Ring
  <2> QED  BY <2>1, <2>2, <2>3, AtIs DEF IInv, Ring
<1>3. GraphicsTypes' /\ Textures' /\ Infos' /\ InfoEnd' = InfoEnd
  BY <1>1, GraphicsKept
<1>4. /\ cache' \in [Slot -> FrameData]
      /\ \A i \in Slot : /\ cache'[i].pic = cache[i].pic /\ cache'[i].tick = cache[i].tick
                         /\ i # first => cache'[i] = cache[i]
      /\ cache'[first].ts = cache[first].ts + 1 /\ cache'[first].count = cache[first].count - 1
      /\ cache[first] \in FrameData /\ cache[first].count > 0 /\ cache[first].ts > 0
      /\ Frame = cache[first]
  <2> DEFINE f == [cache[first] EXCEPT !.ts = @ + 1, !.count = @ - 1]
  <2>1. cache[first] \in FrameData /\ cache[first].count > 0 /\ cache[first].ts > 0
    <3>1. 0 \in 0..Held - 1
      BY <1>2
    <3>2. cache[At(0)].count > 0 /\ cache[At(0)].ts > 0
      BY <3>1 DEF IInv, Times
    <3> QED  BY <1>2, <3>2
  <2>2. /\ f \in FrameData /\ f.ts = cache[first].ts + 1 /\ f.count = cache[first].count - 1
        /\ f.tick = cache[first].tick /\ f.pic = cache[first].pic
    <3>1. cache[first].ts + 1 \in Nat /\ cache[first].count - 1 \in Nat
      BY <2>1 DEF FrameData
    <3> QED  BY <2>1, <3>1 DEF FrameData
  <2>3. cache' = [cache EXCEPT ![first] = f]
    BY <1>1, <1>2
  <2> HIDE DEF f
  <2> QED  BY <1>2, <2>1, <2>2, <2>3 DEF Frame
<1>5. \A k \in 0..CacheSize - 1 : At(k) \in Slot /\ (k > 0 => At(k) # first)
  BY <1>2, AtIs
<1>6. Coming = cache[first].ts /\ Coming \in Nat \ {0} /\ Coming = Frame.ts
  BY <1>2, <1>4 DEF Coming, FrameData
<1>7. \A i \in 1..Len(infos') :
        infos'[i].ts + infos'[i].count = IF i = Len(infos') THEN time' ELSE infos'[i + 1].ts
  BY <1>1 DEF IInv, Times
<1>8. \A k \in 0..Held - 1 :
        /\ cache[At(k)].ts > 0 /\ cache[At(k)].count > 0
        /\ cache[At(k)].ts + cache[At(k)].count =
             IF k = Held - 1 THEN InfoEnd ELSE cache[At(k + 1)].ts
  BY DEF IInv, Times
<1>9. \A k \in 0..Used - 1 : Lags(cache[At(k)]) /\ Lags(cache'[At(k)])
  <2>1. \A k \in 0..Used - 1 : Lags(cache[At(k)]) /\ At(k) \in Slot
    BY <1>2, <1>5 DEF IInv, Pictures
  <2> QED  BY <1>4, <2>1 DEF Lags
<1>10. writing # -1 => writing = last /\ cache'[writing].tick = tick' - 1 - fails'
  BY <1>1, <1>2, <1>4 DEF IInv, Ring, Pictures
<1>11. CASE cache[first].count > 1
  <2>1. UNCHANGED <<available, first, last, reading>>
    BY <1>4, <1>11 DEF Passed
  <2>2. Used' = Used /\ Held' = Held /\ \A k \in 0..CacheSize : At(k)' = At(k)
    BY <1>1, <2>1, AtStays DEF Used, Held
  <2>3. OutputTypes'
    BY <1>1, <1>4, <2>1 DEF IInv, OutputTypes
  <2>4. Ring'
    BY <1>1, <2>1, <2>2 DEF IInv, Ring, At
  <2>5. Times'
    <3>1. ASSUME NEW k \in 0..Held - 1
          PROVE  /\ cache'[At(k)'].ts > 0 /\ cache'[At(k)'].count > 0
                 /\ cache'[At(k)'].ts + cache'[At(k)'].count =
                      IF k = Held - 1 THEN InfoEnd' ELSE cache'[At(k + 1)'].ts
      <4>1. At(k)' = At(k) /\ At(k + 1)' = At(k + 1) /\ At(k) \in Slot
        BY <1>2, <1>5, <2>2
      <4>2. k < Held - 1 => cache'[At(k + 1)] = cache[At(k + 1)]
        BY <1>2, <1>4, <1>5
      <4>3. cache'[At(k)].ts + cache'[At(k)].count = cache[At(k)].ts + cache[At(k)].count
            /\ cache'[At(k)].ts > 0 /\ cache'[At(k)].count > 0
        <5>1. CASE k = 0
          BY <1>2, <1>4, <1>11, <5>1 DEF FrameData
        <5>2. CASE k # 0
          BY <1>2, <1>4, <1>5, <1>8, <4>1, <5>2
        <5> QED  BY <5>1, <5>2
      <4>4. CASE k = Held - 1
        BY <1>3, <1>8, <4>1, <4>3, <4>4
      <4>5. CASE k # Held - 1
        <5>1. k < Held - 1
          BY <1>2, <4>5
        <5> QED  BY <1>8, <4>1, <4>2, <4>3, <4>5, <5>1
      <4> QED  BY <4>4, <4>5
    <3> QED  BY <1>7, <2>2, <3>1 DEF Times
  <2>6. Pictures'
    <3>1. ASSUME NEW k \in 0..Used - 1
          PROVE  Lags(cache[At(k)])'
      <4>1. At(k)' = At(k) /\ Lags(cache'[At(k)])
        BY <1>2, <1>9, <2>2
      <4> QED  BY <1>1, <4>1 DEF Lags
    <3> QED  BY <1>1, <1>10, <2>2, <3>1 DEF Pictures
  <2>7. Coming' = Coming + 1
    BY <1>2, <1>4, <1>6, <2>1, <2>2 DEF Coming
  <2> QED  BY <1>3, <1>6, <2>3, <2>4, <2>5, <2>6, <2>7 DEF IInv
<1>12. CASE ~(cache[first].count > 1)
  <2>1. /\ first' = Following(first) /\ available' = available + 1
        /\ last' = IF available' = CacheSize THEN first' ELSE last
        /\ reading' = -1 /\ cache[first].count = 1
    BY <1>4, <1>12 DEF Passed, FrameData
  <2>2. first' \in Slot /\ \A k \in 0..CacheSize - 1 : At(k)' = At(k + 1)
    BY <1>2, <2>1, AtShifts
  <2>3. Used' = Used - 1 /\ Held' = Held - 1
    BY <1>1, <1>2, <2>1 DEF Used, Held
  <2>4. /\ first' = At(1) /\ (Held > 1 => cache'[first'] = cache[At(1)])
    <3>1. At(0)' = At(1)
      BY <1>2, <2>2
    <3>2. first' = At(1)
      BY <1>2, <2>1, AtIs
    <3>3. Held > 1 => At(1) \in Slot /\ At(1) # first
      BY <1>2, <1>5
    <3> QED  BY <1>4, <3>2, <3>3
  <2>5. OutputTypes'
    <3>1. available + 1 \in 0..CacheSize
      BY <1>2
    <3>2. last' \in Slot
      BY <1>2, <2>1, <2>2
    <3> QED  BY <1>1, <1>4, <2>1, <2>2, <3>1, <3>2 DEF IInv, OutputTypes
  <2>6. Ring'
    <3>1. Used' = sem' + (IF reading' = -1 THEN 0 ELSE 1)
      BY <1>1, <1>2, <2>1, <2>3
    <3>2. writing # -1 => writing = last /\ available' > 0
      BY <1>2, <2>1 DEF IInv, Ring
    <3>3. Held > 1 => last = At(Held - 1)
      BY <1>2
    <3>4. available' = CacheSize <=> Used = 1
      BY <1>2, <2>1
    <3>5. writing # -1 => writing' = last'
      <4>1. writing # -1 /\ Used = 1 => last = At(1)
        BY <1>2
      <4> QED  BY <1>1, <2>1, <2>4, <3>2, <3>4, <4>1
    <3>6. last' = IF Held' = 0 THEN first'
                  ELSE IF first' + (Held' - 1) < CacheSize THEN first' + (Held' - 1)
                       ELSE first' + (Held' - 1) - CacheSize
      <4>1. CASE Held = 1
        BY <1>2, <2>1, <2>3, <3>4, <4>1
      <4>2. CASE Held > 1
        <5>1. At(Held - 1) = IF first + (Held - 1) < CacheSize THEN first + (Held - 1)
                             ELSE first + (Held - 1) - CacheSize
          BY DEF At
        <5>2. first' = IF first + 1 = CacheSize THEN 0 ELSE first + 1
          BY <1>2, <2>1, FollowingIs
        <5>3. last = IF first' + (Held' - 1) < CacheSize THEN first' + (Held' - 1)
                     ELSE first' + (Held' - 1) - CacheSize
          BY <1>2, <2>3, <4>2, <5>1, <5>2 DEF Slot
        <5>4. last' = last
          <6>1. Used = 1 => Held = 2
            BY <1>2, <4>2
          <6> QED  BY <1>2, <2>1, <2>4, <3>4, <6>1
        <5>5. Held' # 0
          BY <1>2, <2>3, <4>2
        <5> QED  BY <5>3, <5>4, <5>5
      <4> QED  BY <1>2, <4>1, <4>2
    <3>7. writing' # -1 <=> pc' = "copy"
      BY <1>1 DEF IInv, Ring
    <3> QED  BY <1>1, <2>1, <3>1, <3>2, <3>5, <3>6, <3>7 DEF Ring, At
  <2>7. Times'
    <3>1. ASSUME NEW k \in 0..Held' - 1
          PROVE  /\ cache'[At(k)'].ts > 0 /\ cache'[At(k)'].count > 0
                 /\ cache'[At(k)'].ts + cache'[At(k)'].count =
                      IF k = Held' - 1 THEN InfoEnd' ELSE cache'[At(k + 1)'].ts
      <4>1. k \in 0..CacheSize - 1 /\ k + 1 \in 0..CacheSize - 1 /\ k + 1 \in 0..Held - 1
            /\ (k = Held' - 1 <=> k + 1 = Held - 1)
        BY <1>2, <2>3
      <4>2. At(k)' = At(k + 1) /\ At(k + 1)' = At((k + 1) + 1)
        BY <2>2, <4>1
      <4>3. cache'[At(k + 1)] = cache[At(k + 1)]
        BY <1>4, <1>5, <4>1
      <4>4. k + 1 # Held - 1 => cache'[At((k + 1) + 1)] = cache[At((k + 1) + 1)]
        <5>1. k + 1 # Held - 1 => (k + 1) + 1 \in 0..CacheSize - 1 /\ (k + 1) + 1 > 0
          BY <1>2, <4>1
        <5> QED  BY <1>4, <1>5, <5>1
      <4> QED  BY <1>3, <1>8, <4>1, <4>2, <4>3, <4>4
    <3> QED  BY <1>7, <3>1 DEF Times
  <2>8. Pictures'
    <3>1. ASSUME NEW k \in 0..Used' - 1
          PROVE  Lags(cache[At(k)])'
      <4>1. k \in 0..CacheSize - 1 /\ k + 1 \in 0..Used - 1
        BY <1>2, <2>3
      <4> QED  BY <1>1, <1>9, <2>2, <4>1 DEF Lags
    <3> QED  BY <1>1, <1>10, <3>1 DEF Pictures
  <2>9. Coming' = Coming + 1
    <3>1. cache[first].ts + 1 = IF Held = 1 THEN InfoEnd ELSE cache[At(1)].ts
      <4>1. 0 \in 0..Held - 1 /\ (0 = Held - 1 <=> Held = 1) /\ 0 + 1 = 1
        BY <1>2
      <4>2. cache[At(0)].ts + cache[At(0)].count =
             IF 0 = Held - 1 THEN InfoEnd ELSE cache[At(0 + 1)].ts
        BY <1>8, <4>1
      <4> QED  BY <1>2, <2>1, <4>1, <4>2
    <3>2. CASE Held = 1
      BY <1>3, <1>6, <2>3, <3>1, <3>2 DEF Coming
    <3>3. CASE Held # 1
      BY <1>2, <1>6, <2>3, <2>4, <3>1, <3>3 DEF Coming
    <3> QED  BY <3>2, <3>3
  <2> QED  BY <1>3, <1>6, <2>5, <2>6, <2>7, <2>8, <2>9 DEF IInv
<1> QED  BY <1>11, <1>12

-----------------------------------------------------------------------------
(* The encoders.                                                           *)

LEMMA EncodersKept ==
  ASSUME EInv, UNCHANGED <<encoders, block>>, Coming' = Coming
  PROVE  EInv'
<1> USE DEF encoders
<1>1. EncoderTypes'
  BY DEF EInv, EncoderTypes
<1>2. VideoTime'
  BY DEF EInv, VideoTime, VideoKeepsTime
<1>3. AudioTime'
  BY DEF EInv, AudioTime, AudioKeepsTime, LeftOut, InTime, DueFrom
<1> QED  BY <1>1, <1>2, <1>3 DEF EInv

LEMMA VideoFields ==
  ASSUME NEW v \in [on : BOOLEAN, first : BOOLEAN, start : Nat, pts : Nat],
         NEW s \in Nat, NEW f \in BOOLEAN, NEW p \in Nat
  PROVE  /\ [v EXCEPT !.start = s, !.first = f, !.pts = p]
               \in [on : BOOLEAN, first : BOOLEAN, start : Nat, pts : Nat]
         /\ [v EXCEPT !.start = s, !.first = f, !.pts = p].start = s
         /\ [v EXCEPT !.start = s, !.first = f, !.pts = p].pts = p
         /\ [v EXCEPT !.start = s, !.first = f, !.pts = p].on = v.on
OBVIOUS

(* A frame comes with the time that is due: it is encoded with it, or it   *)
(* is one before the first.                                                *)
LEMMA VideoKeeps ==
  ASSUME EInv, NEW received \in BOOLEAN, Coming \in Nat \ {0}, Coming' = Coming + 1,
         ReceiveVideo(Coming * Interval, received), block' = block
  PROVE  EInv'
<1> DEFINE ts == Coming * Interval
<1>1. ts \in Nat \ {0} /\ Coming' * Interval = ts + Interval /\ Interval \in Nat \ {0}
  <2>1. Interval \in Nat /\ Interval > 0 /\ Coming \in Nat /\ Coming > 0
    BY SyncConstants
  <2>2. (Coming + 1) * Interval = Coming * Interval + Interval
    BY <2>1
  <2>3. Coming * Interval \in Nat /\ Coming * Interval > 0
    BY <2>1
  <2> QED  BY <2>1, <2>2, <2>3
<1>2. ReceiveVideo(ts, received)
  OBVIOUS
<1> HIDE DEF ts
<1>3. CASE ~video.on \/ Waits(ts)
  <2>1. UNCHANGED <<video, audio, sentVideo, sentAudio, left, block>>
    BY <1>2, <1>3 DEF ReceiveVideo, encoders
  <2>2. video.start = 0
    BY <1>1, <1>3, SyncConstants DEF EInv, VideoTime, Waits, ts, EncoderTypes
  <2>3. EncoderTypes'
    BY <2>1 DEF EInv, EncoderTypes
  <2>4. VideoTime'
    BY <2>1, <2>2 DEF EInv, VideoTime, VideoKeepsTime
  <2>5. AudioTime'
    BY <2>1 DEF EInv, AudioTime, AudioKeepsTime, LeftOut, InTime, DueFrom
  <2> QED  BY <2>3, <2>4, <2>5 DEF EInv
<1>4. CASE video.on /\ ~Waits(ts)
  <2> DEFINE v == [video EXCEPT !.start = IF @ = 0 THEN ts ELSE @,
                                !.first = @ \/ received, !.pts = @ + Interval]
  <2>1. /\ video' = v /\ sentVideo' = [ts |-> ts, pts |-> video.pts]
        /\ UNCHANGED <<audio, sentAudio, left, block>>
    BY <1>2, <1>4 DEF ReceiveVideo
  <2>2. /\ video \in [on : BOOLEAN, first : BOOLEAN, start : Nat, pts : Nat]
    BY DEF EInv, EncoderTypes
  <2>3. /\ v \in [on : BOOLEAN, first : BOOLEAN, start : Nat, pts : Nat]
        /\ v.start = (IF video.start = 0 THEN ts ELSE video.start)
        /\ v.pts = video.pts + Interval /\ v.on = video.on
    <3>1. /\ (IF video.start = 0 THEN ts ELSE video.start) \in Nat
          /\ video.pts + Interval \in Nat
      BY <1>1, <2>2
    <3>2. (video.first \/ received) \in BOOLEAN
      OBVIOUS
    <3> QED  BY <2>2, <3>1, <3>2, VideoFields
  <2> HIDE DEF v
  <2>4. sentVideo' \in [ts : Nat, pts : Nat] /\ sentVideo'.ts = ts /\ sentVideo'.pts = video.pts
    BY <1>1, <2>1, <2>2
  <2>5. EncoderTypes'
    BY <2>1, <2>3, <2>4 DEF EInv, EncoderTypes
  <2>6. audio.first /\ audio.firstRaw <= v.start
    <3>1. CASE video.start = 0
      <4>1. ~video.first
        BY <3>1 DEF EInv, VideoTime
      <4> QED  BY <1>1, <1>4, <2>3, <3>1, <4>1 DEF Waits, EInv, EncoderTypes
    <3>2. CASE video.start # 0
      BY <2>3, <3>2 DEF EInv, VideoTime
    <3> QED  BY <3>1, <3>2
  <2>7. /\ v.start # 0 /\ v.start + v.pts = ts + Interval
        /\ ts = v.start + video.pts
    <3>1. CASE video.start = 0
      BY <1>1, <2>2, <2>3, <3>1 DEF EInv, VideoTime
    <3>2. CASE video.start # 0
      <4>1. video.start + video.pts = ts
        BY <3>2 DEF EInv, VideoTime, ts
      <4> QED  BY <1>1, <2>2, <2>3, <3>2, <4>1
    <3> QED  BY <3>1, <3>2
  <2>8. VideoTime'
    BY <1>1, <1>4, <2>1, <2>3, <2>4, <2>6, <2>7 DEF EInv, VideoTime, VideoKeepsTime
  <2>9. AudioTime'
    BY <2>1, <2>3 DEF EInv, VideoTime, AudioTime, AudioKeepsTime, LeftOut, InTime, DueFrom
  <2> QED  BY <2>5, <2>8, <2>9 DEF EInv
<1> QED  BY <1>3, <1>4

LEMMA ConnectKeeps ==
  ASSUME IInv, EInv, Connect
  PROVE  IInv' /\ EInv'
<1>1. UNCHANGED <<time, tick, pc, cur, rendered, scaled, copied, infos, picture, writing, fails,
                  cache, available, first, last, sem, reading, block, sentVideo, sentAudio, left>>
  BY DEF Connect, ConnectVideo, ConnectAudio, vars, graphics, textures, output
<1>2. IInv' /\ Coming' = Coming
  BY <1>1, VarsKeep DEF vars, graphics, textures, output
<1>3. \/ video' = [video EXCEPT !.on = TRUE] /\ UNCHANGED audio
      \/ audio' = [audio EXCEPT !.on = TRUE] /\ UNCHANGED video
  BY DEF Connect, ConnectVideo, ConnectAudio
<1>4. /\ video \in [on : BOOLEAN, first : BOOLEAN, start : Nat, pts : Nat]
      /\ audio \in [on : BOOLEAN, first : BOOLEAN, start : Nat, pts : Nat, firstRaw : Nat,
                    buf : Seq(Nat)]
  BY DEF EInv, EncoderTypes
<1>5. /\ video' \in [on : BOOLEAN, first : BOOLEAN, start : Nat, pts : Nat]
      /\ audio' \in [on : BOOLEAN, first : BOOLEAN, start : Nat, pts : Nat, firstRaw : Nat,
                     buf : Seq(Nat)]
      /\ video'.start = video.start /\ video'.pts = video.pts /\ video'.first = video.first
      /\ audio'.start = audio.start /\ audio'.pts = audio.pts /\ audio'.first = audio.first
      /\ audio'.firstRaw = audio.firstRaw /\ audio'.buf = audio.buf
      /\ (video.on => video'.on) /\ (audio.on => audio'.on)
  BY <1>3, <1>4
<1>6. EncoderTypes'
  BY <1>1, <1>5 DEF EInv, EncoderTypes
<1>7. VideoTime'
  BY <1>1, <1>2, <1>5 DEF EInv, VideoTime, VideoKeepsTime
<1>8. AudioTime'
  BY <1>1, <1>5 DEF EInv, AudioTime, AudioKeepsTime, LeftOut, InTime, DueFrom
<1> QED  BY <1>2, <1>6, <1>7, <1>8 DEF EInv

LEMMA WithoutIs ==
  ASSUME NEW s \in Seq(Nat), NEW k \in Nat
  PROVE  /\ Without(s, k) \in Seq(Nat)
         /\ k <= Len(s) => /\ Len(Without(s, k)) = Len(s) - k
                           /\ \A i \in 1..Len(s) - k : Without(s, k)[i] = s[i + k]
<1>1. CASE k <= Len(s)
  BY <1>1, SubSeqProperties DEF Without
<1>2. CASE k > Len(s)
  <2>1. Without(s, k) = <<>>
    BY <1>2, EmptySeq DEF Without
  <2> QED  BY <1>2, <2>1
<1> QED  BY <1>1, <1>2

LEMMA WholePackets ==
  ASSUME NEW n \in Nat
  PROVE  (n \div FrameSize) * FrameSize \in 0..n
<1>1. FrameSize \in Nat /\ FrameSize > 0
  BY SyncConstants
<1>2. n \div FrameSize \in Int
  BY <1>1
<1>3. (n \div FrameSize) * FrameSize <= n /\ (n \div FrameSize) * FrameSize >= 0
  BY <1>1, <1>2, SMTT(60)
<1> QED  BY <1>1, <1>2, <1>3

(* A block comes where the one before it ended: it is put behind what is   *)
(* buffered, or the buffer begins in it, or it is left out.                *)
LEMMA BufferedIs ==
  ASSUME EInv, audio.first, NEW n \in Nat \ {0}
  PROVE  LET b == Buffered([i \in 1..n |-> block + i - 1])
             starts == audio.start = 0 /\ ~TooEarly(block, n)
         IN  /\ b \in AudioType
             /\ b.on = audio.on /\ b.first = audio.first /\ b.firstRaw = audio.firstRaw
             /\ b.pts = audio.pts
             /\ b.start = (IF starts THEN video.start ELSE audio.start)
             /\ InTime(b, IF starts /\ UsesBuffer(block) THEN [at |-> block, n |-> n] ELSE left,
                       block + n)
<1> DEFINE data == [i \in 1..n |-> block + i - 1]
           b == Buffered(data)
           buf == audio.buf
           from == DueFrom(audio)
<1>1. /\ audio \in AudioType /\ video.start \in Nat /\ left \in [at : Nat, n : Nat]
      /\ block \in Nat /\ buf \in Seq(Nat) /\ Len(buf) \in Nat /\ from \in Nat
      /\ audio.firstRaw \in Nat /\ left.at \in Nat /\ left.n \in Nat /\ buf = audio.buf
  BY DEF EInv, EncoderTypes, AudioType, DueFrom
<1>2. /\ data \in Seq(Nat) /\ Len(data) = n /\ data[1] = block
      /\ \A i \in 1..n : data[i] = block + i - 1
  <2>1. \A i \in 1..n : block + i - 1 \in Nat
    BY <1>1
  <2> QED  BY <1>1, <2>1
<1>3. /\ left.at = 0 => left.n = 0
      /\ left.at # 0 => audio.start # 0 /\ left.at <= from + Len(buf)
      /\ \A i \in 1..Len(buf) : buf[i] = from + i - 1 + Ahead(left, from + i - 1)
      /\ block = from + Len(buf) + left.n
  BY DEF EInv, AudioTime, InTime
<1>4. audio.start = 0 => audio.pts = 0 /\ from = audio.firstRaw
  BY DEF EInv, AudioTime, DueFrom
<1>5. \A p : Ahead(left, p) = IF left.at # 0 /\ left.at <= p THEN left.n ELSE 0
  BY DEF Ahead
<1> HIDE DEF data, from, buf
<1>6. CASE audio.start # 0 \/ TooEarly(block, n)
  <2>1. b = [audio EXCEPT !.buf = audio.buf \o data]
    BY <1>2, <1>6 DEF Buffered
  <2>2. /\ buf \o data \in Seq(Nat) /\ Len(buf \o data) = Len(buf) + n
        /\ \A i \in 1..Len(buf) + n :
             (buf \o data)[i] = IF i <= Len(buf) THEN buf[i] ELSE data[i - Len(buf)]
    <3>1. buf \in Seq(Nat) /\ data \in Seq(Nat) /\ Len(data) = n
      BY <1>1, <1>2
    <3>2. /\ buf \o data \in Seq(Nat) /\ Len(buf \o data) = Len(buf) + Len(data)
          /\ \A i \in 1..Len(buf) + Len(data) :
               (buf \o data)[i] = IF i <= Len(buf) THEN buf[i] ELSE data[i - Len(buf)]
      BY <3>1, ConcatProperties, ZenonT(40)
    <3> QED  BY <3>1, <3>2
  <2>3. /\ b \in AudioType /\ b.on = audio.on /\ b.first = audio.first
        /\ b.firstRaw = audio.firstRaw /\ b.pts = audio.pts /\ b.start = audio.start
        /\ b.buf = buf \o data
    BY <1>1, <2>1, <2>2 DEF AudioType
  <2> HIDE DEF b
  <2>4. DueFrom(b) = from
    BY <2>3 DEF DueFrom, from
  <2>5. ASSUME NEW i \in 1..Len(b.buf)
        PROVE  b.buf[i] = from + i - 1 + Ahead(left, from + i - 1)
    <3>1. i \in 1..Len(buf) + n
      BY <2>2, <2>3
    <3>2. b.buf[i] = IF i <= Len(buf) THEN buf[i] ELSE data[i - Len(buf)]
      BY <2>2, <2>3, <3>1
    <3>3. CASE i <= Len(buf)
      BY <1>1, <1>3, <3>1, <3>2, <3>3
    <3>4. CASE i > Len(buf)
      <4>1. i - Len(buf) \in 1..n /\ b.buf[i] = data[i - Len(buf)]
        BY <1>1, <3>1, <3>2, <3>4
      <4>2. b.buf[i] = block + (i - Len(buf)) - 1
        BY <1>2, <4>1
      <4>3. Ahead(left, from + i - 1) = left.n
        BY <1>1, <1>3, <1>5, <3>1, <3>4
      <4> QED  BY <1>1, <1>3, <3>1, <4>2, <4>3
    <3> QED  BY <1>1, <3>1, <3>3, <3>4
  <2>6. Len(b.buf) = Len(buf) + n
    BY <2>2, <2>3
  <2>7. InTime(b, left, block + n)
    <3>1. /\ left.at # 0 => b.start # 0 /\ left.at <= from + Len(b.buf)
          /\ block + n = from + Len(b.buf) + left.n
      <4>1. \A f, l, m, at, k \in Nat :
              /\ at <= f + l => at <= f + (l + m)
              /\ (f + l + k) + m = f + (l + m) + k
        OBVIOUS
      <4>2. from \in Nat /\ Len(buf) \in Nat /\ n \in Nat /\ left.at \in Nat /\ left.n \in Nat
        BY <1>1
      <4>3. /\ left.at <= from + Len(buf) => left.at <= from + (Len(buf) + n)
            /\ (from + Len(buf) + left.n) + n = from + (Len(buf) + n) + left.n
        BY <4>1, <4>2
      <4> QED  BY <1>3, <2>3, <2>6, <4>3
    <3> QED  BY <1>3, <2>4, <2>5, <3>1 DEF InTime
  <2>8. ~(audio.start = 0 /\ ~TooEarly(block, n))
    BY <1>6
  <2> QED  BY <2>3, <2>7, <2>8 DEF b, data
<1>7. CASE audio.start = 0 /\ ~TooEarly(block, n)
  <2>1. /\ video.start # 0 /\ block + n > video.start /\ audio.firstRaw <= video.start
        /\ left.at = 0 /\ left.n = 0
    BY <1>1, <1>3, <1>7 DEF TooEarly, EInv, VideoTime
  <2>2. CASE UsesBuffer(block)
    <3> DEFINE rest == Without(buf, Offset(audio.firstRaw))
    <3>1. b = [audio EXCEPT !.start = video.start,
                            !.buf = Without(audio.buf, Offset(audio.firstRaw))]
      BY <1>2, <1>7, <2>2 DEF Buffered
    <3>2. video.start < block /\ Offset(audio.firstRaw) = video.start - audio.firstRaw
      BY <1>1, <2>1, <2>2 DEF UsesBuffer, Offset, AudioType
    <3>3. /\ block = audio.firstRaw + Len(buf) /\ audio.firstRaw \in Nat
          /\ \A i \in 1..Len(buf) : buf[i] = audio.firstRaw + i - 1
      BY <1>1, <1>3, <1>4, <1>5, <1>7, <2>1 DEF AudioType
    <3>4. /\ rest \in Seq(Nat) /\ Len(rest) = block - video.start
          /\ \A i \in 1..Len(rest) : rest[i] = buf[i + (video.start - audio.firstRaw)]
      <4>1. /\ Offset(audio.firstRaw) \in Nat /\ Offset(audio.firstRaw) <= Len(buf)
            /\ Len(buf) - Offset(audio.firstRaw) = block - video.start
        BY <1>1, <2>1, <3>2, <3>3, SMTT(30)
      <4>2. /\ rest \in Seq(Nat) /\ Len(rest) = Len(buf) - Offset(audio.firstRaw)
            /\ \A i \in 1..Len(buf) - Offset(audio.firstRaw) :
                 rest[i] = buf[i + Offset(audio.firstRaw)]
        BY <1>1, <4>1, WithoutIs
      <4> QED  BY <3>2, <4>1, <4>2
    <3> HIDE DEF rest
    <3>5. ASSUME NEW i \in 1..Len(rest)
          PROVE  rest[i] = video.start + i - 1 /\ video.start + i - 1 < block
      <4> DEFINE k == video.start - audio.firstRaw
      <4>1. /\ k \in Nat /\ video.start = audio.firstRaw + k
            /\ i \in Nat /\ i >= 1 /\ i <= block - video.start
        BY <1>1, <2>1, <3>2, <3>4
      <4>2. rest[i] = buf[i + k]
        BY <3>4
      <4> HIDE DEF k
      <4>3. i + k \in 1..Len(buf) /\ audio.firstRaw + k + i - 1 < block
        <5>1. \A f, l, j, m \in Nat : j >= 1 /\ j <= (f + l) - (f + m)
                => j + m \in 1..l /\ f + m + j - 1 < f + l
          OBVIOUS
        <5>2. Len(buf) \in Nat /\ audio.firstRaw \in Nat /\ block = audio.firstRaw + Len(buf)
          BY <1>1, <3>3
        <5> QED  BY <4>1, <5>1, <5>2
      <4>4. buf[i + k] = audio.firstRaw + (i + k) - 1
        BY <3>3, <4>3
      <4>5. audio.firstRaw + (i + k) - 1 = audio.firstRaw + k + i - 1
        BY <3>3, <4>1
      <4> QED  BY <4>1, <4>2, <4>3, <4>4, <4>5
    <3>6. /\ b \in AudioType /\ b.on = audio.on /\ b.first = audio.first
          /\ b.firstRaw = audio.firstRaw /\ b.pts = audio.pts /\ b.start = video.start
          /\ b.buf = rest
      <4>1. rest = Without(audio.buf, Offset(audio.firstRaw))
        BY <1>1 DEF rest
      <4> QED  BY <1>1, <3>1, <3>4, <4>1 DEF AudioType
    <3> HIDE DEF b
    <3>7. DueFrom(b) = video.start
      BY <1>1, <1>4, <1>7, <2>1, <3>6 DEF DueFrom
    <3> DEFINE l == [at |-> block, n |-> n]
    <3>8. l.at = block /\ l.n = n /\ block # 0
      BY DEF EInv, EncoderTypes
    <3>9. \A p \in Nat : p < block => Ahead(l, p) = 0
      BY <1>1, <3>8 DEF Ahead
    <3> HIDE DEF l
    <3>10. ASSUME NEW i \in 1..Len(b.buf)
           PROVE  b.buf[i] = video.start + i - 1 + Ahead(l, video.start + i - 1)
      <4>1. /\ b.buf[i] = video.start + i - 1 /\ video.start + i - 1 < block
            /\ video.start + i - 1 \in Nat
        <5>1. i \in 1..Len(rest) /\ Len(rest) \in Nat
          BY <1>1, <3>4, <3>6
        <5> QED  BY <1>1, <3>5, <3>6, <5>1
      <4> QED  BY <3>9, <4>1
    <3>11. InTime(b, l, block + n)
      BY <1>1, <2>1, <3>2, <3>4, <3>6, <3>7, <3>8, <3>10 DEF InTime
    <3> QED  BY <1>7, <2>2, <3>6, <3>11 DEF b, data, l
  <2>3. CASE ~UsesBuffer(block)
    <3> DEFINE rest == Without(data, Offset(block))
    <3>1. b = [audio EXCEPT !.start = video.start, !.buf = rest]
      BY <1>2, <1>7, <2>3 DEF Buffered
    <3>2. Offset(block) = video.start - block /\ block <= video.start
      BY <1>1, <2>3 DEF UsesBuffer, Offset
    <3>3. /\ rest \in Seq(Nat) /\ Len(rest) = block + n - video.start
          /\ \A i \in 1..Len(rest) : rest[i] = data[i + (video.start - block)]
      <4>1. /\ Offset(block) \in Nat /\ Offset(block) <= Len(data)
            /\ Len(data) - Offset(block) = block + n - video.start
        <5>1. Len(data) = n /\ n \in Nat
          BY <1>2
        <5> QED  BY <1>1, <2>1, <3>2, <5>1
      <4>2. /\ rest \in Seq(Nat) /\ Len(rest) = Len(data) - Offset(block)
            /\ \A i \in 1..Len(data) - Offset(block) : rest[i] = data[i + Offset(block)]
        BY <1>2, <4>1, WithoutIs
      <4> QED  BY <3>2, <4>1, <4>2
    <3> HIDE DEF rest
    <3>4. ASSUME NEW i \in 1..Len(rest)
          PROVE  rest[i] = video.start + i - 1
      <4>1. i + (video.start - block) \in 1..n
        BY <1>1, <3>2, <3>3, SMTT(30)
      <4> QED  BY <1>1, <1>2, <3>3, <4>1, SMTT(30)
    <3>5. /\ b \in AudioType /\ b.on = audio.on /\ b.first = audio.first
          /\ b.firstRaw = audio.firstRaw /\ b.pts = audio.pts /\ b.start = video.start
          /\ b.buf = rest
      BY <1>1, <3>1, <3>3 DEF AudioType
    <3> HIDE DEF b
    <3>6. DueFrom(b) = video.start
      BY <1>1, <1>4, <1>7, <2>1, <3>5 DEF DueFrom
    <3>7. ASSUME NEW i \in 1..Len(b.buf)
          PROVE  b.buf[i] = video.start + i - 1 + Ahead(left, video.start + i - 1)
      BY <1>1, <1>5, <2>1, <3>3, <3>4, <3>5
    <3>8. InTime(b, left, block + n)
      BY <1>1, <2>1, <3>3, <3>5, <3>6, <3>7 DEF InTime
    <3> QED  BY <1>7, <2>3, <3>5, <3>8 DEF b, data
  <2> QED  BY <2>2, <2>3
<1> QED  BY <1>6, <1>7

(* With the first block the encoder counts from it, with nothing buffered. *)
LEMMA BeginsKeeps ==
  ASSUME EInv, FirstReceived(block), block' = block, Coming' = Coming
  PROVE  EInv'
<1>1. /\ ~audio.first /\ audio.on /\ audio' = [audio EXCEPT !.first = TRUE, !.firstRaw = block, !.buf = <<>>]
      /\ UNCHANGED <<video, sentVideo, sentAudio, left>>
  BY DEF FirstReceived
<1>2. audio \in AudioType /\ block \in Nat /\ <<>> \in Seq(Nat)
  BY DEF EInv, EncoderTypes, AudioType
<1>3. /\ audio' \in AudioType /\ audio'.first /\ audio'.on /\ audio'.start = audio.start
      /\ audio'.pts = audio.pts /\ audio'.firstRaw = block /\ audio'.buf = <<>>
  BY <1>1, <1>2 DEF AudioType
<1>4. audio.start = 0 /\ video.start = 0 /\ left = [at |-> 0, n |-> 0]
  BY <1>1 DEF EInv, AudioTime, VideoTime
<1>5. EncoderTypes'
  BY <1>1, <1>3 DEF EInv, EncoderTypes, AudioType
<1>6. VideoTime'
  BY <1>1, <1>3, <1>4 DEF EInv, VideoTime, VideoKeepsTime
<1>7. InTime(audio', left', block')
  <2>1. Len(audio'.buf) = 0 /\ DueFrom(audio') = block /\ left'.at = 0 /\ left'.n = 0
    BY <1>1, <1>3, <1>4 DEF DueFrom
  <2> QED  BY <1>2, <2>1 DEF InTime
<1>8. AudioKeepsTime'
  BY <1>1, <1>3, <1>4 DEF EInv, AudioTime, AudioKeepsTime, LeftOut
<1> QED  BY <1>1, <1>3, <1>4, <1>5, <1>6, <1>7, <1>8 DEF EInv, AudioTime

(* Whole packets are taken off the front of the buffer.                    *)
LEMMA AudioKeeps ==
  ASSUME EInv, ReceiveAudio(block, BlockSize), block' = block + BlockSize, Coming' = Coming
  PROVE  EInv'
<1> DEFINE n == BlockSize
           b == Buffered([i \in 1..n |-> block + i - 1])
           whole == IF b.start = 0 THEN 0 ELSE (Len(b.buf) \div FrameSize) * FrameSize
           starts == audio.start = 0 /\ ~TooEarly(block, n)
           from == DueFrom(b)
<1>1. /\ n \in Nat \ {0} /\ block \in Nat \ {0} /\ audio \in AudioType
      /\ video \in [on : BOOLEAN, first : BOOLEAN, start : Nat, pts : Nat]
      /\ sentAudio \in [frames : Seq(Nat), pts : Nat] /\ left \in [at : Nat, n : Nat]
  BY CaptureConstants DEF EInv, EncoderTypes, AudioType
<1>2. CASE ~audio.on
  <2>1. UNCHANGED <<video, audio, sentVideo, sentAudio, left>>
    BY <1>2 DEF ReceiveAudio, encoders
  <2>2. block' \in Nat \ {0}
    BY <1>1
  <2>3. ~audio.first
    BY <1>2 DEF EInv, AudioTime
  <2>4. EncoderTypes'
    BY <2>1, <2>2 DEF EInv, EncoderTypes
  <2>5. VideoTime'
    BY <2>1 DEF EInv, VideoTime, VideoKeepsTime
  <2>6. AudioTime'
    BY <2>1, <2>3 DEF EInv, AudioTime, AudioKeepsTime, LeftOut
  <2> QED  BY <2>4, <2>5, <2>6 DEF EInv
<1>3. CASE audio.on
  <2>1. /\ audio.first
        /\ audio' = [b EXCEPT !.buf = Without(@, whole), !.pts = @ + whole]
        /\ sentAudio' = IF whole = 0 THEN sentAudio
                        ELSE [frames |-> SubSeq(b.buf, 1, whole), pts |-> b.pts]
        /\ left' = IF starts /\ UsesBuffer(block) THEN [at |-> block, n |-> n] ELSE left
        /\ UNCHANGED <<video, sentVideo>>
    BY <1>3 DEF ReceiveAudio
  <2>2. /\ b \in AudioType
        /\ b.on = audio.on /\ b.first = audio.first /\ b.firstRaw = audio.firstRaw
        /\ b.pts = audio.pts /\ b.start = (IF starts THEN video.start ELSE audio.start)
        /\ InTime(b, left', block + n)
    BY <1>1, <2>1, BufferedIs
  <2> HIDE DEF b
  <2>3. /\ b.buf \in Seq(Nat) /\ Len(b.buf) \in Nat /\ from \in Nat
        /\ left' \in [at : Nat, n : Nat]
    BY <1>1, <2>1, <2>2, SMTT(30) DEF DueFrom, AudioType
  <2>4. whole \in 0..Len(b.buf) /\ (b.start = 0 => whole = 0)
    <3>1. (Len(b.buf) \div FrameSize) * FrameSize \in 0..Len(b.buf)
      BY <2>3, WholePackets
    <3>2. 0 \in 0..Len(b.buf)
      BY <2>3
    <3> QED  BY <3>1, <3>2
  <2> HIDE DEF whole
  <2>5. /\ Without(b.buf, whole) \in Seq(Nat)
        /\ Len(Without(b.buf, whole)) = Len(b.buf) - whole
        /\ \A i \in 1..Len(b.buf) - whole : Without(b.buf, whole)[i] = b.buf[i + whole]
    <3>1. whole \in Nat /\ whole <= Len(b.buf)
      BY <2>3, <2>4
    <3> QED  BY <2>3, <3>1, WithoutIs
  <2>6. /\ SubSeq(b.buf, 1, whole) \in Seq(Nat) /\ Len(SubSeq(b.buf, 1, whole)) = whole
        /\ \A i \in 1..whole : SubSeq(b.buf, 1, whole)[i] = b.buf[i]
    <3>1. whole \in Nat /\ whole <= Len(b.buf)
      BY <2>3, <2>4
    <3> QED  BY <2>3, <3>1, SubSeqProperties
  <2>7. /\ audio' \in AudioType /\ audio'.on = b.on /\ audio'.first = b.first
        /\ audio'.start = b.start /\ audio'.firstRaw = b.firstRaw
        /\ audio'.pts = b.pts + whole /\ audio'.buf = Without(b.buf, whole)
    <3>1. b.pts + whole \in Nat
      BY <2>2, <2>4 DEF AudioType
    <3> QED  BY <2>1, <2>2, <2>5, <3>1 DEF AudioType
  <2>8. EncoderTypes'
    <3>1. sentAudio' \in [frames : Seq(Nat), pts : Nat]
      BY <1>1, <2>1, <2>2, <2>6 DEF AudioType
    <3>2. sentVideo' = sentVideo /\ video' = video /\ block' \in Nat \ {0}
      BY <1>1, <2>1
    <3> QED  BY <2>3, <2>7, <3>1, <3>2 DEF EInv, EncoderTypes, AudioType
  <2>9. /\ b.start # 0 => b.start = video.start
        /\ b.start = 0 => audio.start = 0 /\ b.pts = 0
        /\ video.start = 0 => b.start = 0
    BY <2>1, <2>2 DEF EInv, AudioTime, VideoTime, TooEarly
  <2>10. VideoTime'
    <3>1. video.start # 0 => audio'.first /\ audio'.firstRaw <= video.start
      BY <2>2, <2>7 DEF EInv, VideoTime
    <3> QED  BY <2>1, <2>7, <2>9, <3>1 DEF EInv, VideoTime, VideoKeepsTime
  <2>11. DueFrom(audio') = from + whole
    BY <2>2, <2>4, <2>7 DEF DueFrom, AudioType
  <2>12. /\ left'.at = 0 => left'.n = 0
         /\ left'.at # 0 => b.start # 0 /\ left'.at <= from + Len(b.buf)
         /\ \A i \in 1..Len(b.buf) : b.buf[i] = from + i - 1 + Ahead(left', from + i - 1)
         /\ block + n = from + Len(b.buf) + left'.n
    BY <2>2 DEF InTime
  <2> HIDE DEF from
  <2>13. InTime(audio', left', block')
    <3>1. Len(audio'.buf) = Len(b.buf) - whole
      BY <2>5, <2>7
    <3>2. ASSUME NEW i \in 1..Len(audio'.buf)
          PROVE  audio'.buf[i] = from + whole + i - 1 + Ahead(left', from + whole + i - 1)
      <4>1. i \in 1..Len(b.buf) - whole /\ i + whole \in 1..Len(b.buf)
        BY <2>3, <2>4, <3>1
      <4>2. audio'.buf[i] = b.buf[i + whole]
        BY <2>5, <2>7, <4>1
      <4>3. b.buf[i + whole] = from + (i + whole) - 1 + Ahead(left', from + (i + whole) - 1)
        BY <2>12, <4>1
      <4>4. from + (i + whole) - 1 = from + whole + i - 1
        BY <2>3, <2>4, <4>1
      <4> QED  BY <4>2, <4>3, <4>4
    <3>3. /\ from + Len(b.buf) = from + whole + Len(audio'.buf)
          /\ block' = from + whole + Len(audio'.buf) + left'.n
      <4>1. from + Len(b.buf) = from + whole + (Len(b.buf) - whole)
        <5>1. from \in Nat /\ Len(b.buf) \in Nat /\ whole \in Nat
          BY <2>3, <2>4
        <5>2. \A f, l, w \in Nat : f + l = f + w + (l - w)
          OBVIOUS
        <5> QED  BY <5>1, <5>2
      <4> QED  BY <2>12, <3>1, <4>1
    <3> QED  BY <2>7, <2>11, <2>12, <3>2, <3>3 DEF InTime
  <2>14. AudioKeepsTime'
    <3>1. CASE whole = 0
      <4>1. sentAudio' = sentAudio
        BY <2>1, <3>1
      <4>2. CASE audio.start = 0
        <5>1. sentAudio.frames = <<>> /\ DOMAIN <<>> = {}
          BY <4>2 DEF EInv, AudioTime
        <5> QED  BY <2>1, <2>7, <2>9, <4>1, <5>1 DEF AudioKeepsTime
      <4>3. CASE audio.start # 0
        <5>1. left' = left /\ audio'.start = audio.start /\ video' = video
          BY <2>1, <2>2, <2>7, <4>3
        <5> QED  BY <4>1, <5>1 DEF EInv, AudioTime, AudioKeepsTime, LeftOut
      <4> QED  BY <4>2, <4>3
    <3>2. CASE whole # 0
      <4>1. b.start # 0 /\ from = b.start + b.pts
        BY <2>4, <3>2 DEF DueFrom, from
      <4>2. sentAudio'.frames = SubSeq(b.buf, 1, whole) /\ sentAudio'.pts = b.pts
        BY <2>1, <3>2
      <4>3. \A i \in 1..whole : SubSeq(b.buf, 1, whole)[i]
                                  = from + i - 1 + Ahead(left', from + i - 1)
        BY <2>3, <2>4, <2>6, <2>12
      <4>4. DOMAIN SubSeq(b.buf, 1, whole) = 1..whole
        BY <2>6
      <4>5. audio'.start = b.start /\ audio'.start \in {0, video'.start}
        BY <2>1, <2>7, <2>9
      <4>6. \A i \in 1..whole :
              sentAudio'.frames[i] = audio'.start + sentAudio'.pts + i - 1
                                     + Ahead(left', audio'.start + sentAudio'.pts + i - 1)
        BY <4>1, <4>2, <4>3, <4>5
      <4> QED  BY <4>2, <4>4, <4>5, <4>6 DEF AudioKeepsTime, LeftOut, Ahead
    <3> QED  BY <3>1, <3>2
  <2>15. audio'.first /\ audio'.on
    BY <1>3, <2>1, <2>2, <2>7
  <2>16. audio'.start = 0 => audio'.pts = 0 /\ sentAudio'.frames = <<>>
    BY <2>1, <2>4, <2>7, <2>9 DEF EInv, AudioTime, AudioType
  <2>17. audio'.start # 0 => audio'.start = video'.start
    BY <2>1, <2>7, <2>9
  <2>18. AudioTime'
    BY <2>13, <2>14, <2>15, <2>16, <2>17 DEF AudioTime
  <2> QED  BY <2>8, <2>10, <2>18 DEF EInv
<1> QED  BY <1>2, <1>3

-----------------------------------------------------------------------------
LEMMA Inductive == IInv /\ EInv /\ [CaptureNext]_captureVars => IInv' /\ EInv'
<1> SUFFICES ASSUME IInv, EInv, [CaptureNext]_captureVars PROVE IInv' /\ EInv'
  OBVIOUS
<1>1. CASE (Graphics \/ Wake) /\ UNCHANGED <<encoders, block>>
  <2>1. IInv' /\ Coming' = Coming
    BY <1>1, RenderKeeps, DownloadKeeps, LockKeeps, UnlockKeeps, SleepKeeps, WakeKeeps
       DEF Graphics
  <2> QED  BY <1>1, <2>1, EncodersKept
<1>2. CASE Deliver
  <2>1. Passed /\ block' = block
    BY <1>2 DEF Deliver
  <2>2. IInv' /\ Coming = Frame.ts /\ Coming' = Coming + 1 /\ Coming \in Nat \ {0}
    BY <2>1, PassedKeeps
  <2>3. \E received \in BOOLEAN : ReceiveVideo(Coming * Interval, received)
    BY <1>2, <2>2 DEF Deliver
  <2> QED  BY <2>1, <2>2, <2>3, VideoKeeps
<1>3. CASE AudioBlock
  <2>1. /\ UNCHANGED vars /\ block' = block + BlockSize /\ ReceiveAudio(block, BlockSize)
    BY <1>3 DEF AudioBlock
  <2> QED  BY <2>1, VarsKeep, AudioKeeps
<1>6. CASE AudioBegins
  <2>1. UNCHANGED vars /\ block' = block /\ FirstReceived(block)
    BY <1>6 DEF AudioBegins
  <2> QED  BY <2>1, VarsKeep, BeginsKeeps
<1>4. CASE Connect
  BY <1>4, ConnectKeeps
<1>5. CASE UNCHANGED captureVars
  <2>1. UNCHANGED vars /\ UNCHANGED <<encoders, block>>
    BY <1>5 DEF captureVars
  <2> QED  BY <2>1, VarsKeep, EncodersKept
<1> QED  BY <1>1, <1>2, <1>3, <1>4, <1>5, <1>6 DEF CaptureNext

(* However the threads interleave, a frame is not filled while it is       *)
(* passed on, nor passed on before it is full or after its count is used   *)
(* up: video_output_lock_frame takes a slot only behind those that         *)
(* available_frames leaves to the output thread.                           *)
THEOREM FramesIntact == Spec => []FrameIntact
<1>1. IInv => FrameIntact
  <2> SUFFICES ASSUME IInv PROVE FrameIntact
    OBVIOUS
  <2>1. /\ CacheSize \in Nat /\ CacheSize > 0 /\ first \in Slot /\ -1 \notin Slot
        /\ available \in 0..CacheSize /\ sem \in Nat
    BY VideoConstants DEF IInv, OutputTypes, Slot
  <2>2. Len(infos) <= 2 + fails
    BY DEF IInv, GraphicsTypes, Infos
  <2>3. reading # -1 => reading = first /\ Used \in 1..CacheSize /\ Held \in 1..CacheSize
    BY <2>1 DEF IInv, Ring, Used, Held
  <2>4. writing # -1 => writing # reading
    <3>1. SUFFICES ASSUME writing # -1, reading # -1 PROVE writing # reading
      BY <2>1 DEF IInv, OutputTypes
    <3>2. Held = Used + 1 /\ Used \in 1..CacheSize - 1 /\ Held # 0 /\ Held - 1 = Used
      BY <2>1, <2>3, <3>1 DEF Held
    <3>3. writing = At(Used)
      BY <3>1, <3>2 DEF IInv, Ring
    <3> QED  BY <2>1, <2>3, <3>1, <3>2, <3>3, AtIs
  <2>5. reading # -1 => Frame.count > 0
    <3>1. SUFFICES ASSUME reading # -1 PROVE cache[first].count > 0
      BY <2>3 DEF Frame
    <3>2. 0 \in 0..Held - 1 /\ At(0) = first
      BY <2>1, <2>3, <3>1, AtIs
    <3> QED  BY <3>2 DEF IInv, Times
  <2> QED  BY <2>2, <2>4, <2>5 DEF FrameIntact, IInv, GraphicsTypes, OutputTypes
<1> QED  BY <1>1, InitInv, Inductive, PTL DEF Spec

(* A picture that is passed on has the time of the second tick after its   *)
(* own: render, output and copy textures each lag a tick behind the other, *)
(* and vframe_info_buffer one behind them, but for an info that was left   *)
(* in it by each surface that could not be mapped.                         *)
THEOREM LagKept == Spec => []PictureLag
<1>1. IInv => PictureLag
  <2> SUFFICES ASSUME IInv, reading # -1 PROVE Lags(cache[first])
    BY DEF IInv, Ring, PictureLag, Lags, Frame
  <2>1. 0 \in 0..Used - 1 /\ At(0) = first
    BY VideoConstants, AtIs DEF IInv, OutputTypes, Ring, Used
  <2> QED  BY <2>1 DEF IInv, Pictures
<1> QED  BY <1>1, InitInv, Inductive, PTL DEF Spec

(* The frames a video encoder is given follow one another in time, those   *)
(* that were skipped or late included, so that counting intervals from the *)
(* first gives each its time: a skipped frame lengthens the one before it  *)
(* and the output thread passes a frame on once for each interval.         *)
THEOREM VideoTimeKept == Spec => []VideoKeepsTime
<1>1. EInv => VideoKeepsTime
  BY DEF EInv, VideoTime
<1> QED  BY <1>1, InitInv, Inductive, PTL DEF Spec

(* The audio is encoded from the moment the video begins, sample after     *)
(* sample, whichever block that moment falls into and whenever the video's *)
(* first frame is known; after a beginning with buffered audio it is ahead *)
(* of its time by the one block that was left out, and by no more.         *)
THEOREM AudioTimeKept == Spec => []AudioKeepsTime
<1>1. EInv => AudioKeepsTime
  BY DEF EInv, AudioTime
<1> QED  BY <1>1, InitInv, Inductive, PTL DEF Spec
=============================================================================
