------------------------- MODULE AsyncSourceProofs --------------------------
(***************************************************************************)
(* For every number of frames and every pace of the surfaces: the counts   *)
(* of references are exact and no frame is in two uses, the frames shown   *)
(* are ever newer, and none waits for longer than a jump in time allows.   *)
(*                                                                         *)
(* Counting is made provable by saying which sets the frames are in: the   *)
(* cache and what it marks, the queue, and the hands of the two threads.   *)
(* Every operation on the cache is first reduced to what it does to these. *)
(***************************************************************************)
EXTENDS MCAsyncSource, SequenceTheorems, FiniteSetTheorems, WellFoundedInduction, TLAPS


(* A nonempty set of numbers has a least one.                              *)
LEMMA LeastIs ==
  ASSUME NEW S \in SUBSET Nat, S # {}
  PROVE  Min(S) \in S /\ \A n \in S : Min(S) <= n
<1>1. PICK m \in S : \A n \in S : ~(<<n, m>> \in OpToRel(<, Nat))
  BY NatLessThanWellFounded, WFMin
<1>2. \A n \in S : m <= n
  <2>1. TAKE n \in S
  <2>2. ~(n < m)
    BY <1>1 DEF OpToRel
  <2> QED  BY <2>2
<1> QED  BY <1>1, <1>2 DEF Min

-----------------------------------------------------------------------------
(* The frames as sets: of the cache, of what is marked used in it, of the  *)
(* queue, and those that a thread is about to use.                         *)

Entry == [frame : Frame, used : BOOLEAN, unused : 0..MaxUnused]
Waiting == [frame : Frame, ts : 1..MaxTime]

Distinct(s) == \A i, j \in 1..Len(s) : s[i].frame = s[j].frame => i = j
Marks(c) == {c[i].frame : i \in {j \in DOMAIN c : c[j].used}}
InQueue == {queue[i].frame : i \in DOMAIN queue}
InHand == {writing, cur, reading} \ {None}

(* A frame has one entry in the cache and one use at a time.               *)
Apart ==
  /\ Distinct(cache) /\ Distinct(queue)
  /\ InQueue \cap InHand = {} /\ leaked \cap (InQueue \cup InHand) = {}
  /\ writing # None => writing \notin {cur, reading}
  /\ cur # None => reading = None

(* The cache knows what is in use, and keeps it but for what is read.      *)
Marked ==
  /\ Marks(cache) = Cached(cache) \cap (InQueue \cup InHand \cup leaked)
  /\ InQueue \cup ({writing, cur} \ {None}) \subseteq Cached(cache)

One(b) == IF b THEN 1 ELSE 0
Hands(f, c, w, r, l) == One(f \in Cached(c)) + One(f = w) + One(f = r) + One(f \in l)
Counted == \A f \in Frame : refs[f] = Hands(f, cache, writing, reading, leaked)

(* The frames are queued in the order of their times, behind the one shown. *)
Ordered ==
  /\ \A i, j \in 1..Len(queue) : i < j => queue[i].ts < queue[j].ts
  /\ \A i \in 1..Len(queue) : /\ shown < queue[i].ts /\ queue[i].ts <= written
                              /\ writing # None => queue[i].ts < written
  /\ shown \in Nat /\ (shown # 0 => shown <= written)
  /\ writing # None => shown < written /\ written > 0 /\ written <= MaxTime

IInv == TypeOK /\ Apart /\ Marked /\ Counted /\ Ordered

-----------------------------------------------------------------------------
(* What the operators on the cache do to these sets.                       *)

LEMMA UnusedIs ==
  ASSUME NEW c \in Seq(Entry), NEW frames, Distinct(c)
  PROVE  /\ Unused(c, frames) \in Seq(Entry) /\ Distinct(Unused(c, frames))
         /\ Cached(Unused(c, frames)) = Cached(c)
         /\ Marks(Unused(c, frames)) = Marks(c) \ frames
<1> DEFINE u == Unused(c, frames)
<1>1. /\ DOMAIN c = 1..Len(c) /\ Len(c) \in Nat
      /\ \A i \in 1..Len(c) : c[i] \in Entry
  OBVIOUS
<1>2. DOMAIN u = 1..Len(c) /\ \A i \in 1..Len(c) : /\ u[i] \in Entry /\ u[i].frame = c[i].frame
                        /\ (u[i].used <=> (c[i].used /\ c[i].frame \notin frames))
  BY <1>1 DEF Unused, Entry
<1>3. u \in Seq(Entry) /\ Len(u) = Len(c)
  <2>1. u = [i \in 1..Len(c) |-> u[i]]
    BY <1>1 DEF Unused
  <2> HIDE DEF u
  <2> QED  BY <1>1, <1>2, <2>1
<1> HIDE DEF u
<1>4. Distinct(u)
  BY <1>1, <1>2, <1>3 DEF Distinct
<1>5. Cached(u) = Cached(c)
  BY <1>1, <1>2 DEF Cached
<1>6. Marks(u) = Marks(c) \ frames
  BY <1>1, <1>2 DEF Marks
<1> QED  BY <1>3, <1>4, <1>5, <1>6 DEF u

(* The first entry that is free.                                           *)
FirstFree(c) == SelectInSeq(c, LAMBDA a : ~a.used)

LEMMA FirstFreeIs ==
  ASSUME NEW c \in Seq(Entry)
  PROVE  /\ (\A i \in DOMAIN c : c[i].used) => FirstFree(c) = 0
         /\ (\E i \in DOMAIN c : ~c[i].used) =>
              FirstFree(c) \in 1..Len(c) /\ ~c[FirstFree(c)].used
<1> DEFINE I == {i \in 1..Len(c) : ~c[i].used}
<1>1. FirstFree(c) = IF I # {} THEN Min(I) ELSE 0
  BY DEF FirstFree, SelectInSeq
<1>2. I \subseteq Nat /\ DOMAIN c = 1..Len(c)
  OBVIOUS
<1>3. CASE I = {}
  BY <1>1, <1>2, <1>3
<1>4. CASE I # {}
  <2>1. Min(I) \in I
    BY <1>2, <1>4, LeastIs
  <2> QED  BY <1>1, <1>2, <1>4, <2>1
<1> QED  BY <1>3, <1>4

LEMMA ReusedIs ==
  ASSUME NEW c \in Seq(Entry), Distinct(c), \E i \in DOMAIN c : ~c[i].used
  PROVE  /\ Reused(c) \in Seq(Entry) /\ Distinct(Reused(c)) /\ Cached(Reused(c)) = Cached(c)
         /\ c[FirstFree(c)].frame \in Cached(c) \ Marks(c)
         /\ Marks(Reused(c)) = Marks(c) \cup {c[FirstFree(c)].frame}
<1> DEFINE k == FirstFree(c)
           u == Reused(c)
<1>1. /\ DOMAIN c = 1..Len(c) /\ Len(c) \in Nat
      /\ \A i \in 1..Len(c) : c[i] \in Entry
  OBVIOUS
<1>2. k \in 1..Len(c) /\ ~c[k].used
  BY FirstFreeIs
<1>3. u = [c EXCEPT ![k].used = TRUE, ![k].unused = 0]
  BY <1>2 DEF Reused, FirstFree
<1> HIDE DEF k
<1>4. /\ DOMAIN u = 1..Len(c) /\ u \in Seq(Entry) /\ Len(u) = Len(c)
      /\ \A i \in 1..Len(c) : u[i].frame = c[i].frame /\ (u[i].used <=> (c[i].used \/ i = k))
  <2> DEFINE e == [c[k] EXCEPT !.used = TRUE, !.unused = 0]
  <2>1. e \in Entry /\ e.frame = c[k].frame /\ e.used = TRUE
    <3>1. 0 \in 0..MaxUnused
      BY SourceConstants
    <3>2. c[k] \in Entry
      BY <1>1, <1>2
    <3> QED  BY <3>1, <3>2 DEF Entry
  <2>2. u = [c EXCEPT ![k] = e]
    BY <1>1, <1>2, <1>3
  <2> HIDE DEF e, u
  <2>3. u \in Seq(Entry) /\ Len(u) = Len(c) /\ DOMAIN u = 1..Len(c)
    BY <1>1, <1>2, <2>1, <2>2
  <2>4. \A i \in 1..Len(c) : u[i] = IF i = k THEN e ELSE c[i]
    BY <1>1, <1>2, <2>2
  <2> QED  BY <1>1, <2>1, <2>3, <2>4
<1> HIDE DEF u
<1>5. Distinct(u)
  BY <1>4 DEF Distinct
<1>6. Cached(u) = Cached(c)
  BY <1>1, <1>4 DEF Cached
<1>7. Marks(u) = Marks(c) \cup {c[k].frame}
  BY <1>1, <1>2, <1>4 DEF Marks
<1>8. c[k].frame \in Cached(c) \ Marks(c)
  <2>1. c[k].frame \in Cached(c)
    BY <1>1, <1>2 DEF Cached
  <2>2. ASSUME c[k].frame \in Marks(c)  PROVE FALSE
    BY <1>1, <1>2, <2>2 DEF Marks, Distinct
  <2> QED  BY <2>1, <2>2
<1> QED  BY <1>4, <1>5, <1>6, <1>7, <1>8 DEF k, u

(* clean_cache, entry after entry.                                         *)
Keeping(c, m) == CHOOSE g : g =
  [n \in 0..m |->
    IF n = 0 THEN <<>>
    ELSE IF c[n].used \/ c[n].unused + 1 < MaxUnused THEN Append(g[n - 1], Aged(c[n]))
    ELSE g[n - 1]]

LEMMA KeepingIs ==
  ASSUME NEW c, NEW m \in Nat
  PROVE  Keeping(c, m) =
           [n \in 0..m |->
             IF n = 0 THEN <<>>
             ELSE IF c[n].used \/ c[n].unused + 1 < MaxUnused THEN Append(Keeping(c, m)[n - 1], Aged(c[n]))
             ELSE Keeping(c, m)[n - 1]]
<1> DEFINE Then(k, n) == IF c[n].used \/ c[n].unused + 1 < MaxUnused THEN Append(k, Aged(c[n])) ELSE k
           Is(g, l) == g = [n \in 0..l |-> IF n = 0 THEN <<>> ELSE Then(g[n - 1], n)]
           S == {l \in Nat : ~ \E g : Is(g, l)}
<1>0. SUFFICES \E g : Is(g, m)
  BY DEF Keeping
<1> HIDE DEF Then
<1>1. S = {}
  <2>1. SUFFICES ASSUME S # {}
                 PROVE  FALSE
    OBVIOUS
  <2> DEFINE l == Min(S)
  <2> HIDE DEF l
  <2>2. l \in S /\ \A n \in S : l <= n
    BY <2>1, LeastIs DEF l
  <2>3. l \in Nat /\ ~ \E g : Is(g, l)
    BY <2>2
  <2> HIDE DEF S
  <2>4. CASE l = 0
    <3> DEFINE g == [n \in 0..0 |-> <<>>]
    <3>1. Is(g, 0)
      OBVIOUS
    <3> QED  BY <2>3, <2>4, <3>1
  <2>5. CASE l # 0
    <3>1. l - 1 \in Nat /\ l - 1 \notin S
      BY <2>2, <2>3, <2>5
    <3>2. PICK f : Is(f, l - 1)
      BY <3>1 DEF S
    <3> DEFINE g == [n \in 0..l |-> IF n = l THEN Then(f[l - 1], l) ELSE f[n]]
    <3>3. ASSUME NEW n \in 0..l
          PROVE  g[n] = IF n = 0 THEN <<>> ELSE Then(g[n - 1], n)
      <4>1. CASE n = 0
        BY <2>3, <2>5, <3>2, <4>1
      <4>2. CASE n # 0
        <5>1. n - 1 \in 0..l /\ n - 1 # l /\ g[n - 1] = f[n - 1]
          BY <2>3, <4>2
        <5>2. CASE n = l
          BY <5>1, <5>2, <4>2
        <5>3. CASE n # l
          <6>1. n \in 0..l - 1
            BY <2>3, <5>3
          <6>2. f[n] = Then(f[n - 1], n)
            BY <3>2, <4>2, <6>1
          <6> QED  BY <4>2, <5>1, <5>3, <6>2
        <5> QED  BY <5>2, <5>3
      <4> QED  BY <4>1, <4>2
    <3>4. Is(g, l)
      BY <3>3
    <3> QED  BY <2>3, <3>4
  <2> QED  BY <2>4, <2>5
<1> QED  BY <1>1

(* What is kept of the first n entries.                                    *)
Kept(c, n, k) ==
  /\ k \in Seq(Entry) /\ Distinct(k)
  /\ \A j \in 1..Len(k) : \E i \in 1..n : k[j].frame = c[i].frame /\ (k[j].used <=> c[i].used)
  /\ \A i \in 1..n : c[i].used => \E j \in 1..Len(k) : k[j].frame = c[i].frame /\ k[j].used

LEMMA NextKept ==
  ASSUME NEW c \in Seq(Entry), Distinct(c), NEW n \in 1..Len(c), NEW k, Kept(c, n - 1, k)
  PROVE  Kept(c, n, IF c[n].used \/ c[n].unused + 1 < MaxUnused THEN Append(k, Aged(c[n])) ELSE k)
<1>1. Len(c) \in Nat /\ n \in Nat /\ n >= 1 /\ n <= Len(c) /\ c[n] \in Entry
  OBVIOUS
<1>2. k \in Seq(Entry) /\ Len(k) \in Nat
  BY DEF Kept
<1>3. \A i \in 1..n : i = n \/ i \in 1..n - 1
  BY <1>1
<1>4. \A i \in 1..n - 1 : i \in 1..n /\ i # n
  BY <1>1
<1>5. CASE c[n].used \/ c[n].unused + 1 < MaxUnused
  <2> DEFINE a == Aged(c[n])
             r == Append(k, a)
  <2>1. a \in Entry /\ a.frame = c[n].frame /\ (a.used <=> c[n].used)
    <3>1. CASE c[n].used
      BY <1>1, <3>1 DEF Aged
    <3>2. CASE ~c[n].used
      <4>1. a = [c[n] EXCEPT !.unused = @ + 1]
        BY <3>2 DEF Aged
      <4>2. c[n].unused \in 0..MaxUnused /\ c[n].unused + 1 < MaxUnused
        BY <1>1, <1>5, <3>2 DEF Entry
      <4>3. c[n].unused + 1 \in 0..MaxUnused
        BY <4>2, SourceConstants
      <4> QED  BY <1>1, <4>1, <4>3 DEF Entry
    <3> QED  BY <3>1, <3>2
  <2> HIDE DEF a
  <2>2. /\ r \in Seq(Entry) /\ Len(r) = Len(k) + 1 /\ r[Len(k) + 1] = a
        /\ \A j \in 1..Len(k) : r[j] = k[j]
        /\ \A j \in 1..Len(k) + 1 : j = Len(k) + 1 \/ j \in 1..Len(k)
        /\ \A j \in 1..Len(k) : j \in 1..Len(k) + 1 /\ j # Len(k) + 1
    BY <1>2, <2>1
  <2>3. Len(k) + 1 \in 1..Len(k) + 1
    BY <1>2
  <2> HIDE DEF r
  <2>4. \A j \in 1..Len(k) : k[j].frame # a.frame
    <3>1. TAKE j \in 1..Len(k)
    <3>2. PICK i \in 1..n - 1 : k[j].frame = c[i].frame
      BY DEF Kept
    <3>3. i \in 1..Len(c) /\ n \in 1..Len(c) /\ i # n
      BY <1>1
    <3> QED  BY <2>1, <3>2, <3>3 DEF Distinct
  <2>5. Distinct(r)
    <3>1. SUFFICES ASSUME NEW i \in 1..Len(k) + 1, NEW j \in 1..Len(k) + 1, r[i].frame = r[j].frame
                   PROVE  i = j
      BY <2>2 DEF Distinct
    <3>2. CASE i \in 1..Len(k) /\ j \in 1..Len(k)
      BY <2>2, <3>1, <3>2 DEF Distinct, Kept
    <3> QED  BY <2>2, <2>4, <3>1, <3>2
  <2>6. \A j \in 1..Len(r) : \E i \in 1..n : r[j].frame = c[i].frame /\ (r[j].used <=> c[i].used)
    BY <1>1, <1>4, <2>1, <2>2 DEF Kept
  <2>7. \A i \in 1..n : c[i].used => \E j \in 1..Len(r) : r[j].frame = c[i].frame /\ r[j].used
    BY <1>3, <2>1, <2>2, <2>3 DEF Kept
  <2> QED  BY <1>5, <2>2, <2>5, <2>6, <2>7 DEF Kept, r, a
<1>6. CASE ~(c[n].used \/ c[n].unused + 1 < MaxUnused)
  <2>1. \A j \in 1..Len(k) : \E i \in 1..n : k[j].frame = c[i].frame /\ (k[j].used <=> c[i].used)
    BY <1>4 DEF Kept
  <2>2. \A i \in 1..n : c[i].used => \E j \in 1..Len(k) : k[j].frame = c[i].frame /\ k[j].used
    BY <1>3, <1>6 DEF Kept
  <2> QED  BY <1>6, <2>1, <2>2 DEF Kept
<1> QED  BY <1>5, <1>6

LEMMA CleanedIs ==
  ASSUME NEW c \in Seq(Entry), Distinct(c)
  PROVE  /\ Cleaned(c) \in Seq(Entry) /\ Distinct(Cleaned(c))
         /\ Cached(Cleaned(c)) \subseteq Cached(c)
         /\ Marks(Cleaned(c)) = Marks(c) /\ Marks(c) \subseteq Cached(Cleaned(c))
<1> DEFINE s == Keeping(c, Len(c))
<1>1. Len(c) \in Nat /\ DOMAIN c = 1..Len(c)
  OBVIOUS
<1>2. Cleaned(c) = s[Len(c)]
  BY DEF Cleaned, Keeping
<1>3. s = [n \in 0..Len(c) |->
             IF n = 0 THEN <<>>
             ELSE IF c[n].used \/ c[n].unused + 1 < MaxUnused THEN Append(s[n - 1], Aged(c[n]))
             ELSE s[n - 1]]
  BY <1>1, KeepingIs
<1> HIDE DEF s
<1> DEFINE S == {n \in Nat : n <= Len(c) /\ ~Kept(c, n, s[n])}
<1>4. S = {}
  <2>1. SUFFICES ASSUME S # {}
                 PROVE  FALSE
    OBVIOUS
  <2> DEFINE l == Min(S)
  <2> HIDE DEF l
  <2>2. l \in S /\ \A n \in S : l <= n
    BY <2>1, LeastIs DEF l
  <2>3. l \in 0..Len(c) /\ ~Kept(c, l, s[l])
    BY <1>1, <2>2
  <2>4. CASE l = 0
    <3>1. s[0] = <<>>
      BY <1>1, <1>3
    <3>2. Kept(c, 0, <<>>)
      BY DEF Kept, Distinct
    <3> QED  BY <2>3, <2>4, <3>1, <3>2
  <2>5. CASE l # 0
    <3>1. l - 1 \in Nat /\ l - 1 <= Len(c) /\ l - 1 \notin S /\ l \in 1..Len(c)
      BY <1>1, <2>2, <2>3, <2>5
    <3>2. Kept(c, l - 1, s[l - 1])
      BY <3>1
    <3>3. s[l] = IF c[l].used \/ c[l].unused + 1 < MaxUnused THEN Append(s[l - 1], Aged(c[l])) ELSE s[l - 1]
      BY <1>3, <2>3, <2>5
    <3> QED  BY <2>3, <3>1, <3>2, <3>3, NextKept
  <2> QED  BY <2>4, <2>5
<1>5. Kept(c, Len(c), s[Len(c)])
  BY <1>1, <1>4
<1> DEFINE k == s[Len(c)]
<1> HIDE DEF k, S
<1>6. Kept(c, Len(c), k) /\ k = Cleaned(c)
  BY <1>2, <1>5 DEF k
<1>7. k \in Seq(Entry) /\ Distinct(k) /\ DOMAIN k = 1..Len(k)
  BY <1>6 DEF Kept
<1>8. Cached(k) \subseteq Cached(c)
  BY <1>1, <1>6, <1>7 DEF Kept, Cached
<1>9. Marks(k) \subseteq Marks(c)
  <2>1. ASSUME NEW f \in Marks(k)
        PROVE  f \in Marks(c)
    <3>1. PICK j \in 1..Len(k) : k[j].used /\ f = k[j].frame
      BY <1>7 DEF Marks
    <3>2. PICK i \in 1..Len(c) : k[j].frame = c[i].frame /\ (k[j].used <=> c[i].used)
      BY <1>6 DEF Kept
    <3> QED  BY <1>1, <3>1, <3>2 DEF Marks
  <2> QED  BY <2>1
<1>10. Marks(c) \subseteq Marks(k)
  <2>1. ASSUME NEW f \in Marks(c)
        PROVE  f \in Marks(k)
    <3>1. PICK i \in 1..Len(c) : c[i].used /\ f = c[i].frame
      BY <1>1 DEF Marks
    <3>2. PICK j \in 1..Len(k) : k[j].frame = c[i].frame /\ k[j].used
      BY <1>6, <3>1 DEF Kept
    <3> QED  BY <1>7, <3>1, <3>2 DEF Marks
  <2> QED  BY <2>1
<1>11. Marks(k) \subseteq Cached(k)
  BY DEF Marks, Cached
<1> QED  BY <1>6, <1>7, <1>8, <1>9, <1>10, <1>11

(* What a frame is taken for: one that is not in use, or a new one.        *)
LEMMA TakeGives ==
  ASSUME NEW c \in Seq(Entry), Distinct(c), NEW r \in [Frame -> Nat],
         \A f \in Cached(c) : r[f] # 0, Take(c, r)
  PROVE  /\ cache' \in Seq(Entry) /\ Distinct(cache')
         /\ writing' \in Frame /\ writing' \notin Marks(c) /\ writing' \in Cached(cache')
         /\ writing' \in Cached(c) \/ r[writing'] = 0
         /\ Marks(cache') = Marks(c) \cup {writing'}
         /\ Cached(cache') \subseteq Cached(c) \cup {writing'} /\ Marks(c) \subseteq Cached(cache')
         /\ refs' = [f \in Frame |->
              IF f = writing' THEN IF f \in Cached(c) THEN r[f] + 1 ELSE 2
              ELSE IF f \in Cached(c) \ Cached(cache') THEN 0 ELSE r[f]]
<1> DEFINE kept == Cleaned(Reused(c))
           alive == [f \in Frame |-> IF f \in Cached(c) \ Cached(kept) THEN 0 ELSE r[f]]
<1>1. DOMAIN c = 1..Len(c) /\ Len(c) \in Nat /\ \A i \in 1..Len(c) : c[i] \in Entry
  OBVIOUS
<1>2. Cached(c) \subseteq Frame /\ Marks(c) \subseteq Cached(c)
  BY <1>1 DEF Cached, Marks, Entry
<1>3. CASE \E i \in DOMAIN c : ~c[i].used
  <2> DEFINE w == c[FirstFree(c)].frame
  <2>1. /\ Reused(c) \in Seq(Entry) /\ Distinct(Reused(c)) /\ Cached(Reused(c)) = Cached(c)
        /\ w \in Cached(c) \ Marks(c) /\ Marks(Reused(c)) = Marks(c) \cup {w}
    BY <1>3, ReusedIs
  <2>2. cache' = kept /\ writing' = w /\ refs' = [alive EXCEPT ![w] = @ + 1]
    BY <1>3 DEF Take, FirstFree
  <2> HIDE DEF w
  <2>3. /\ kept \in Seq(Entry) /\ Distinct(kept) /\ Cached(kept) \subseteq Cached(c)
        /\ Marks(kept) = Marks(c) \cup {w} /\ Marks(c) \cup {w} \subseteq Cached(kept)
    BY <2>1, CleanedIs
  <2> HIDE DEF kept
  <2>4. refs' = [f \in Frame |->
              IF f = w THEN IF f \in Cached(c) THEN r[f] + 1 ELSE 2
              ELSE IF f \in Cached(c) \ Cached(kept) THEN 0 ELSE r[f]]
    <3>1. alive[w] = r[w]
      BY <1>2, <2>1, <2>3
    <3> QED  BY <1>2, <2>1, <2>2, <3>1
  <2> QED  BY <1>2, <2>1, <2>2, <2>3, <2>4
<1>4. CASE \A i \in DOMAIN c : c[i].used
  <2> DEFINE w == CHOOSE f \in Frame : r[f] = 0
             e == [frame |-> w, used |-> TRUE, unused |-> 0]
  <2>1. /\ \E g \in Frame : r[g] = 0
        /\ cache' = Append(kept, e) /\ writing' = w /\ refs' = [alive EXCEPT ![w] = 2]
    BY <1>4 DEF Take
  <2>2. w \in Frame /\ r[w] = 0
    BY <2>1
  <2> HIDE DEF w
  <2>3. Reused(c) = c
    <3>1. FirstFree(c) = 0
      BY <1>4, FirstFreeIs
    <3> QED  BY <3>1 DEF Reused, FirstFree
  <2>4. /\ kept \in Seq(Entry) /\ Distinct(kept) /\ Cached(kept) \subseteq Cached(c)
        /\ Marks(kept) = Marks(c) /\ Marks(c) \subseteq Cached(kept)
    BY <2>3, CleanedIs
  <2> HIDE DEF kept
  <2>5. w \notin Cached(c)
    BY <2>2
  <2>6. e \in Entry
    BY <2>2, SourceConstants DEF Entry
  <2>7. /\ cache' \in Seq(Entry) /\ Len(kept) \in Nat /\ Len(cache') = Len(kept) + 1
        /\ DOMAIN kept = 1..Len(kept) /\ DOMAIN cache' = 1..Len(kept) + 1
        /\ cache'[Len(kept) + 1] = e /\ \A j \in 1..Len(kept) : cache'[j] = kept[j]
    BY <2>1, <2>4, <2>6
  <2>8. /\ \A j \in 1..Len(kept) + 1 : j = Len(kept) + 1 \/ j \in 1..Len(kept)
        /\ \A j \in 1..Len(kept) : j \in 1..Len(kept) + 1 /\ j # Len(kept) + 1
        /\ Len(kept) + 1 \in 1..Len(kept) + 1
    BY <2>7
  <2> HIDE DEF e
  <2>9. e.frame = w /\ e.used
    BY DEF e
  <2>10. Cached(cache') = Cached(kept) \cup {w}
    BY <2>7, <2>8, <2>9 DEF Cached
  <2>11. Marks(cache') = Marks(kept) \cup {w}
    BY <2>7, <2>8, <2>9 DEF Marks
  <2>12. Distinct(cache')
    <3>1. \A j \in 1..Len(kept) : kept[j].frame # w
      BY <2>4, <2>5, <2>7 DEF Cached
    <3> QED  BY <2>4, <2>7, <2>8, <2>9, <3>1 DEF Distinct
  <2>13. refs' = [f \in Frame |->
              IF f = w THEN IF f \in Cached(c) THEN r[f] + 1 ELSE 2
              ELSE IF f \in Cached(c) \ Cached(cache') THEN 0 ELSE r[f]]
    BY <2>1, <2>2, <2>5, <2>10
  <2> QED  BY <1>2, <2>1, <2>2, <2>4, <2>5, <2>7, <2>10, <2>11, <2>12, <2>13
<1> QED  BY <1>3, <1>4

-----------------------------------------------------------------------------
(* The steps.                                                              *)

LEMMA SetsAre ==
  ASSUME TypeOK
  PROVE  /\ DOMAIN cache = 1..Len(cache) /\ Len(cache) \in Nat /\ cache \in Seq(Entry)
         /\ DOMAIN queue = 1..Len(queue) /\ Len(queue) \in Nat /\ queue \in Seq(Waiting)
         /\ \A i \in 1..Len(queue) : queue[i] \in Waiting /\ queue[i].frame \in Frame
         /\ Cached(cache) \subseteq Frame /\ Marks(cache) \subseteq Cached(cache)
         /\ InQueue \subseteq Frame /\ InHand \subseteq Frame
         /\ None \notin Frame /\ refs \in [Frame -> Nat]
<1>1. /\ DOMAIN cache = 1..Len(cache) /\ Len(cache) \in Nat /\ cache \in Seq(Entry)
      /\ DOMAIN queue = 1..Len(queue) /\ Len(queue) \in Nat /\ queue \in Seq(Waiting)
  BY DEF TypeOK, Entry, Waiting
<1>2. /\ \A i \in 1..Len(queue) : queue[i] \in Waiting /\ queue[i].frame \in Frame
      /\ \A i \in 1..Len(cache) : cache[i].frame \in Frame
  <2>1. /\ \A i \in 1..Len(queue) : queue[i] \in Waiting
        /\ \A i \in 1..Len(cache) : cache[i] \in Entry
    BY <1>1
  <2> QED  BY <2>1 DEF Waiting, Entry
<1>3. None \notin Frame
  BY SourceConstants
<1>4. refs \in [Frame -> Nat]
  BY DEF TypeOK
<1> QED  BY <1>1, <1>2, <1>3, <1>4 DEF Cached, Marks, InQueue, InHand, TypeOK

LEMMA HandsAre ==
  ASSUME NEW f, NEW c, NEW w, NEW r, NEW l, f = w => f # r, f \in {w, r} => f \notin l
  PROVE  Hands(f, c, w, r, l) \in 0..2
<1> QED  BY DEF Hands, One

LEMMA OverflowStep ==
  ASSUME IInv, Overflow, writing = None, now - written > Gap, written' = now,
         UNCHANGED <<now, reading, sys, shown, leaked>>
  PROVE  IInv'
<1>1. TypeOK /\ Apart /\ Marked /\ Counted /\ Ordered
  BY DEF IInv
<1>2. /\ refs' = Released(cache) /\ cache' = <<>> /\ queue' = <<>> /\ cur' = None /\ last' = 0
      /\ UNCHANGED <<size, writing>>
  BY DEF Overflow
<1>3. /\ Cached(cache') = {} /\ Marks(cache') = {} /\ InQueue' = {} /\ InHand' = {reading} \ {None}
  BY <1>2 DEF Cached, Marks, InQueue, InHand
<1>4. Apart' /\ Marked'
  BY <1>1, <1>2, <1>3 DEF Apart, Marked, Distinct, InHand
<1>5. refs' = [f \in Frame |-> Hands(f, cache', writing', reading', leaked')]
  <2>1. ASSUME NEW f \in Frame
        PROVE  (IF f \in Cached(cache) THEN refs[f] - 1 ELSE refs[f]) = Hands(f, cache', writing', reading', leaked')
    BY <1>1, <1>2, <1>3 DEF Counted, Hands, One
  <2> QED  BY <1>2, <2>1 DEF Released
<1>6. Counted'
  BY <1>5 DEF Counted
<1>7. now \in 1..MaxTime /\ written \in Int /\ written < now /\ shown \in Nat /\ shown <= now
  BY <1>1, SourceConstants DEF TypeOK, Ordered
<1>8. Ordered'
  BY <1>1, <1>2, <1>7 DEF Ordered
<1>9. refs' \in [Frame -> 0..2]
  <2>1. \A f \in Frame : Hands(f, cache', writing', reading', leaked') \in 0..2
    <3>1. reading' \in Frame => reading' \notin leaked'
      BY <1>1, <1>2, SourceConstants DEF Apart, InHand
    <3>2. writing' \notin Frame
      BY <1>2, SourceConstants
    <3> QED  BY <3>1, <3>2, HandsAre
  <2> QED  BY <1>5, <2>1
<1>10. TypeOK'
  <2>1. now' \in 1..MaxTime /\ sys' \in 1..now' /\ last' \in Nat /\ written' \in -Gap..now'
    BY <1>1, <1>2, SourceConstants DEF TypeOK
  <2>2. cache' \in Seq(Entry) /\ queue' \in Seq(Waiting)
    BY <1>2
  <2> QED  BY <1>1, <1>2, <1>9, <2>1, <2>2 DEF TypeOK, Entry, Waiting
<1> QED  BY <1>4, <1>6, <1>8, <1>10 DEF IInv

LEMMA StoreStep ==
  ASSUME IInv, NEW s \in Size, Store(s), writing = None, now - written > Gap, written' = now,
         UNCHANGED <<now, reading, sys, shown, leaked>>
  PROVE  IInv'
<1>1. TypeOK /\ Apart /\ Marked /\ Counted /\ Ordered
  BY DEF IInv
<1>2. /\ DOMAIN queue = 1..Len(queue) /\ Len(queue) \in Nat /\ queue \in Seq(Waiting)
      /\ cache \in Seq(Entry) /\ Cached(cache) \subseteq Frame /\ None \notin Frame
      /\ refs \in [Frame -> Nat] /\ Marks(cache) \subseteq Cached(cache)
      /\ InQueue \subseteq Frame /\ InHand \subseteq Frame
  BY <1>1, SetsAre
<1>3. now \in 1..MaxTime /\ written \in Int /\ written < now /\ shown \in Nat /\ shown < now
  BY <1>1, SourceConstants DEF TypeOK, Ordered
<1> DEFINE w == writing'
<1>4. /\ w \in Frame /\ w \notin InQueue' \cup leaked /\ w # reading
      /\ Distinct(cache') /\ cache' \in Seq(Entry)
      /\ Marks(cache') = Cached(cache') \cap (InQueue' \cup InHand' \cup leaked)
      /\ InQueue' \cup ({w, cur'} \ {None}) \subseteq Cached(cache')
      /\ refs' = [f \in Frame |-> Hands(f, cache', w, reading, leaked)]
      /\ \/ queue' = queue /\ cur' = cur /\ w # cur
         \/ queue' = <<>> /\ cur' = None
  <2>1. CASE s = size
    <3>1. Take(cache, refs) /\ queue' = queue /\ cur' = cur
      BY <2>1 DEF Store
    <3>2. \A f \in Cached(cache) : refs[f] # 0
      BY <1>1, <1>2 DEF Counted, Hands, One
    <3>3. /\ cache' \in Seq(Entry) /\ Distinct(cache')
          /\ w \in Frame /\ w \notin Marks(cache) /\ w \in Cached(cache')
          /\ w \in Cached(cache) \/ refs[w] = 0
          /\ Marks(cache') = Marks(cache) \cup {w}
          /\ Cached(cache') \subseteq Cached(cache) \cup {w} /\ Marks(cache) \subseteq Cached(cache')
          /\ refs' = [f \in Frame |->
               IF f = w THEN IF f \in Cached(cache) THEN refs[f] + 1 ELSE 2
               ELSE IF f \in Cached(cache) \ Cached(cache') THEN 0 ELSE refs[f]]
      BY <1>1, <1>2, <3>1, <3>2, TakeGives DEF Apart
    <3>4. InQueue' = InQueue /\ InHand' = InHand \cup {w} /\ w # None
      BY <1>2, <3>1, <3>3 DEF InQueue, InHand
    <3>5. w \notin InQueue \cup InHand \cup leaked
      <4>1. CASE w \in Cached(cache)
        BY <1>1, <3>3, <4>1 DEF Marked
      <4>2. CASE w \notin Cached(cache)
        <5>1. refs[w] = 0
          BY <3>3, <4>2
        <5>2. w # reading /\ w \notin leaked
          BY <1>1, <3>3, <5>1 DEF Counted, Hands, One
        <5>3. w \notin InQueue /\ w # cur /\ w # writing
          BY <1>1, <1>2, <3>3, <4>2 DEF Marked
        <5> QED  BY <5>2, <5>3 DEF InHand
      <4> QED  BY <4>1, <4>2
    <3>6. w # cur /\ w # reading
      BY <3>3, <3>4, <3>5 DEF InHand
    <3>7. Marks(cache') = Cached(cache') \cap (InQueue' \cup InHand' \cup leaked)
      BY <1>1, <3>3, <3>4 DEF Marked
    <3>8. InQueue' \cup ({w, cur'} \ {None}) \subseteq Cached(cache')
      <4>1. InQueue \cup ({cur} \ {None}) \subseteq Marks(cache)
        BY <1>1, <1>2 DEF Marked, InHand
      <4> QED  BY <3>1, <3>3, <3>4, <4>1
    <3>9. ASSUME NEW f \in Frame
          PROVE  refs'[f] = Hands(f, cache', w, reading, leaked)
      <4>1. refs[f] = Hands(f, cache, writing, reading, leaked) /\ f # writing
        BY <1>1, <1>2 DEF Counted
      <4>2. CASE f = w
        <5>1. f # reading /\ f \notin leaked /\ f \in Cached(cache')
          BY <3>3, <3>5, <3>6, <4>2
        <5> QED  BY <3>3, <4>1, <4>2, <5>1 DEF Hands, One
      <4>3. CASE f # w /\ f \in Cached(cache) \ Cached(cache')
        <5>1. f \notin Marks(cache)
          BY <3>3, <4>3
        <5>2. f \notin leaked /\ f # reading
          BY <1>1, <1>2, <4>3, <5>1 DEF Marked, InHand
        <5> QED  BY <3>3, <4>3, <5>2 DEF Hands, One
      <4>4. CASE f # w /\ f \notin Cached(cache) \ Cached(cache')
        <5>1. f \in Cached(cache) <=> f \in Cached(cache')
          BY <3>3, <4>4
        <5> QED  BY <3>3, <4>1, <4>4, <5>1 DEF Hands, One
      <4> QED  BY <4>2, <4>3, <4>4
    <3>10. refs' = [f \in Frame |-> Hands(f, cache', w, reading, leaked)]
      BY <3>3, <3>9
    <3> QED  BY <3>1, <3>3, <3>4, <3>5, <3>6, <3>7, <3>8, <3>10
  <2>2. CASE s # size
    <3> DEFINE r == Released(cache)
    <3>1. Take(<<>>, r) /\ queue' = <<>> /\ cur' = None
      BY <2>2 DEF Store
    <3>2. /\ <<>> \in Seq(Entry) /\ Distinct(<<>>) /\ Cached(<<>>) = {} /\ Marks(<<>>) = {}
      BY DEF Distinct, Cached, Marks
    <3>3. \A f \in Frame : r[f] = One(f = reading) + One(f \in leaked)
      BY <1>1, <1>2 DEF Released, Counted, Hands, One
    <3>4. r \in [Frame -> Nat]
      BY <3>3 DEF Released, One
    <3> HIDE DEF r
    <3>5. /\ cache' \in Seq(Entry) /\ Distinct(cache') /\ w \in Frame /\ r[w] = 0
          /\ Marks(cache') = {w} /\ Cached(cache') = {w}
          /\ refs' = [f \in Frame |-> IF f = w THEN 2 ELSE r[f]]
      <4>1. /\ cache' \in Seq(Entry) /\ Distinct(cache')
            /\ w \in Frame /\ w \notin Marks(<<>>) /\ w \in Cached(cache')
            /\ w \in Cached(<<>>) \/ r[w] = 0
            /\ Marks(cache') = Marks(<<>>) \cup {w}
            /\ Cached(cache') \subseteq Cached(<<>>) \cup {w} /\ Marks(<<>>) \subseteq Cached(cache')
            /\ refs' = [f \in Frame |->
                 IF f = w THEN IF f \in Cached(<<>>) THEN r[f] + 1 ELSE 2
                 ELSE IF f \in Cached(<<>>) \ Cached(cache') THEN 0 ELSE r[f]]
        BY <3>1, <3>2, <3>4, TakeGives
      <4> QED  BY <3>2, <4>1
    <3>6. w # reading /\ w \notin leaked /\ w # None
      BY <1>2, <3>3, <3>5 DEF One
    <3>7. InQueue' = {} /\ InHand' = {w, reading} \ {None}
      BY <3>1 DEF InQueue, InHand
    <3>8. Marks(cache') = Cached(cache') \cap (InQueue' \cup InHand' \cup leaked)
      BY <3>5, <3>6, <3>7
    <3>9. InQueue' \cup ({w, cur'} \ {None}) \subseteq Cached(cache')
      BY <3>1, <3>5, <3>7
    <3>10. ASSUME NEW f \in Frame
           PROVE  refs'[f] = Hands(f, cache', w, reading, leaked)
      BY <3>3, <3>5, <3>6 DEF Hands, One
    <3>11. refs' = [f \in Frame |-> Hands(f, cache', w, reading, leaked)]
      BY <3>5, <3>10
    <3> QED  BY <3>1, <3>5, <3>6, <3>7, <3>8, <3>9, <3>11
  <2> QED  BY <2>1, <2>2
<1>5. InHand' = {w, cur', reading} \ {None} /\ (queue' = queue => InQueue' = InQueue) /\ (queue' = <<>> => InQueue' = {})
  BY DEF InHand, InQueue
<1> HIDE DEF w
<1>6. Apart'
  <2>1. Distinct(queue')
    BY <1>1, <1>4 DEF Apart, Distinct
  <2>2. w # None /\ w # cur'
    BY <1>2, <1>4
  <2>3. cur' # None => reading = None
    BY <1>1, <1>4 DEF Apart
  <2>4. InQueue' \cap InHand' = {} /\ leaked \cap (InQueue' \cup InHand') = {}
    BY <1>1, <1>4, <1>5 DEF Apart, InHand
  <2> QED  BY <1>4, <2>1, <2>2, <2>3, <2>4 DEF Apart, w
<1>7. Marked'
  BY <1>4 DEF Marked, w
<1>8. Counted'
  BY <1>4 DEF Counted, w
<1>9. Ordered'
  <2>1. CASE queue' = queue
    <3>1. \A i \in 1..Len(queue) : queue[i].ts \in Int /\ queue[i].ts < now
      <4>1. \A i \in 1..Len(queue) : queue[i] \in Waiting
        BY <1>2
      <4> QED  BY <1>1, <1>3, <4>1 DEF Ordered, Waiting
    <3> QED  BY <1>1, <1>3, <2>1, <3>1 DEF Ordered
  <2>2. CASE queue' = <<>>
    BY <1>1, <1>3, <2>2 DEF Ordered
  <2> QED  BY <1>4, <2>1, <2>2
<1>10. refs' \in [Frame -> 0..2]
  <2>1. \A f \in Frame : Hands(f, cache', w, reading, leaked) \in 0..2
    <3>1. reading \in Frame => reading \notin leaked
      BY <1>1, <1>2 DEF Apart, InHand
    <3>2. w \in Frame /\ w \notin leaked /\ w # reading
      BY <1>4
    <3> QED  BY <3>1, <3>2, HandsAre
  <2>2. refs' = [f \in Frame |-> Hands(f, cache', w, reading, leaked)]
    BY <1>4
  <2> QED  BY <2>1, <2>2
<1>11. TypeOK'
  <2>1. now' \in 1..MaxTime /\ sys' \in 1..now' /\ last' \in Nat /\ written' \in -Gap..now' /\ size' \in Size
    <3>1. size' = s /\ last' = last
      BY DEF Store
    <3>2. now \in 1..MaxTime /\ sys \in 1..now /\ last \in Nat
      BY <1>1 DEF TypeOK
    <3>3. now \in -Gap..now
      BY <3>2, SourceConstants
    <3> QED  BY <3>1, <3>2, <3>3
  <2>2. queue' \in Seq(Waiting) /\ {w, cur', reading} \subseteq Frame \cup {None}
    <3>1. {cur, reading} \subseteq Frame \cup {None}
      BY <1>1 DEF TypeOK
    <3>2. <<>> \in Seq(Waiting)
      OBVIOUS
    <3> QED  BY <1>2, <1>4, <3>1, <3>2
  <2> QED  BY <1>1, <1>4, <1>10, <2>1, <2>2 DEF TypeOK, Entry, Waiting, w
<1> QED  BY <1>6, <1>7, <1>8, <1>9, <1>11 DEF IInv

LEMMA PushStep ==
  ASSUME IInv, Push
  PROVE  IInv'
<1>1. TypeOK /\ Apart /\ Marked /\ Counted /\ Ordered
  BY DEF IInv
<1>2. /\ DOMAIN queue = 1..Len(queue) /\ Len(queue) \in Nat /\ queue \in Seq(Waiting)
      /\ cache \in Seq(Entry) /\ None \notin Frame /\ refs \in [Frame -> Nat]
      /\ InQueue \subseteq Frame /\ InHand \subseteq Frame
  BY <1>1, SetsAre
<1> DEFINE w == writing
           e == [frame |-> w, ts |-> written]
<1>3. /\ w # None /\ w \in Frame /\ refs' = [refs EXCEPT ![w] = @ - 1] /\ writing' = None
      /\ UNCHANGED <<now, written, size, cache, cur, reading, last, sys, shown, leaked>>
  BY <1>1 DEF Push, TypeOK, graphics
<1>4. w \in Cached(cache) /\ w # reading /\ w \notin leaked /\ w # cur /\ w \notin InQueue
  BY <1>1, <1>3 DEF Marked, Apart, InHand
<1>5. refs[w] = 2
  BY <1>1, <1>3, <1>4 DEF Counted, Hands, One
<1>6. queue' = Append(queue, e)
  BY <1>5 DEF Push, Queued
<1>7. e \in Waiting
  <2>1. written \in 1..MaxTime
    BY <1>1, <1>3, SourceConstants DEF TypeOK, Ordered
  <2> QED  BY <1>3, <2>1 DEF Waiting
<1>8. /\ queue' \in Seq(Waiting) /\ Len(queue') = Len(queue) + 1 /\ DOMAIN queue' = 1..Len(queue) + 1
      /\ queue'[Len(queue) + 1] = e /\ \A j \in 1..Len(queue) : queue'[j] = queue[j]
  BY <1>2, <1>6, <1>7
<1>9. /\ \A j \in 1..Len(queue) + 1 : j = Len(queue) + 1 \/ j \in 1..Len(queue)
      /\ \A j \in 1..Len(queue) : j \in 1..Len(queue) + 1 /\ j # Len(queue) + 1
      /\ Len(queue) + 1 \in 1..Len(queue) + 1 /\ e.frame = w /\ e.ts = written
  BY <1>2
<1> HIDE DEF e
<1>10. InQueue' = InQueue \cup {w}
  BY <1>2, <1>8, <1>9 DEF InQueue
<1>11. InHand = InHand' \cup {w} /\ w \notin InHand'
  BY <1>3, <1>4 DEF InHand
<1>12. Distinct(queue')
  <2>1. \A j \in 1..Len(queue) : queue[j].frame # w
    BY <1>2, <1>4 DEF InQueue
  <2> QED  BY <1>1, <1>8, <1>9, <2>1 DEF Distinct, Apart
<1>13. Apart'
  <2>1. InQueue' \cap InHand' = {} /\ leaked \cap (InQueue' \cup InHand') = {}
    BY <1>1, <1>4, <1>10, <1>11 DEF Apart
  <2> QED  BY <1>1, <1>3, <1>12, <2>1 DEF Apart
<1>14. Marked'
  BY <1>1, <1>3, <1>4, <1>10, <1>11 DEF Marked
<1>15. ASSUME NEW f \in Frame
       PROVE  refs'[f] = Hands(f, cache, None, reading, leaked)
  BY <1>1, <1>2, <1>3 DEF Counted, Hands, One
<1>16. refs' = [f \in Frame |-> Hands(f, cache, None, reading, leaked)]
  BY <1>2, <1>3, <1>15
<1>17. Counted'
  BY <1>3, <1>15 DEF Counted
<1>18. refs' \in [Frame -> 0..2]
  <2>1. \A f \in Frame : Hands(f, cache, None, reading, leaked) \in 0..2
    <3>1. reading \in Frame => reading \notin leaked
      BY <1>1, <1>2 DEF Apart, InHand
    <3> QED  BY <1>2, <3>1, HandsAre
  <2> QED  BY <1>16, <2>1
<1>19. Ordered'
  <2>1. \A i, j \in 1..Len(queue) + 1 : i < j => queue'[i].ts < queue'[j].ts
    <3>1. \A i \in 1..Len(queue) : queue[i].ts < written
      BY <1>1, <1>3 DEF Ordered
    <3>2. ASSUME NEW i \in 1..Len(queue) + 1, NEW j \in 1..Len(queue) + 1, i < j
          PROVE  queue'[i].ts < queue'[j].ts
      <4>1. i \in 1..Len(queue)
        BY <1>2, <3>2
      <4> QED  BY <1>1, <1>8, <1>9, <3>1, <3>2, <4>1 DEF Ordered
    <3> QED  BY <3>2
  <2>2. \A i \in 1..Len(queue) + 1 : shown < queue'[i].ts /\ queue'[i].ts <= written
    <3>1. written \in Int
      BY <1>1, SourceConstants DEF TypeOK
    <3> QED  BY <1>1, <1>3, <1>8, <1>9, <3>1 DEF Ordered
  <2> QED  BY <1>1, <1>3, <1>8, <2>1, <2>2 DEF Ordered
<1>20. TypeOK'
  BY <1>1, <1>2, <1>3, <1>8, <1>18 DEF TypeOK, Waiting
<1> QED  BY <1>13, <1>14, <1>17, <1>19, <1>20 DEF IInv

-----------------------------------------------------------------------------
(* The tick of the graphics thread.                                        *)

LEMMA IntervalsAre ==
  ASSUME NEW a \in Nat, NEW b \in Nat \ {0}
  PROVE  a \div b \in Nat /\ b * (a \div b) \in Nat /\ b * (a \div b) <= a
<1> QED  OBVIOUS

(* The loop over the queue, frame after frame.                             *)
Start(s) == [n |-> 0, last |-> Advanced(s), offset |-> Head(queue).ts - last, done |-> FALSE]
Passing(s, m) == CHOOSE g : g = [i \in 0..m |-> IF i = 0 THEN Start(s) ELSE Pass(g[i - 1], i)]

LEMMA PassingIs ==
  ASSUME NEW s, NEW m \in Nat
  PROVE  Passing(s, m) = [i \in 0..m |-> IF i = 0 THEN Start(s) ELSE Pass(Passing(s, m)[i - 1], i)]
<1> DEFINE Is(g, l) == g = [n \in 0..l |-> IF n = 0 THEN Start(s) ELSE Pass(g[n - 1], n)]
           S == {l \in Nat : ~ \E g : Is(g, l)}
<1>0. SUFFICES \E g : Is(g, m)
  BY DEF Passing
<1>1. S = {}
  <2>1. SUFFICES ASSUME S # {}
                 PROVE  FALSE
    OBVIOUS
  <2> DEFINE l == Min(S)
  <2> HIDE DEF l
  <2>2. l \in S /\ \A n \in S : l <= n
    BY <2>1, LeastIs DEF l
  <2>3. l \in Nat /\ ~ \E g : Is(g, l)
    BY <2>2
  <2> HIDE DEF S
  <2>4. CASE l = 0
    <3> DEFINE g == [n \in 0..0 |-> Start(s)]
    <3>1. Is(g, 0)
      OBVIOUS
    <3> QED  BY <2>3, <2>4, <3>1
  <2>5. CASE l # 0
    <3>1. l - 1 \in Nat /\ l - 1 \notin S
      BY <2>2, <2>3, <2>5
    <3>2. PICK f : Is(f, l - 1)
      BY <3>1 DEF S
    <3> DEFINE g == [n \in 0..l |-> IF n = l THEN Pass(f[l - 1], l) ELSE f[n]]
    <3>3. ASSUME NEW n \in 0..l
          PROVE  g[n] = IF n = 0 THEN Start(s) ELSE Pass(g[n - 1], n)
      <4>1. CASE n = 0
        BY <2>3, <2>5, <3>2, <4>1
      <4>2. CASE n # 0
        <5>1. n - 1 \in 0..l /\ n - 1 # l /\ g[n - 1] = f[n - 1]
          BY <2>3, <4>2
        <5>2. CASE n = l
          BY <5>1, <5>2, <4>2
        <5>3. CASE n # l
          <6>1. n \in 0..l - 1
            BY <2>3, <5>3
          <6>2. f[n] = Pass(f[n - 1], n)
            BY <3>2, <4>2, <6>1
          <6> QED  BY <4>2, <5>1, <5>3, <6>2
        <5> QED  BY <5>2, <5>3
      <4> QED  BY <4>1, <4>2
    <3>4. Is(g, l)
      BY <3>3
    <3> QED  BY <2>3, <3>4
  <2> QED  BY <2>4, <2>5
<1> QED  BY <1>1

(* The loop has looked at i frames: the source's time is no earlier than   *)
(* it was, and when the loop has stopped, not later than the next frame's. *)
Loop(s, i, a) ==
  /\ a \in [n : 0..i, last : Int, offset : Int, done : BOOLEAN]
  /\ a.last >= last /\ (s <= MaxVar + 1 => a.last >= last + s)
  /\ a.done => a.n < Len(queue) /\ a.last - queue[a.n + 1].ts < Smooth
  /\ ~a.done => /\ a.n = i
                /\ i = 0 => a.last = last + s /\ a.offset = queue[1].ts - last
                /\ 0 < i /\ i < Len(queue) => a.offset = queue[i + 1].ts - a.last

LEMMA TimesAre ==
  ASSUME TypeOK, Ordered
  PROVE  /\ Len(queue) \in Nat /\ last \in Nat /\ queue \in Seq(Waiting)
         /\ {Smooth, MaxVar, Tick, MaxFrames} \subseteq Nat /\ Smooth > 0 /\ MaxVar > 0 /\ Tick > 0
         /\ {MaxLate, MaxCopy, Gap} \subseteq Nat /\ Smooth <= MaxVar
         /\ \A i \in 1..Len(queue) : queue[i].ts \in Int /\ queue[i].ts > 0
         /\ \A i, j \in 1..Len(queue) : i < j => queue[i].ts < queue[j].ts
<1>1. Len(queue) \in Nat /\ last \in Nat /\ queue \in Seq(Waiting)
  BY DEF TypeOK, Waiting
<1>2. /\ {Smooth, MaxVar, Tick, MaxFrames} \subseteq Nat /\ Smooth > 0 /\ MaxVar > 0 /\ Tick > 0
      /\ {MaxLate, MaxCopy, Gap} \subseteq Nat /\ Smooth <= MaxVar
  BY SourceConstants
<1>3. \A i \in 1..Len(queue) : queue[i].ts \in Int /\ queue[i].ts > 0
  <2>1. \A i \in 1..Len(queue) : queue[i] \in Waiting
    BY <1>1
  <2> QED  BY <2>1 DEF Waiting
<1> QED  BY <1>1, <1>2, <1>3 DEF Ordered

LEMMA NextLoop ==
  ASSUME TypeOK, Ordered, NEW s \in Nat, NEW i \in 1..Len(queue), NEW a, Loop(s, i - 1, a)
  PROVE  Loop(s, i, Pass(a, i))
<1>1. /\ Len(queue) \in Nat /\ last \in Nat
      /\ {Smooth, MaxVar} \subseteq Nat /\ Smooth > 0 /\ MaxVar > 0
      /\ \A j \in 1..Len(queue) : queue[j].ts \in Int
      /\ \A j, k \in 1..Len(queue) : j < k => queue[j].ts < queue[k].ts
  BY TimesAre
<1> DEFINE t == queue[i].ts
           b == Pass(a, i)
<1>2. /\ a \in [n : 0..i - 1, last : Int, offset : Int, done : BOOLEAN]
      /\ a.last >= last /\ (s <= MaxVar + 1 => a.last >= last + s)
  BY DEF Loop
<1>3. CASE a.done \/ a.last - t < Smooth
  <2>1. b = [a EXCEPT !.done = TRUE]
    BY <1>3 DEF Pass
  <2>2. b \in [n : 0..i, last : Int, offset : Int, done : BOOLEAN] /\ b.done = TRUE /\ b.n = a.n /\ b.last = a.last
    <3>1. a.n \in 0..i
      BY <1>2
    <3> QED  BY <1>2, <2>1, <3>1
  <2>3. a.n < Len(queue) /\ a.last - queue[a.n + 1].ts < Smooth
    <3>1. CASE a.done
      BY <3>1 DEF Loop
    <3>2. CASE ~a.done
      <4>1. a.n = i - 1 /\ a.n + 1 = i
        BY <1>2, <3>2 DEF Loop
      <4> QED  BY <1>1, <1>3, <3>2, <4>1
    <3> QED  BY <3>1, <3>2
  <2> HIDE DEF b
  <2>4. Loop(s, i, b)
    BY <1>2, <2>2, <2>3 DEF Loop
  <2> QED  BY <2>4 DEF b
<1>4. CASE ~(a.done \/ a.last - t < Smooth) /\ i = Len(queue)
  <2>1. b = [a EXCEPT !.n = i]
    BY <1>4 DEF Pass
  <2>2. b \in [n : 0..i, last : Int, offset : Int, done : BOOLEAN] /\ b.done = FALSE /\ b.n = i /\ b.last = a.last
    BY <1>2, <1>4, <2>1
  <2> HIDE DEF b
  <2>3. Loop(s, i, b)
    BY <1>1, <1>2, <1>4, <2>2 DEF Loop
  <2> QED  BY <2>3 DEF b
<1>5. CASE ~(a.done \/ a.last - t < Smooth) /\ i # Len(queue)
  <2> DEFINE next == queue[i + 1].ts
             time == IF next - t > MaxVar THEN next - a.offset ELSE a.last
  <2>1. b = [n |-> i, last |-> time, offset |-> next - time, done |-> FALSE]
    BY <1>5 DEF Pass
  <2>2. i + 1 \in 1..Len(queue) /\ i < i + 1 /\ t \in Int /\ next \in Int /\ t < next
    BY <1>1, <1>5
  <2>3. a.n = i - 1 /\ (i = 1 => a.last = last + s /\ a.offset = t - last)
        /\ (i # 1 => a.offset = t - a.last)
    BY <1>1, <1>5 DEF Loop
  <2> HIDE DEF t, next
  <2>4. time \in Int /\ time >= last /\ (s <= MaxVar + 1 => time >= last + s)
    <3>1. CASE next - t > MaxVar /\ i = 1
      <4>1. time = last + (next - t)
        BY <1>1, <2>2, <2>3, <3>1
      <4> QED  BY <1>1, <2>2, <3>1, <4>1
    <3>2. CASE next - t > MaxVar /\ i # 1
      <4>1. time = a.last + (next - t)
        BY <1>2, <2>2, <2>3, <3>2
      <4> QED  BY <1>1, <1>2, <2>2, <4>1
    <3>3. CASE ~(next - t > MaxVar)
      BY <1>2, <3>3
    <3> QED  BY <3>1, <3>2, <3>3
  <2> HIDE DEF time
  <2>5. /\ b \in [n : 0..i, last : Int, offset : Int, done : BOOLEAN]
        /\ b.done = FALSE /\ b.n = i /\ b.last = time /\ b.offset = next - time
    BY <2>1, <2>2, <2>4
  <2> HIDE DEF b
  <2>6. Loop(s, i, b)
    BY <2>2, <2>4, <2>5 DEF Loop, next
  <2> QED  BY <2>6 DEF b
<1> QED  BY <1>3, <1>4, <1>5

(* What is shown at a tick, and the time it leaves the source at.          *)
LEMMA ReadyIs ==
  ASSUME TypeOK, Ordered, NEW s \in Nat
  PROVE  /\ Ready(s).n \in 0..Len(queue) /\ Ready(s).last \in Nat
         /\ queue = <<>> => Ready(s).last = last
         /\ queue # <<>> => Ready(s).last # 0 /\
              \/ (last = 0 \/ OutOfBounds(queue[1].ts)) /\ Ready(s).last = queue[1].ts
              \/ ~(last = 0 \/ OutOfBounds(queue[1].ts)) /\ (s <= MaxVar + 1 => Ready(s).last >= last + s)
         /\ \A i \in Ready(s).n + 1..Len(queue) : Ready(s).last - queue[i].ts < Smooth
<1>1. /\ Len(queue) \in Nat /\ last \in Nat /\ queue \in Seq(Waiting)
      /\ {Smooth, MaxVar} \subseteq Nat /\ Smooth > 0 /\ MaxVar > 0
      /\ \A j \in 1..Len(queue) : queue[j].ts \in Int /\ queue[j].ts > 0
      /\ \A j, k \in 1..Len(queue) : j < k => queue[j].ts < queue[k].ts
  BY TimesAre
<1>2. CASE queue = <<>>
  BY <1>1, <1>2 DEF Ready
<1>3. CASE queue # <<>> /\ (last = 0 \/ OutOfBounds(queue[1].ts))
  <2>1. 1 \in 1..Len(queue) /\ Head(queue) = queue[1]
    BY <1>1, <1>3
  <2>2. Ready(s) = [n |-> 1, last |-> queue[1].ts]
    BY <1>3, <2>1 DEF Ready
  <2>3. ASSUME NEW i \in 1 + 1..Len(queue)
        PROVE  queue[1].ts - queue[i].ts < Smooth
    <3>1. i \in 1..Len(queue) /\ 1 < i
      BY <1>1
    <3> QED  BY <1>1, <2>1, <3>1
  <2> QED  BY <1>1, <1>3, <2>1, <2>2, <2>3
<1>4. CASE queue # <<>> /\ ~(last = 0 \/ OutOfBounds(queue[1].ts))
  <2> DEFINE g == Passing(s, Len(queue))
             m == Len(queue)
  <2>1. m \in 1..m /\ 1 \in 1..m /\ Head(queue) = queue[1]
    BY <1>1, <1>4
  <2>2. Ready(s) = g[m]
    BY <1>4, <2>1 DEF Ready, Passing, Start
  <2>3. g = [i \in 0..m |-> IF i = 0 THEN Start(s) ELSE Pass(g[i - 1], i)]
    BY <1>1, PassingIs
  <2> HIDE DEF g
  <2> DEFINE S == {i \in Nat : i <= m /\ ~Loop(s, i, g[i])}
  <2>4. S = {}
    <3>1. SUFFICES ASSUME S # {}
                   PROVE  FALSE
      OBVIOUS
    <3> DEFINE l == Min(S)
    <3> HIDE DEF l
    <3>2. l \in S /\ \A n \in S : l <= n
      BY <3>1, LeastIs DEF l
    <3>3. l \in 0..m /\ ~Loop(s, l, g[l])
      BY <1>1, <3>2
    <3>4. CASE l = 0
      <4>1. g[0] = Start(s)
        BY <1>1, <2>3
      <4>2. Start(s) = [n |-> 0, last |-> last + s, offset |-> queue[1].ts - last, done |-> FALSE]
        BY <2>1 DEF Start, Advanced
      <4>3. Loop(s, 0, Start(s))
        BY <1>1, <2>1, <4>2 DEF Loop
      <4> QED  BY <3>3, <3>4, <4>1, <4>3
    <3>5. CASE l # 0
      <4>1. l - 1 \in Nat /\ l - 1 <= m /\ l - 1 \notin S /\ l \in 1..m
        BY <1>1, <3>2, <3>3, <3>5
      <4>2. Loop(s, l - 1, g[l - 1])
        BY <4>1
      <4>3. g[l] = Pass(g[l - 1], l)
        BY <2>3, <3>3, <3>5
      <4> QED  BY <3>3, <4>1, <4>2, <4>3, NextLoop
    <3> QED  BY <3>4, <3>5
  <2>5. Loop(s, m, g[m])
    BY <1>1, <2>4
  <2> DEFINE r == g[m]
  <2> HIDE DEF r, S
  <2>6. Ready(s) = r /\ Loop(s, m, r)
    BY <2>2, <2>5 DEF r
  <2>7. r.n \in 0..m /\ r.last \in Int /\ r.last >= last /\ r.done \in BOOLEAN
    BY <2>6 DEF Loop
  <2>8. last > 0 /\ r.last > 0
    BY <1>1, <1>4, <2>7
  <2>9. ASSUME NEW i \in r.n + 1..m
        PROVE  r.last - queue[i].ts < Smooth
    <3>1. r.done /\ r.n < m /\ r.last - queue[r.n + 1].ts < Smooth
      BY <1>1, <2>6, <2>7, <2>9 DEF Loop
    <3>2. r.n + 1 \in 1..m /\ i \in 1..m /\ (i = r.n + 1 \/ r.n + 1 < i)
      BY <1>1, <2>7, <3>1
    <3>3. queue[r.n + 1].ts <= queue[i].ts
      BY <1>1, <3>2
    <3> QED  BY <1>1, <2>7, <3>1, <3>2, <3>3
  <2>10. s <= MaxVar + 1 => r.last >= last + s
    BY <2>6 DEF Loop
  <2> QED  BY <1>4, <2>6, <2>7, <2>8, <2>9, <2>10
<1> QED  BY <1>2, <1>3, <1>4

LEMMA TailIs ==
  ASSUME NEW S, NEW q \in Seq(S), NEW n \in 0..Len(q)
  PROVE  /\ SubSeq(q, n + 1, Len(q)) \in Seq(S) /\ Len(SubSeq(q, n + 1, Len(q))) = Len(q) - n
         /\ \A i \in 1..Len(q) - n : SubSeq(q, n + 1, Len(q))[i] = q[n + i] /\ n + i \in 1..Len(q)
<1>1. Len(q) \in Nat /\ n \in Nat /\ n <= Len(q)
  OBVIOUS
<1>2. n + 1 \in 1..Len(q) + 1 /\ Len(q) \in n..Len(q)
  BY <1>1
<1>3. \A i \in 1..Len(q) - n : n + i \in 1..Len(q) /\ i \in 1..Len(q) - (n + 1) + 1 /\ n + 1 + i - 1 = n + i
  BY <1>1
<1>4. CASE n = Len(q)
  BY <1>1, <1>4, SubSeqProperties
<1>5. CASE n < Len(q)
  BY <1>1, <1>3, <1>5, SubSeqProperties
<1> QED  BY <1>1, <1>4, <1>5

LEMMA TickStep ==
  ASSUME IInv, VideoTick
  PROVE  IInv'
<1>1. TypeOK /\ Apart /\ Marked /\ Counted /\ Ordered
  BY DEF IInv
<1>2. /\ DOMAIN queue = 1..Len(queue) /\ Len(queue) \in Nat /\ queue \in Seq(Waiting)
      /\ \A i \in 1..Len(queue) : queue[i] \in Waiting /\ queue[i].frame \in Frame
      /\ cache \in Seq(Entry) /\ None \notin Frame /\ Marks(cache) \subseteq Cached(cache)
  BY <1>1, SetsAre
<1> DEFINE s == Tick * Intervals
           n == Ready(s).n
<1>3. s \in Nat /\ s <= now - sys /\ now \in 1..MaxTime /\ sys \in 1..now
  <2>1. now \in 1..MaxTime /\ sys \in 1..now /\ now - sys \in Nat /\ Tick \in Nat \ {0}
    BY <1>1, SourceConstants DEF TypeOK
  <2> QED  BY <2>1, IntervalsAre DEF Intervals
<1>4. /\ reading = None /\ sys' = sys + s /\ last' = Ready(s).last
      /\ queue' = SubSeq(queue, n + 1, Len(queue))
      /\ cur' = (IF n = 0 THEN None ELSE queue[n].frame)
      /\ cache' = Unused(cache, {cur} \cup Passed(n))
      /\ shown' = (IF n = 0 THEN shown ELSE queue[n].ts)
      /\ UNCHANGED <<now, written, size, writing, refs, reading, leaked>>
  BY DEF VideoTick, main
<1> HIDE DEF s
<1>5. n \in 0..Len(queue) /\ Ready(s).last \in Nat
  BY <1>1, <1>3, ReadyIs
<1> HIDE DEF n
<1>6. /\ queue' \in Seq(Waiting) /\ Len(queue') = Len(queue) - n /\ DOMAIN queue' = 1..Len(queue) - n
      /\ \A i \in 1..Len(queue) - n : queue'[i] = queue[n + i] /\ n + i \in 1..Len(queue) /\ n + i > n
  <2>1. queue' \in Seq(Waiting) /\ Len(queue') = Len(queue) - n
        /\ \A i \in 1..Len(queue) - n : queue'[i] = queue[n + i] /\ n + i \in 1..Len(queue)
    BY <1>2, <1>4, <1>5, TailIs
  <2>2. \A i \in 1..Len(queue) - n : n + i > n
    BY <1>2, <1>5
  <2> QED  BY <2>1, <2>2
<1>7. /\ cache' \in Seq(Entry) /\ Distinct(cache') /\ Cached(cache') = Cached(cache)
      /\ Marks(cache') = Marks(cache) \ ({cur} \cup Passed(n))
  BY <1>1, <1>2, <1>4, UnusedIs DEF Apart
<1>8. /\ Passed(n) \subseteq InQueue \ InQueue'
      /\ InQueue \subseteq Passed(n) \cup {cur'} \cup InQueue' /\ InQueue' \subseteq InQueue
      /\ cur' # None => cur' \in InQueue /\ cur' \notin InQueue' \cup Passed(n)
  <2>1. \A i, j \in 1..Len(queue) : queue[i].frame = queue[j].frame => i = j
    BY <1>1 DEF Apart, Distinct
  <2>2. InQueue' = {queue[i].frame : i \in n + 1..Len(queue)}
    <3>1. ASSUME NEW f \in InQueue'
          PROVE  f \in {queue[i].frame : i \in n + 1..Len(queue)}
      <4>1. PICK i \in 1..Len(queue) - n : f = queue'[i].frame
        BY <1>6 DEF InQueue
      <4> QED  BY <1>2, <1>5, <1>6, <4>1
    <3>2. ASSUME NEW i \in n + 1..Len(queue)
          PROVE  queue[i].frame \in InQueue'
      <4>1. i - n \in 1..Len(queue) - n /\ n + (i - n) = i
        BY <1>2, <1>5
      <4>2. queue'[i - n] = queue[i]
        BY <1>6, <4>1
      <4> QED  BY <1>6, <4>1, <4>2 DEF InQueue
    <3> QED  BY <3>1, <3>2
  <2>3. InQueue = {queue[i].frame : i \in 1..Len(queue)}
    BY <1>2 DEF InQueue
  <2>4. /\ \A i \in 1..n - 1 : i \in 1..Len(queue) /\ i # n /\ i \notin n + 1..Len(queue)
        /\ \A i \in n + 1..Len(queue) : i \in 1..Len(queue) /\ i # n
        /\ \A i \in 1..Len(queue) : i \in 1..n - 1 \/ (i = n /\ n # 0) \/ i \in n + 1..Len(queue)
        /\ n # 0 => n \in 1..Len(queue)
    BY <1>2, <1>5
  <2>5. Passed(n) \subseteq InQueue \ InQueue'
    BY <2>1, <2>2, <2>3, <2>4 DEF Passed
  <2>6. InQueue \subseteq Passed(n) \cup {cur'} \cup InQueue'
    BY <1>4, <2>2, <2>3, <2>4 DEF Passed
  <2>7. InQueue' \subseteq InQueue
    BY <2>2, <2>3, <2>4
  <2>8. cur' # None => cur' \in InQueue /\ cur' \notin InQueue' \cup Passed(n)
    <3>1. ASSUME cur' # None
          PROVE  n # 0 /\ cur' = queue[n].frame
      BY <1>4, <3>1
    <3> QED  BY <2>1, <2>2, <2>3, <2>4, <3>1 DEF Passed
  <2> QED  BY <2>5, <2>6, <2>7, <2>8
<1>9. /\ InHand = {writing, cur} \ {None} /\ InHand' = {writing, cur'} \ {None}
  BY <1>4 DEF InHand
<1>10. Apart'
  <2>1. Distinct(queue')
    BY <1>1, <1>2, <1>5, <1>6 DEF Apart, Distinct
  <2>2. InQueue' \cap InHand' = {} /\ leaked \cap (InQueue' \cup InHand') = {}
    BY <1>1, <1>8, <1>9 DEF Apart
  <2>3. writing # None => writing \notin {cur', reading}
    BY <1>1, <1>4, <1>8, <1>9 DEF Apart
  <2> QED  BY <1>4, <1>7, <2>1, <2>2, <2>3 DEF Apart
<1>11. Marked'
  <2>1. Marks(cache') = Cached(cache') \cap (InQueue' \cup InHand' \cup leaked)
    <3>1. Marks(cache) = Cached(cache) \cap (InQueue \cup InHand \cup leaked)
      BY <1>1 DEF Marked
    <3>2. cur # None => cur \notin InQueue \cup leaked /\ cur # writing
      BY <1>1, <1>9 DEF Apart
    <3>3. None \notin Cached(cache) /\ None \notin InQueue
      BY <1>1, SetsAre
    <3>4. Passed(n) \cap (InHand \cup leaked) = {}
      BY <1>1, <1>8 DEF Apart
    <3>5. ASSUME NEW f \in Cached(cache)
          PROVE  (f \in InQueue \cup InHand \cup leaked /\ f \notin {cur} \cup Passed(n))
                    <=> f \in InQueue' \cup InHand' \cup leaked
      <4>1. CASE f \in InQueue'
        BY <1>8, <1>9, <3>2, <3>3, <3>5, <4>1
      <4>2. CASE f \notin InQueue' /\ f \in InQueue
        <5>1. f # cur /\ f # writing /\ f \notin leaked
          BY <1>1, <1>9, <3>3, <3>5, <4>2 DEF Apart
        <5> QED  BY <1>8, <1>9, <3>3, <3>5, <4>2, <5>1
      <4>3. CASE f \notin InQueue
        <5>1. f \notin Passed(n) /\ f # cur' /\ f \notin InQueue'
          BY <1>8, <3>3, <3>5, <4>3
        <5> QED  BY <1>9, <3>2, <3>3, <3>5, <4>3, <5>1
      <4> QED  BY <4>1, <4>2, <4>3
    <3> QED  BY <1>4, <1>7, <3>1, <3>5
  <2>2. InQueue' \cup ({writing, cur'} \ {None}) \subseteq Cached(cache)
    BY <1>1, <1>8 DEF Marked
  <2> QED  BY <1>4, <1>7, <2>1, <2>2 DEF Marked
<1>12. Counted'
  BY <1>1, <1>4, <1>7 DEF Counted, Hands
<1>13. Ordered'
  <2>1. /\ \A i, j \in 1..Len(queue) : i < j => queue[i].ts < queue[j].ts
        /\ \A i \in 1..Len(queue) : queue[i].ts \in Nat
    BY <1>1, TimesAre
  <2>2. \A i \in 1..Len(queue) : /\ shown < queue[i].ts /\ queue[i].ts <= written
                                 /\ writing # None => queue[i].ts < written
    BY <1>1 DEF Ordered
  <2>3. \A i, j \in 1..Len(queue) - n : i < j => n + i < n + j
    BY <1>2, <1>5
  <2>4. \A i \in 1..Len(queue) - n : shown' < queue'[i].ts
    <3>1. CASE n = 0
      BY <1>4, <1>6, <2>2, <3>1
    <3>2. CASE n # 0
      <4>1. n \in 1..Len(queue)
        BY <1>2, <1>5, <3>2
      <4>2. \A i \in 1..Len(queue) - n : queue[n].ts < queue[n + i].ts
        BY <1>6, <2>1, <4>1
      <4> QED  BY <1>4, <1>6, <3>2, <4>2
    <3> QED  BY <3>1, <3>2
  <2>5. /\ \A i, j \in 1..Len(queue) - n : i < j => queue'[i].ts < queue'[j].ts
        /\ \A i \in 1..Len(queue) - n : /\ queue'[i].ts <= written
                                        /\ writing # None => queue'[i].ts < written
    BY <1>6, <2>1, <2>2, <2>3
  <2>6. /\ shown' \in Nat /\ (shown' # 0 => shown' <= written)
        /\ writing # None => shown' < written /\ written > 0 /\ written <= MaxTime
    <3>1. CASE n = 0
      BY <1>1, <1>4, <3>1 DEF Ordered
    <3>2. CASE n # 0
      <4>1. n \in 1..Len(queue)
        BY <1>2, <1>5, <3>2
      <4> QED  BY <1>1, <1>4, <2>1, <2>2, <3>2, <4>1 DEF Ordered
    <3> QED  BY <3>1, <3>2
  <2> QED  BY <1>4, <1>6, <2>4, <2>5, <2>6 DEF Ordered
<1>14. TypeOK'
  <2>1. sys' \in 1..now
    BY <1>3, <1>4
  <2>2. cur' \in Frame \cup {None}
    BY <1>2, <1>4, <1>5
  <2> QED  BY <1>1, <1>4, <1>5, <1>6, <1>7, <2>1, <2>2 DEF TypeOK, Entry, Waiting
<1> QED  BY <1>10, <1>11, <1>12, <1>13, <1>14 DEF IInv

LEMMA GetStep ==
  ASSUME IInv, GetFrame
  PROVE  IInv'
<1>1. TypeOK /\ Apart /\ Marked /\ Counted /\ Ordered
  BY DEF IInv
<1>2. /\ refs \in [Frame -> Nat] /\ None \notin Frame
  BY <1>1, SetsAre
<1>3. /\ cur # None /\ cur \in Frame /\ reading = None /\ reading' = cur /\ cur' = None
      /\ refs' = [refs EXCEPT ![cur] = @ + 1]
      /\ UNCHANGED <<now, written, size, writing, cache, queue, last, sys, shown, leaked>>
  BY <1>1 DEF GetFrame, main, TypeOK, Apart
<1>4. InQueue' = InQueue /\ InHand' = InHand /\ cur \in InHand
  BY <1>3 DEF InQueue, InHand
<1>5. cur # writing /\ cur \notin leaked /\ cur \in Cached(cache)
  BY <1>1, <1>3, <1>4 DEF Apart, Marked
<1>6. Apart'
  BY <1>1, <1>3, <1>4, <1>5 DEF Apart, Distinct
<1>7. Marked'
  BY <1>1, <1>3, <1>4 DEF Marked
<1>8. ASSUME NEW f \in Frame
      PROVE  refs'[f] = Hands(f, cache, writing, cur, leaked)
  BY <1>1, <1>2, <1>3, <1>5 DEF Counted, Hands, One
<1>9. Counted'
  BY <1>3, <1>8 DEF Counted
<1>10. refs' \in [Frame -> 0..2]
  <2>1. \A f \in Frame : Hands(f, cache, writing, cur, leaked) \in 0..2
    <3>1. writing \in Frame => writing \notin leaked
      BY <1>1, <1>2 DEF Apart, InHand
    <3> QED  BY <1>5, <3>1, HandsAre
  <2> QED  BY <1>2, <1>3, <1>8, <2>1
<1>11. Ordered' /\ TypeOK'
  BY <1>1, <1>3, <1>10 DEF Ordered, TypeOK
<1> QED  BY <1>6, <1>7, <1>9, <1>11 DEF IInv

LEMMA ReleaseStep ==
  ASSUME IInv, ReleaseFrame
  PROVE  IInv'
<1>1. TypeOK /\ Apart /\ Marked /\ Counted /\ Ordered
  BY DEF IInv
<1>2. /\ refs \in [Frame -> Nat] /\ None \notin Frame /\ cache \in Seq(Entry)
      /\ Marks(cache) \subseteq Cached(cache)
  BY <1>1, SetsAre
<1>3. /\ reading # None /\ reading \in Frame /\ cur = None /\ reading' = None
      /\ refs' = [refs EXCEPT ![reading] = @ - 1]
      /\ cache' = (IF refs[reading] = 1 THEN cache ELSE Unused(cache, {reading}))
      /\ UNCHANGED <<now, written, size, writing, queue, cur, last, sys, shown, leaked>>
  BY <1>1 DEF ReleaseFrame, main, TypeOK, Apart
<1>4. InQueue' = InQueue /\ InHand = InHand' \cup {reading} /\ reading \notin InHand' \cup InQueue \cup leaked
  BY <1>1, <1>3 DEF InQueue, InHand, Apart
<1>5. /\ cache' \in Seq(Entry) /\ Distinct(cache') /\ Cached(cache') = Cached(cache)
      /\ Marks(cache') = Marks(cache) \ {reading}
  <2>1. CASE refs[reading] = 1
    <3>1. reading \notin Cached(cache)
      BY <1>1, <1>3, <2>1 DEF Counted, Hands, One
    <3> QED  BY <1>1, <1>2, <1>3, <2>1, <3>1 DEF Apart
  <2>2. CASE refs[reading] # 1
    BY <1>1, <1>2, <1>3, <2>2, UnusedIs DEF Apart
  <2> QED  BY <2>1, <2>2
<1>6. Apart'
  <2>1. InQueue' \cap InHand' = {} /\ leaked \cap (InQueue' \cup InHand') = {}
    BY <1>1, <1>4 DEF Apart
  <2> QED  BY <1>1, <1>3, <1>5, <2>1 DEF Apart, Distinct
<1>7. Marked'
  BY <1>1, <1>3, <1>4, <1>5 DEF Marked
<1>8. ASSUME NEW f \in Frame
      PROVE  refs'[f] = Hands(f, cache', writing, None, leaked)
  BY <1>1, <1>2, <1>3, <1>5 DEF Counted, Hands, One
<1>9. Counted'
  BY <1>3, <1>8 DEF Counted
<1>10. refs' \in [Frame -> 0..2]
  <2>1. \A f \in Frame : Hands(f, cache', writing, None, leaked) \in 0..2
    <3>1. writing \in Frame => writing \notin leaked
      BY <1>1, <1>2 DEF Apart, InHand
    <3> QED  BY <1>2, <3>1, HandsAre
  <2> QED  BY <1>2, <1>3, <1>8, <2>1
<1>11. Ordered' /\ TypeOK'
  BY <1>1, <1>3, <1>5, <1>10 DEF Ordered, TypeOK, Entry
<1> QED  BY <1>6, <1>7, <1>9, <1>11 DEF IInv

LEMMA FailStep ==
  ASSUME IInv, TextureFails
  PROVE  IInv'
<1>1. TypeOK /\ Apart /\ Marked /\ Counted /\ Ordered
  BY DEF IInv
<1>2. None \notin Frame
  BY SourceConstants
<1>3. /\ reading # None /\ reading \in Frame /\ cur = None /\ reading' = None
      /\ leaked' = leaked \cup {reading}
      /\ UNCHANGED <<now, written, size, writing, cache, refs, queue, cur, last, sys, shown>>
  BY <1>1 DEF TextureFails, main, TypeOK, Apart
<1>4. InQueue' = InQueue /\ InHand = InHand' \cup {reading} /\ reading \notin InHand' \cup InQueue \cup leaked
  BY <1>1, <1>3 DEF InQueue, InHand, Apart
<1>5. Apart'
  <2>1. InQueue' \cap InHand' = {} /\ leaked' \cap (InQueue' \cup InHand') = {}
    BY <1>1, <1>3, <1>4 DEF Apart
  <2> QED  BY <1>1, <1>3, <2>1 DEF Apart, Distinct
<1>6. Marked'
  <2>1. InQueue' \cup InHand' \cup leaked' = InQueue \cup InHand \cup leaked
    BY <1>3, <1>4
  <2> QED  BY <1>1, <1>3, <1>4, <2>1 DEF Marked
<1>7. ASSUME NEW f \in Frame
      PROVE  refs[f] = Hands(f, cache, writing, None, leaked')
  <2>1. reading \notin leaked /\ f # None
    BY <1>2, <1>4
  <2> QED  BY <1>1, <1>3, <2>1 DEF Counted, Hands, One
<1>8. Counted'
  BY <1>3, <1>7 DEF Counted
<1>9. Ordered' /\ TypeOK'
  BY <1>1, <1>3 DEF Ordered, TypeOK
<1> QED  BY <1>5, <1>6, <1>8, <1>9 DEF IInv

LEMMA AdvanceStep ==
  ASSUME IInv, Advance
  PROVE  IInv'
<1>1. TypeOK /\ Apart /\ Marked /\ Counted /\ Ordered
  BY DEF IInv
<1>2. /\ now < MaxTime /\ now' = now + 1
      /\ UNCHANGED <<written, size, writing, cache, refs, queue, cur, reading, last, sys, shown, leaked>>
  BY DEF Advance, main, graphics
<1>3. InQueue' = InQueue /\ InHand' = InHand
  BY <1>2 DEF InQueue, InHand
<1>4. Apart' /\ Marked' /\ Counted' /\ Ordered'
  BY <1>1, <1>2, <1>3 DEF Apart, Distinct, Marked, Counted, Ordered
<1>5. now' \in 1..MaxTime /\ sys \in 1..now' /\ written \in -Gap..now'
  BY <1>1, <1>2, SourceConstants DEF TypeOK
<1>6. TypeOK'
  BY <1>1, <1>2, <1>5 DEF TypeOK
<1> QED  BY <1>4, <1>6 DEF IInv

-----------------------------------------------------------------------------
(* The counts of RefsExact.                                                *)

LEMMA HoldersAre ==
  ASSUME NEW f \in Frame
  PROVE  Holders(f) = Hands(f, cache, writing, reading, leaked)
<1> DEFINE P(h) == \/ h = "cache" /\ f \in Cached(cache)
                   \/ h = "writer" /\ f = writing
                   \/ h = "reader" /\ f = reading
                   \/ h = "leak" /\ f \in leaked
           A == {h \in {"cache"} : P(h)}
           B == {h \in {"cache", "writer"} : P(h)}
           C == {h \in {"cache", "writer", "reader"} : P(h)}
           D == {h \in {"cache", "writer", "reader", "leak"} : P(h)}
<1>1. IsFiniteSet({}) /\ Cardinality({}) = 0
  BY FS_EmptySet
<1>2. A = IF f \in Cached(cache) THEN {} \cup {"cache"} ELSE {}
  OBVIOUS
<1>3. B = IF f = writing THEN A \cup {"writer"} ELSE A
  OBVIOUS
<1>4. C = IF f = reading THEN B \cup {"reader"} ELSE B
  OBVIOUS
<1>5. D = IF f \in leaked THEN C \cup {"leak"} ELSE C
  OBVIOUS
<1>6. "writer" \notin A /\ "reader" \notin B /\ "leak" \notin C
  OBVIOUS
<1> HIDE DEF A, B, C, D
<1>7. IsFiniteSet(A) /\ Cardinality(A) = 0 + One(f \in Cached(cache))
  <2>1. IsFiniteSet({} \cup {"cache"}) /\ Cardinality({} \cup {"cache"}) = 1
    BY <1>1, FS_AddElement
  <2> QED  BY <1>1, <1>2, <2>1 DEF One
<1>8. IsFiniteSet(B) /\ Cardinality(B) = Cardinality(A) + One(f = writing)
  <2>1. IsFiniteSet(A \cup {"writer"}) /\ Cardinality(A \cup {"writer"}) = Cardinality(A) + 1
    BY <1>6, <1>7, FS_AddElement
  <2>2. Cardinality(A) \in Nat
    BY <1>7, FS_CardinalityType
  <2> QED  BY <1>3, <1>7, <2>1, <2>2 DEF One
<1>9. IsFiniteSet(C) /\ Cardinality(C) = Cardinality(B) + One(f = reading)
  <2>1. IsFiniteSet(B \cup {"reader"}) /\ Cardinality(B \cup {"reader"}) = Cardinality(B) + 1
    BY <1>6, <1>8, FS_AddElement
  <2>2. Cardinality(B) \in Nat
    BY <1>8, FS_CardinalityType
  <2> QED  BY <1>4, <1>8, <2>1, <2>2 DEF One
<1>10. Cardinality(D) = Cardinality(C) + One(f \in leaked)
  <2>1. Cardinality(C \cup {"leak"}) = Cardinality(C) + 1 /\ Cardinality(C) \in Nat
    BY <1>6, <1>9, FS_AddElement, FS_CardinalityType
  <2> QED  BY <1>5, <2>1 DEF One
<1>11. Holders(f) = Cardinality(D)
  BY DEF Holders, D
<1> QED  BY <1>7, <1>8, <1>9, <1>10, <1>11 DEF Hands, One

LEMMA UsesAre ==
  ASSUME IInv, NEW f \in Frame
  PROVE  Uses(f) = One(f \in InQueue) + One(f = writing) + One(f = cur) + One(f = reading)
<1>1. TypeOK /\ Apart
  BY DEF IInv
<1>2. DOMAIN queue = 1..Len(queue)
  BY <1>1, SetsAre
<1>3. IsFiniteSet({}) /\ Cardinality({}) = 0
  BY FS_EmptySet
<1> DEFINE Q == {i \in DOMAIN queue : queue[i].frame = f}
           Of(u) == CASE u = "writing" -> writing [] u = "cur" -> cur [] u = "reading" -> reading
           A == {u \in {"writing"} : f = Of(u)}
           B == {u \in {"writing", "cur"} : f = Of(u)}
           C == {u \in {"writing", "cur", "reading"} : f = Of(u)}
<1>4. Cardinality(Q) = 0 + One(f \in InQueue)
  <2>1. CASE f \in InQueue
    <3>1. PICK i \in DOMAIN queue : queue[i].frame = f
      BY <2>1 DEF InQueue
    <3>2. Q = {} \cup {i}
      BY <1>1, <1>2, <3>1 DEF Apart, Distinct
    <3> QED  BY <1>3, <2>1, <3>2, FS_AddElement DEF One
  <2>2. CASE f \notin InQueue
    <3>1. Q = {}
      BY <2>2 DEF InQueue
    <3> QED  BY <1>3, <2>2, <3>1 DEF One
  <2> QED  BY <2>1, <2>2
<1>5. Of("writing") = writing /\ Of("cur") = cur /\ Of("reading") = reading
  OBVIOUS
<1> HIDE DEF Of
<1>6. A = IF f = writing THEN {} \cup {"writing"} ELSE {}
  BY <1>5
<1>7. B = IF f = cur THEN A \cup {"cur"} ELSE A
  BY <1>5
<1>8. C = IF f = reading THEN B \cup {"reading"} ELSE B
  BY <1>5
<1>9. "cur" \notin A /\ "reading" \notin B
  OBVIOUS
<1>10. Uses(f) = Cardinality(Q) + Cardinality(C)
  BY DEF Uses, Of
<1> HIDE DEF A, B, C, Q
<1>11. IsFiniteSet(A) /\ Cardinality(A) = 0 + One(f = writing)
  <2>1. IsFiniteSet({} \cup {"writing"}) /\ Cardinality({} \cup {"writing"}) = 1
    BY <1>3, FS_AddElement
  <2> QED  BY <1>3, <1>6, <2>1 DEF One
<1>12. IsFiniteSet(B) /\ Cardinality(B) = Cardinality(A) + One(f = cur)
  BY <1>7, <1>9, <1>11, FS_AddElement, FS_CardinalityType DEF One
<1>13. Cardinality(C) = Cardinality(B) + One(f = reading)
  BY <1>8, <1>9, <1>12, FS_AddElement, FS_CardinalityType DEF One
<1> QED  BY <1>4, <1>10, <1>11, <1>12, <1>13 DEF One

LEMMA RefsFollow ==
  ASSUME IInv
  PROVE  RefsExact
<1>1. TypeOK /\ Apart /\ Marked /\ Counted
  BY DEF IInv
<1>2. DOMAIN cache = 1..Len(cache) /\ Cached(cache) \subseteq Frame /\ None \notin Frame
  BY <1>1, SetsAre
<1>3. \A f \in Frame : Uses(f) = One(f \in InQueue \cup InHand)
  <2>1. TAKE f \in Frame
  <2>2. Uses(f) = One(f \in InQueue) + One(f = writing) + One(f = cur) + One(f = reading)
    BY UsesAre
  <2>3. f \in InHand <=> f \in {writing, cur, reading}
    BY <1>2 DEF InHand
  <2>4. f \in InQueue => f \notin {writing, cur, reading}
    BY <1>1, <2>3 DEF Apart
  <2>5. (f = writing => f # cur /\ f # reading) /\ (f = cur => f # reading)
    BY <1>1, <1>2 DEF Apart
  <2> QED  BY <2>2, <2>3, <2>4, <2>5 DEF One
<1>4. OneUse
  <2>1. \A f \in Frame : Uses(f) <= 1
    BY <1>3 DEF One
  <2>2. ASSUME NEW i \in DOMAIN cache
        PROVE  (Uses(cache[i].frame) = 1 \/ cache[i].frame \in leaked) <=> cache[i].used
    <3>1. cache[i].frame \in Cached(cache) /\ cache[i].frame \in Frame
      BY <1>2 DEF Cached
    <3>2. Uses(cache[i].frame) = 1 <=> cache[i].frame \in InQueue \cup InHand
      BY <1>3, <3>1 DEF One
    <3>3. cache[i].frame \in Marks(cache) <=> cache[i].used
      BY <1>1, <1>2 DEF Marks, Apart, Distinct
    <3> QED  BY <1>1, <3>1, <3>2, <3>3 DEF Marked
  <2> QED  BY <2>1, <2>2 DEF OneUse
<1>5. \A f \in Frame : refs[f] = Holders(f)
  BY <1>1, HoldersAre DEF Counted
<1> QED  BY <1>1, <1>4, <1>5 DEF RefsExact

-----------------------------------------------------------------------------
(* The invariant, and what follows from it.                                *)

LEMMA Initially ==
  ASSUME Init
  PROVE  IInv
<1>1. /\ Cached(cache) = {} /\ Marks(cache) = {} /\ InQueue = {} /\ InHand = {}
      /\ Len(queue) = 0 /\ Len(cache) = 0
  BY DEF Init, Cached, Marks, InQueue, InHand
<1>2. Apart /\ Marked /\ Ordered
  BY <1>1, SourceConstants DEF Init, Apart, Marked, Ordered, Distinct
<1>3. \A f \in Frame : refs[f] = 0 /\ Hands(f, cache, writing, reading, leaked) = 0
  BY <1>1, SourceConstants DEF Init, Hands, One
<1>4. TypeOK
  BY SourceConstants DEF Init, TypeOK
<1> QED  BY <1>2, <1>3, <1>4 DEF IInv, Counted

LEMMA Step ==
  ASSUME IInv, [Next]_vars
  PROVE  IInv'
<1>1. ASSUME NEW s \in Size, Receive(s)
      PROVE  IInv'
  BY <1>1, OverflowStep, StoreStep DEF Receive
<1>2. ASSUME UNCHANGED vars
      PROVE  IInv'
  <2>1. /\ UNCHANGED <<now, written, size, cache, refs, queue, writing, cur, reading, last, sys, shown, leaked>>
        /\ InQueue' = InQueue /\ InHand' = InHand
    BY <1>2 DEF vars, InQueue, InHand
  <2> QED  BY <2>1 DEF IInv, TypeOK, Apart, Marked, Counted, Ordered, Distinct
<1> QED  BY <1>1, <1>2, PushStep, TickStep, GetStep, ReleaseStep, FailStep, AdvanceStep DEF Next

LEMMA Invariance == Spec => []IInv
<1> QED  BY Initially, Step, PTL DEF Spec

(* Every reference count is the number of hands its frame is in, and no    *)
(* frame is given to a second use: obs_source_frame_decref never frees a   *)
(* frame under the thread that reads or writes it (obs-source.c:2094-2205, *)
(* 2514-2552).                                                             *)
THEOREM RefsAreExact == Spec => []RefsExact
<1> QED  BY Invariance, RefsFollow, PTL

LEMMA ShownStep ==
  ASSUME IInv, [Next]_vars
  PROVE  [shown' # shown => shown' > shown]_vars
<1>1. ASSUME VideoTick
      PROVE  shown' # shown => shown' > shown
  <2> DEFINE n == Ready(Tick * Intervals).n
  <2>1. TypeOK /\ Ordered /\ now - sys \in Nat /\ Tick \in Nat \ {0}
    BY SourceConstants DEF IInv, TypeOK
  <2>2. n \in 0..Len(queue) /\ Len(queue) \in Nat
    BY <2>1, IntervalsAre, ReadyIs, TimesAre DEF Intervals
  <2>3. shown' = IF n = 0 THEN shown ELSE queue[n].ts
    BY <1>1 DEF VideoTick
  <2>4. shown \in Nat /\ \A i \in 1..Len(queue) : shown < queue[i].ts /\ queue[i].ts \in Int
    BY <2>1, TimesAre DEF Ordered
  <2> HIDE DEF n
  <2>5. n # 0 => n \in 1..Len(queue)
    BY <2>2
  <2> QED  BY <2>3, <2>4, <2>5
<1>2. ASSUME NEW s \in Size, Receive(s)
      PROVE  shown' = shown
  BY <1>2 DEF Receive
<1>3. Push \/ GetFrame \/ ReleaseFrame \/ TextureFails \/ Advance \/ UNCHANGED vars => shown' = shown
  BY DEF Push, GetFrame, ReleaseFrame, TextureFails, Advance, graphics, vars
<1> QED  BY <1>1, <1>2, <1>3 DEF Next

(* The picture never goes back in time: ready_async_frame picks a frame    *)
(* behind the last one, whatever jumps the timestamps make.                *)
THEOREM ShownEverNewer == Spec => ShownInOrder
<1> QED  BY Invariance, ShownStep, PTL DEF Spec, ShownInOrder

-----------------------------------------------------------------------------
(* Age.                                                                    *)

Late == Tick + MaxLate
Lag == MaxVar + 1 + MaxCopy

(* The graphics thread is never so late that time jumps under it.          *)
Punctual == Late <= MaxVar + 1

(* A frame is as old as its copy took, or the source's time has not come   *)
(* to it, and is not far behind.                                           *)
Recent(t) ==
  \/ sys - t <= MaxCopy
  \/ last # 0 /\ last - t < Smooth /\ sys - last <= Lag

Aging ==
  /\ now - sys <= Late
  /\ writing # None => now - written <= MaxCopy
  /\ \A i \in 1..Len(queue) : Recent(queue[i].ts)
  /\ cur # None => sys - shown <= Patience

LEMMA TickAges ==
  ASSUME Punctual, IInv, Aging, VideoTick
  PROVE  Aging'
<1>1. TypeOK /\ Ordered
  BY DEF IInv
<1>2. /\ Len(queue) \in Nat /\ last \in Nat /\ queue \in Seq(Waiting)
      /\ {Smooth, MaxVar, Tick, MaxLate, MaxCopy} \subseteq Nat /\ Smooth > 0 /\ MaxVar > 0 /\ Tick > 0
      /\ Smooth <= MaxVar
      /\ \A i \in 1..Len(queue) : queue[i].ts \in Int /\ queue[i].ts > 0
      /\ \A i, j \in 1..Len(queue) : i < j => queue[i].ts < queue[j].ts
  BY <1>1, TimesAre
<1> DEFINE s == Tick * Intervals
           r == Ready(s)
           n == r.n
<1>3. s \in Nat /\ s <= now - sys /\ now \in Int /\ sys \in Int
  <2>1. now \in 1..MaxTime /\ sys \in 1..now /\ now - sys \in Nat /\ Tick \in Nat \ {0}
    BY <1>1, SourceConstants DEF TypeOK
  <2> QED  BY <2>1, IntervalsAre DEF Intervals
<1>4. /\ sys' = sys + s /\ last' = r.last
      /\ queue' = SubSeq(queue, n + 1, Len(queue))
      /\ cur' = (IF n = 0 THEN None ELSE queue[n].frame)
      /\ shown' = (IF n = 0 THEN shown ELSE queue[n].ts)
      /\ UNCHANGED <<now, written, writing>>
  BY DEF VideoTick, main
<1> HIDE DEF s
<1>5. /\ n \in 0..Len(queue) /\ r.last \in Nat
      /\ queue # <<>> => r.last # 0 /\
              \/ (last = 0 \/ OutOfBounds(queue[1].ts)) /\ r.last = queue[1].ts
              \/ ~(last = 0 \/ OutOfBounds(queue[1].ts)) /\ (s <= MaxVar + 1 => r.last >= last + s)
      /\ \A i \in n + 1..Len(queue) : r.last - queue[i].ts < Smooth
  BY <1>1, <1>3, ReadyIs
<1> HIDE DEF r
<1>6. s <= Late /\ s <= MaxVar + 1 /\ now' - sys' <= Late /\ Late \in Nat
  BY <1>2, <1>3, <1>4 DEF Aging, Punctual, Late
<1>7. ASSUME queue # <<>>
      PROVE  sys' - last' <= Lag
  <2>1. 1 \in 1..Len(queue) /\ queue[1].ts \in Int
    BY <1>2, <1>7
  <2> DEFINE t == queue[1].ts
  <2>2. Recent(t)
    BY <2>1 DEF Aging
  <2> HIDE DEF t
  <2>3. CASE (last = 0 \/ OutOfBounds(t)) /\ r.last = t
    <3>1. last' = t /\ sys' = sys + s /\ t \in Int /\ s <= MaxVar + 1 /\ s <= Late /\ Late \in Nat
      BY <1>4, <1>6, <2>1, <2>3 DEF t
    <3>2. {sys, last, s, MaxVar, MaxCopy, Smooth} \subseteq Int /\ Smooth <= MaxVar
      BY <1>2, <1>3
    <3>3. CASE sys - t <= MaxCopy
      BY <3>1, <3>2, <3>3 DEF Lag
    <3>4. CASE last # 0 /\ last - t < Smooth /\ sys - last <= Lag
      <4>1. t - last > MaxVar
        BY <2>3, <3>1, <3>2, <3>4 DEF OutOfBounds
      <4> QED  BY <3>1, <3>2, <3>4, <4>1 DEF Lag
    <3> QED  BY <2>2, <3>3, <3>4 DEF Recent
  <2>4. CASE ~(last = 0 \/ OutOfBounds(t)) /\ (s <= MaxVar + 1 => r.last >= last + s)
    <3>1. sys - last <= Lag
      <4>1. {sys, last, MaxVar, MaxCopy, t} \subseteq Int /\ t - last <= MaxVar
        BY <1>2, <1>3, <2>1, <2>4 DEF OutOfBounds, t
      <4> QED  BY <2>2, <4>1 DEF Recent, Lag
    <3>2. Lag \in Int
      BY <1>2 DEF Lag
    <3>3. last' \in Int /\ last' >= last + s /\ sys' = sys + s
      BY <1>4, <1>5, <1>6, <2>4
    <3>4. sys \in Int /\ last \in Int /\ s \in Int
      BY <1>2, <1>3
    <3>5. PICK a \in Int : a = last'
      BY <3>3
    <3>6. PICK b \in Int : b = sys'
      BY <3>3, <3>4
    <3>7. a >= last + s /\ b = sys + s
      BY <3>3, <3>5, <3>6
    <3>8. b - a <= Lag
      BY <3>1, <3>2, <3>4, <3>7
    <3> QED  BY <3>5, <3>6, <3>8
  <2> QED  BY <1>5, <1>7, <2>3, <2>4 DEF t
<1>8. ASSUME NEW i \in 1..Len(queue')
      PROVE  Recent(queue[i].ts)'
  <2>1. i \in 1..Len(queue) - n /\ queue'[i] = queue[n + i] /\ n + i \in 1..Len(queue)
    BY <1>2, <1>4, <1>5, TailIs
  <2>2. n + i \in n + 1..Len(queue) /\ queue # <<>>
    BY <1>2, <1>5, <2>1
  <2>3. last' - queue'[i].ts < Smooth /\ last' # 0
    BY <1>4, <1>5, <2>1, <2>2
  <2>4. sys' - last' <= Lag
    BY <1>7, <2>2
  <2> QED  BY <2>3, <2>4 DEF Recent, Lag
<1>9. ASSUME cur' # None
      PROVE  sys' - shown' <= Patience
  <2>1. n \in 1..Len(queue) /\ shown' = queue[n].ts /\ queue[n].ts \in Int /\ Recent(queue[n].ts)
    <3>1. n # 0 /\ shown' = queue[n].ts
      BY <1>4, <1>9
    <3>2. n \in 1..Len(queue)
      BY <1>2, <1>5, <3>1
    <3> QED  BY <1>2, <3>1, <3>2 DEF Aging
  <2> DEFINE t == queue[n].ts
  <2> HIDE DEF t
  <2>2. t \in Int /\ shown' = t /\ Recent(t)
    BY <2>1 DEF t
  <2>3. sys - t <= MaxVar + MaxCopy + Smooth
    BY <1>2, <1>3, <2>2 DEF Recent, Lag
  <2>4. sys' = sys + s /\ s <= Tick + MaxLate
    BY <1>4, <1>6 DEF Late
  <2> QED  BY <1>2, <1>3, <2>2, <2>3, <2>4 DEF Patience
<1>10. UNCHANGED <<now, written, writing>>
  BY <1>4
<1> QED  BY <1>6, <1>8, <1>9, <1>10 DEF Aging

LEMMA Ages ==
  ASSUME Punctual, IInv, Aging, [Next]_vars
  PROVE  Aging'
<1>1. TypeOK /\ Ordered
  BY DEF IInv
<1>2. /\ Len(queue) \in Nat /\ last \in Nat /\ queue \in Seq(Waiting)
      /\ {MaxLate, MaxCopy, Tick} \subseteq Nat
  BY <1>1, TimesAre
<1>3. now \in 1..MaxTime /\ sys \in 1..now /\ written \in Int
  BY <1>1, SourceConstants DEF TypeOK
<1>4. ASSUME NEW s \in Size, Receive(s)
      PROVE  Aging'
  <2>1. /\ written' = now /\ UNCHANGED <<now, sys, shown>>
        /\ (queue' = <<>> /\ cur' = None) \/ (queue' = queue /\ cur' = cur /\ last' = last)
        /\ queue' = <<>> \/ last' = last
    BY <1>4 DEF Receive, Overflow, Store
  <2>2. CASE queue' = <<>> /\ cur' = None
    BY <1>2, <1>3, <2>1, <2>2 DEF Aging
  <2>3. CASE queue' = queue /\ cur' = cur /\ last' = last
    BY <1>2, <1>3, <2>1, <2>3 DEF Aging, Recent
  <2> QED  BY <2>1, <2>2, <2>3
<1>5. ASSUME Push
      PROVE  Aging'
  <2>1. /\ writing # None /\ writing' = None /\ UNCHANGED <<now, sys, last, cur, shown, written>>
        /\ queue' = queue \/ queue' = Append(queue, [frame |-> writing, ts |-> written])
    BY <1>5 DEF Push, graphics, Queued
  <2>2. ASSUME NEW i \in 1..Len(queue')
        PROVE  Recent(queue[i].ts)'
    <3>1. (i \in 1..Len(queue) /\ queue'[i] = queue[i]) \/ queue'[i].ts = written
      BY <1>2, <2>1
    <3>2. CASE i \in 1..Len(queue) /\ queue'[i] = queue[i]
      BY <2>1, <3>2 DEF Aging, Recent
    <3>3. CASE queue'[i].ts = written
      BY <1>2, <1>3, <2>1, <3>3 DEF Aging, Recent
    <3> QED  BY <3>1, <3>2, <3>3
  <2> QED  BY <2>1, <2>2 DEF Aging
<1>6. ASSUME GetFrame \/ ReleaseFrame \/ TextureFails
      PROVE  Aging'
  <2>1. /\ UNCHANGED <<now, sys, last, queue, writing, written, shown>>
        /\ cur' \in {None, cur}
    BY <1>6 DEF GetFrame, ReleaseFrame, TextureFails, main
  <2> QED  BY <2>1 DEF Aging, Recent
<1>7. ASSUME Advance
      PROVE  Aging'
  <2>1. /\ UNCHANGED <<sys, last, queue, writing, written, shown, cur>>
        /\ now' = now + 1 /\ now - sys < Late /\ (writing # None => now < written + MaxCopy)
    BY <1>7 DEF Advance, main, graphics, Late
  <2>2. Late \in Nat
    BY <1>2 DEF Late
  <2>3. now' - sys <= Late /\ (writing # None => now' - written <= MaxCopy)
    BY <1>2, <1>3, <2>1, <2>2
  <2> QED  BY <2>1, <2>3 DEF Aging, Recent, Late
<1>8. ASSUME UNCHANGED vars
      PROVE  Aging'
  BY <1>8 DEF vars, Aging, Recent
<1> QED  BY <1>4, <1>5, <1>6, <1>7, <1>8, TickAges DEF Next

LEMMA AgesAtFirst ==
  ASSUME Init
  PROVE  Aging
<1>1. {MaxLate, Tick} \subseteq Nat
  BY SourceConstants
<1> QED  BY <1>1 DEF Init, Aging, Late

LEMMA AgingFollows ==
  ASSUME Punctual, IInv, Aging
  PROVE  NoneWaitsLong
<1>1. TypeOK /\ Ordered
  BY DEF IInv
<1>2. /\ Len(queue) \in Nat /\ last \in Nat /\ queue \in Seq(Waiting) /\ sys \in Int
      /\ {Smooth, MaxVar, Tick, MaxLate, MaxCopy} \subseteq Nat /\ Tick > 0
      /\ \A i \in 1..Len(queue) : queue[i].ts \in Int
  BY <1>1, TimesAre DEF TypeOK
<1>3. ASSUME NEW i \in 1..Len(queue)
      PROVE  sys - queue[i].ts <= Patience
  <2> DEFINE t == queue[i].ts
  <2>1. t \in Int /\ Recent(t)
    BY <1>2 DEF Aging
  <2> HIDE DEF t
  <2>2. sys - t <= Patience
    BY <1>2, <2>1 DEF Recent, Patience, Lag
  <2> QED  BY <2>2 DEF t
<1>4. cur # None => sys - shown <= Patience
  BY DEF Aging
<1>5. ASSUME NEW t \in {a.ts : a \in Range(queue)}
      PROVE  sys - t <= Patience
  <2>1. \E i \in 1..Len(queue) : t = queue[i].ts
    BY <1>2 DEF Range
  <2> QED  BY <1>3, <2>1
<1> QED  BY <1>4, <1>5 DEF NoneWaitsLong

(* With a graphics thread that is never later than a jump in time, no      *)
(* frame waits, and none is shown, beyond the jump and an interval.        *)
THEOREM NoFrameWaitsLong ==
  ASSUME Punctual
  PROVE  Spec => []NoneWaitsLong
<1>1. Init => Aging
  BY AgesAtFirst
<1>2. IInv /\ Aging /\ [Next]_vars => Aging'
  BY Ages
<1>3. IInv /\ Aging => NoneWaitsLong
  BY AgingFollows
<1> QED  BY <1>1, <1>2, <1>3, Invariance, PTL DEF Spec
=============================================================================
