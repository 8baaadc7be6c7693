--------------------------- MODULE MCAsyncSource ---------------------------
(***************************************************************************)
(* What the picture of the source relies on.                               *)
(***************************************************************************)
EXTENDS AsyncSource

TypeOK ==
  /\ now \in 1..MaxTime /\ sys \in 1..now /\ last \in Nat
  /\ written \in -Gap..now /\ size \in Size \cup {None}
  /\ refs \in [Frame -> 0..2]
  /\ {writing, cur, reading} \subseteq Frame \cup {None} /\ leaked \subseteq Frame
  /\ cache \in Seq([frame : Frame, used : BOOLEAN, unused : 0..MaxUnused])
  /\ queue \in Seq([frame : Frame, ts : 1..MaxTime])

(* How many hands each frame is in.                                        *)
Holders(f) ==
  Cardinality({h \in {"cache", "writer", "reader", "leak"} :
    \/ h = "cache" /\ f \in Cached(cache)
    \/ h = "writer" /\ f = writing
    \/ h = "reader" /\ f = reading
    \/ h = "leak" /\ f \in leaked})

(* A frame has one use at a time: it is written, queued once, picked or    *)
(* uploaded; the cache gives out no frame that has one.                    *)
Uses(f) ==
  Cardinality({i \in DOMAIN queue : queue[i].frame = f})
    + Cardinality({u \in {"writing", "cur", "reading"} :
        f = CASE u = "writing" -> writing [] u = "cur" -> cur [] u = "reading" -> reading})

OneUse ==
  /\ \A f \in Frame : Uses(f) <= 1
  /\ \A i \in DOMAIN cache :
       Uses(cache[i].frame) = 1 \/ cache[i].frame \in leaked <=> cache[i].used

(* A reference count is the number of hands the frame is in: none is freed *)
(* under a reader, and none but those of a failed upload is lost.  And no  *)
(* hand gets a frame another one uses.                                     *)
RefsExact == TypeOK /\ OneUse /\ \A f \in Frame : refs[f] = Holders(f)

(* The frames shown are ever newer.                                        *)
ShownInOrder == [][shown' # shown => shown' > shown]_vars

Patience == MaxVar + Smooth + Tick + MaxLate + MaxCopy

(* After a tick no frame waits, and none is shown, that is older than a    *)
(* jump in time and an interval.                                           *)
NoneWaitsLong ==
  \A t \in {a.ts : a \in Range(queue)} \cup (IF cur = None THEN {} ELSE {shown}) :
    sys - t <= Patience
=============================================================================
