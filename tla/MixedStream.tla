---------------------------- MODULE MixedStream ----------------------------
(***************************************************************************)
(* What the audio mixer promises, with no buffer, cursor or lock in it:    *)
(* two streams of numbered samples are queued, and a delivered block pairs *)
(* the oldest queued samples of both, in order and without repetition.     *)
(* A queue may shed old samples, but only when it is nearly full, and one  *)
(* of the two may lose a block that was taken from it and never delivered. *)
(***************************************************************************)
EXTENDS Integers

CONSTANT Capacity   \* samples one queue holds

VARIABLES
    written,    \* written[c]: samples ever queued on channel c
    next,       \* next[c]: the oldest sample of channel c not taken yet
    block       \* the last block delivered: a function from places to pairs

vars == <<written, next, block>>

Channels == {"captured", "channel2"}

Backlog(c) == written[c] + 1 - next[c]

Init ==
    /\ written = [c \in Channels |-> 0]
    /\ next = [c \in Channels |-> 1]
    /\ block = [i \in 0 .. -1 |-> <<0, 0>>]

\* n new samples arrive on c.  Shedding starts once the queue has no room for
\* twice the new block, and sheds no more than the size of the new block.
Enqueue(c) ==
    \E n \in 1 .. Capacity, shed \in 0 .. Capacity :
        /\ shed <= n
        /\ shed <= Backlog(c)
        /\ shed > 0 => Backlog(c) + 2 * n > Capacity + 1
        /\ Backlog(c) - shed + n <= Capacity
        /\ written' = [written EXCEPT ![c] = @ + n]
        /\ next' = [next EXCEPT ![c] = @ + shed]
        /\ UNCHANGED block

Deliver ==
    \E n \in 0 .. Capacity :
        /\ \A c \in Channels : n <= Backlog(c)
        /\ next' = [c \in Channels |-> next[c] + n]
        /\ block' = [i \in 0 .. n - 1 |->
                        <<next["captured"] + i, next["channel2"] + i>>]
        /\ UNCHANGED written

\* A block taken from one channel only: the samples of c are lost, and what is
\* handed out is empty.
LoseBlock(c) ==
    \E n \in 1 .. Capacity :
        /\ n <= Backlog(c)
        /\ next' = [next EXCEPT ![c] = @ + n]
        /\ block' = [i \in 0 .. -1 |-> <<0, 0>>]
        /\ UNCHANGED written

Next == Deliver \/ \E c \in Channels : Enqueue(c) \/ LoseBlock(c)

Spec == Init /\ [][Next]_vars

=============================================================================
