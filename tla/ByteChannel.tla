---------------------------- MODULE ByteChannel ----------------------------
(***************************************************************************)
(* What a miniOS pipe promises (pipe.h): a bounded first-in-first-out      *)
(* channel of bytes.  Bytes leave in the order they entered, none is lost, *)
(* duplicated or invented while the channel is open, and a newly opened    *)
(* channel is empty.                                                       *)
(***************************************************************************)
EXTENDS Naturals, Sequences

CONSTANTS Byte, Capacity

VARIABLES open,      \* whether some process or call still holds an end
          queue,     \* the bytes in the channel, oldest first
          ret        \* the bytes the last step returned to a reader

Init == open = FALSE /\ queue = <<>> /\ ret = <<>>

Open == ~open /\ open' /\ queue' = <<>> /\ ret' = <<>>

\* Some more bytes enter at the end, as far as there is room.
Send ==
    /\ open
    /\ \E n \in 1..(Capacity - Len(queue)) : \E d \in [1..n -> Byte] :
          queue' = queue \o d
    /\ ret' = <<>>
    /\ UNCHANGED open

\* Some of the oldest bytes leave and are returned.
Receive ==
    /\ open
    /\ \E n \in 1..Len(queue) :
          /\ ret' = SubSeq(queue, 1, n)
          /\ queue' = SubSeq(queue, n + 1, Len(queue))
    /\ UNCHANGED open

\* The last end is dropped, perhaps by the read that returned some bytes.
Close ==
    /\ open
    /\ ~open'
    /\ queue' = <<>>
    /\ \E n \in 0..Len(queue) : ret' = SubSeq(queue, 1, n)

\* A step that moves no byte.
Other == ret' = <<>> /\ UNCHANGED <<open, queue>>

Next == Open \/ Send \/ Receive \/ Close \/ Other

Spec == Init /\ [][Next]_<<open, queue, ret>>
=============================================================================
