------------------------------ MODULE LogFifo ------------------------------
(***************************************************************************)
(* What a ring of nanolog promises its two threads: a bounded queue of       *)
(* bytes.  Whole messages go in at one end, any number of bytes comes out at *)
(* the other, in order.                                                      *)
(***************************************************************************)
EXTENDS Integers, Sequences

CONSTANTS
  Capacity,   \* one more than the queue can hold
  MaxSize,    \* the largest message
  MaxBytes    \* bound: how many bytes are logged

VARIABLES
  queue,      \* the bytes logged and not yet taken
  logged      \* how many bytes have been logged

Init == queue = <<>> /\ logged = 0

(* A message of n bytes goes in whole, once there is room for it.            *)
Log(n) ==
  /\ Len(queue) + n < Capacity /\ logged + n <= MaxBytes
  /\ queue' = queue \o [i \in 1..n |-> logged + i - 1]
  /\ logged' = logged + n

(* The oldest n bytes come out.                                             *)
Take(n) ==
  /\ queue' = SubSeq(queue, n + 1, Len(queue))
  /\ UNCHANGED logged

Next ==
  \/ \E n \in 1..MaxSize : Log(n)
  \/ \E n \in 1..Len(queue) : Take(n)

Spec == Init /\ [][Next]_<<queue, logged>>
=============================================================================
