--------------------------- MODULE MCLockFreeQueue ---------------------------
(***************************************************************************)
(* Instances of LockFreeQueue for TLC.                                       *)
(***************************************************************************)
EXTENDS LockFreeQueue
CONSTANTS p1, p2, c1, c2, main, n1, n2, n3, n4

Use(p, c, b, m) == [producers |-> p, consumers |-> c, background |-> b, pushes |-> m]

(* One producer and one consumer with and without the background thread, or *)
(* two producers and only the destructor to pop.                            *)
Sound == {Use({p1}, {c1}, b, 4) : b \in BOOLEAN} \cup {Use({p1, p2}, {}, FALSE, 3)}
TwoProducers == {Use({p1, p2}, {c1}, FALSE, 3)}

(* Both Push and Pop register their thread, so each thread of a use has a   *)
(* slot, in the order they registered; p2 and c1 run in different uses.     *)
OneEach == [t \in Threads |-> CASE t = p1 -> 1 [] t = main -> 3 [] OTHER -> 2]
TwoAndMain == [t \in Threads |-> CASE t = p1 -> 1 [] t = p2 -> 2 [] OTHER -> 3]
=============================================================================
