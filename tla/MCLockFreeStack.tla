--------------------------- MODULE MCLockFreeStack ---------------------------
(***************************************************************************)
(* Instances of LockFreeStack for TLC.                                       *)
(***************************************************************************)
EXTENDS LockFreeStack
CONSTANTS p1, p2, c1, c2, main, n1, n2, n3, n4

Use(p, c, b, m) == [producers |-> p, consumers |-> c, background |-> b, pushes |-> m]

(* Three pushes on two addresses: a head can be popped, freed, and pushed    *)
(* again at the same address with another node below it.                    *)
OneProducer == {Use({p1}, {c1, c2}, FALSE, 3), Use({p1}, {c1, c2}, TRUE, 2)}
TwoProducers == {Use({p1, p2}, {c1}, FALSE, 3)}

(* Consumers and the destroying thread have a slot each, in the order they  *)
(* registered; Push never registers its thread.                             *)
TwoSlots == [t \in Threads |-> IF t = c1 THEN 1 ELSE IF t = main THEN 2 ELSE 0]
ThreeSlots == [t \in Threads |-> IF t = c1 THEN 1 ELSE IF t = c2 THEN 2
                                 ELSE IF t = main THEN 3 ELSE 0]
=============================================================================
