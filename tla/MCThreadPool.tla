---------------------------- MODULE MCThreadPool ----------------------------
(***************************************************************************)
(* An instance of ThreadPool for TLC: k1 posts k2 and may wait for it; the   *)
(* other tasks come from the posters.                                       *)
(***************************************************************************)
EXTENDS ThreadPool
CONSTANTS w1, w2, p1, p2, main, k1, k2, k3, k4

ChainOfTwo == [k \in Tasks |-> IF k = k1 THEN k2 ELSE NoTask]
FirstWaits == {k1}
=============================================================================
