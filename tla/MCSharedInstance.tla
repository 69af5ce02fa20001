-------------------------- MODULE MCSharedInstance --------------------------
(***************************************************************************)
(* An instance of SharedInstance for TLC: the main thread, another one, and  *)
(* a worker of the pool.                                                    *)
(***************************************************************************)
EXTENDS SharedInstance
CONSTANTS main, t1, w1, o1, o2
=============================================================================
