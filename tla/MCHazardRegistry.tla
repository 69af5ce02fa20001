-------------------------- MODULE MCHazardRegistry --------------------------
(***************************************************************************)
(* Instances of HazardRegistry for TLC.  One thread calls every function,    *)
(* like a thread that pops and pushes; the others only call access, like     *)
(* the producers of a queue, and are interchangeable.                        *)
(***************************************************************************)
EXTENDS HazardRegistry, TLC
CONSTANTS t1, t2, t3, s1, n1

MainUsesAll == [t \in Threads |-> IF t = t1 THEN Functions ELSE {"Store"}]
OtherThreads == Permutations(Threads \ {t1})
=============================================================================
