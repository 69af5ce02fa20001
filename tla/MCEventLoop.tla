----------------------------- MODULE MCEventLoop -----------------------------
(***************************************************************************)
(* Instances of EventLoop for TLC: files that fit in a pipe, that do not,    *)
(* and that are empty.                                                       *)
(***************************************************************************)
EXTENDS EventLoop
CONSTANTS c1, c2

Files == [small |-> 1, large |-> 3, empty |-> 0]
=============================================================================
