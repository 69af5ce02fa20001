------------------------------ MODULE MCLogger ------------------------------
(* Two logging threads, one that calls sync and one that changes the file.   *)
EXTENDS Logger
CONSTANTS p1, p2, s1, rot
MCProducers == {p1, p2}
MCCallers == {s1}
MCMessageSizes == {4}
=============================================================================
