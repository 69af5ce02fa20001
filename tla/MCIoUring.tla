----------------------------- MODULE MCIoUring -----------------------------
(* Three requests of the server: an accept, which may never end, a read, and  *)
(* a splice, which set different fields.                                    *)
EXTENDS IoUring
MCRequests == 1..3
MCHelperOf == <<"accept", "readv", "splice">>
MCFinishing == {2, 3}
=============================================================================
