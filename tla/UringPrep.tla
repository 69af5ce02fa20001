----------------------------- MODULE UringPrep -----------------------------
(***************************************************************************)
(* The helpers of liburing.h that fill a submission queue entry.  All of     *)
(* them go through io_uring_prep_rw.  A field is named as io_uring_prep_rw    *)
(* names it, its unions by their first use there (splice_off_in is addr,      *)
(* splice_fd_in is file_index, every *_flags is rw_flags, buf_group is        *)
(* buf_index).  A value is 0 or the request it belongs to.                   *)
(***************************************************************************)
EXTENDS Integers, TLC

RwFields == {"fd", "addr", "len", "off"}
Fields == RwFields \union
  {"opcode", "flags", "ioprio", "rw_flags", "buf_index", "personality", "file_index",
   "addr3", "user_data"}

-----------------------------------------------------------------------------
(* For each helper, the fields that it gives a value of its own, be it        *)
(* through io_uring_prep_rw or afterwards.                                   *)

SpliceAndVectors ==
  [splice |-> RwFields \union {"file_index", "rw_flags"},
   tee |-> {"fd", "len", "file_index", "rw_flags"},
   readv |-> RwFields, readv2 |-> RwFields \union {"rw_flags"},
   read_fixed |-> RwFields \union {"buf_index"},
   writev |-> RwFields, writev2 |-> RwFields \union {"rw_flags"},
   write_fixed |-> RwFields \union {"buf_index"}]

MessagesAndPolls ==
  [recvmsg |-> {"fd", "addr", "len", "rw_flags"},
   sendmsg |-> {"fd", "addr", "len", "rw_flags"},
   poll_add |-> {"fd", "rw_flags"},
   poll_multishot |-> {"fd", "rw_flags", "len"},
   poll_remove |-> {"fd", "addr"},
   poll_update |-> RwFields \union {"rw_flags"}]

TimersAndAccepts ==
  LET accept == {"fd", "addr", "off", "rw_flags"}
  IN [fsync |-> {"fd", "rw_flags"},
      nop |-> {"fd"},
      timeout |-> RwFields \union {"rw_flags"},
      timeout_remove |-> {"fd", "addr", "rw_flags"},
      timeout_update |-> {"fd", "addr", "off", "rw_flags"},
      accept |-> accept,
      accept_direct |-> accept \union {"file_index"},
      multishot_accept |-> accept \union {"ioprio"},
      multishot_accept_direct |-> accept \union {"ioprio", "file_index"},
      cancel |-> {"fd", "addr", "rw_flags"},
      cancel_fd |-> {"fd", "rw_flags"},
      link_timeout |-> {"fd", "addr", "len", "rw_flags"}]

FilesAndSends ==
  [connect |-> {"fd", "addr", "off"},
   files_update |-> RwFields,
   fallocate |-> RwFields,
   openat |-> {"fd", "addr", "len", "rw_flags"},
   openat_direct |-> {"fd", "addr", "len", "rw_flags", "file_index"},
   close |-> {"fd"},
   close_direct |-> {"file_index"},
   read |-> RwFields, write |-> RwFields,
   statx |-> RwFields \union {"rw_flags"},
   fadvise |-> {"fd", "len", "off", "rw_flags"},
   madvise |-> {"fd", "addr", "len", "rw_flags"},
   send |-> {"fd", "addr", "len", "rw_flags"},
   recv |-> {"fd", "addr", "len", "rw_flags"},
   openat2 |-> RwFields, openat2_direct |-> RwFields \union {"file_index"}]

NamesAndBuffers ==
  [epoll_ctl |-> RwFields,
   provide_buffers |-> RwFields \union {"buf_index"},
   remove_buffers |-> {"fd", "buf_index"},
   shutdown |-> {"fd", "len"},
   unlinkat |-> {"fd", "addr", "rw_flags"},
   renameat |-> RwFields \union {"rw_flags"},
   sync_file_range |-> {"fd", "len", "off", "rw_flags"},
   mkdirat |-> {"fd", "addr", "len"},
   symlinkat |-> {"fd", "addr", "off"},
   linkat |-> RwFields \union {"rw_flags"}]

AttributesAndSockets ==
  LET socket == {"fd", "len", "off", "rw_flags"}
  IN [msg_ring |-> socket,
      getxattr |-> {"addr", "len", "off", "addr3"},
      setxattr |-> {"addr", "len", "off", "addr3", "rw_flags"},
      fgetxattr |-> RwFields, fsetxattr |-> RwFields \union {"rw_flags"},
      socket |-> socket, socket_direct |-> socket \union {"file_index"}]

Own == SpliceAndVectors @@ MessagesAndPolls @@ TimersAndAccepts @@ FilesAndSends
       @@ NamesAndBuffers @@ AttributesAndSockets

-----------------------------------------------------------------------------
Blank == [x \in Fields |-> 0]

(* io_uring_prep_rw writes every field but user_data.                       *)
PrepRw(sqe, request) ==
  [x \in Fields |-> IF x = "user_data" THEN sqe[x] ELSE IF x = "opcode" THEN request ELSE 0]

Prep(helper, sqe, request) ==
  LET cleared == PrepRw(sqe, request)
  IN [x \in Fields |-> IF x \in Own[helper] THEN request ELSE cleared[x]]

SetData(sqe, request) == [sqe EXCEPT !.user_data = request]

(* What the entry of a request should hold.                                 *)
Entry(helper, request) ==
  [x \in Fields |-> IF x \in Own[helper] \union {"opcode", "user_data"} THEN request ELSE 0]

(* After any two helpers in a row the entry is the second one's alone.       *)
NothingStale ==
  \A f, g \in DOMAIN Own :
    SetData(Prep(g, SetData(Prep(f, Blank, 1), 1), 2), 2) = Entry(g, 2)
=============================================================================
