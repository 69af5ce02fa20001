------------------------------ MODULE IoUring ------------------------------
(***************************************************************************)
(* The two queues of an io_uring as liburing.h and the repository's two      *)
(* callers use them: IoUringAioFlushService of nanolog (Service.hpp) and the *)
(* loop and the handlers of the file server.  Both take an entry, fill it and *)
(* submit.  The server's loop waits for completions, handles them and gives  *)
(* them back; the service has that in a function nothing calls, so its       *)
(* behaviours are those in which no completion is ever looked at.  The heads *)
(* and tails are unsigned counters that wrap round.                          *)
(*                                                                         *)
(* io_uring_submit and __io_uring_get_cqe are in the compiled library, the   *)
(* other ends of the queues in the kernel: both are external.  A submit may  *)
(* take any number of the entries, none if it fails; no caller looks at its   *)
(* result.  A request is an object until its completion is handled: it is     *)
(* then freed, and its name free for another, or submitted once more.        *)
(***************************************************************************)
EXTENDS UringPrep, Sequences, SequencesExt

CONSTANTS
  Requests,   \* the requests that can be under way at once
  HelperOf,   \* the helper that fills the entry of each
  Finishing,  \* those whose operation ends; an accept may wait for ever
  Entries,    \* the size of the submission queue
  CqEntries,  \* the size of the completion queue (twice as many)
  Modulus     \* the counters wrap round at this number (2^32)

ASSUME UringAssumption ==
  /\ Entries \in Nat \ {0} /\ CqEntries \in Nat \ {0} /\ Modulus \in Nat
  /\ Entries <= CqEntries /\ CqEntries + 1 < Modulus  \* one more than full is not 0
  /\ Modulus % Entries = 0 /\ Modulus % CqEntries = 0
  /\ Requests \subseteq Nat \ {0} /\ HelperOf \in [Requests -> DOMAIN Own]
  /\ Finishing \subseteq Requests

LIBURING_UDATA_TIMEOUT == -1

VARIABLES
  sqes, sqHead, sqeTail,     \* the submission queue: *khead and sqe_tail
  cqes, cqHead, cqTail,      \* the completion queue: *khead and *ktail
  submitter,                 \* where it is (or the process dead), its entry, its request
  reaper,                    \* where it is, the completion it has
  pending,                   \* the requests submitted and not yet handled
  queued,                    \* the requests taken into the queue, in order
  inflight,                  \* the user_data of what the kernel has taken
  posted                     \* the user_data of what it has posted, in order

sq == <<sqes, sqHead, sqeTail, queued>>
cq == <<cqes, cqHead, cqTail, posted>>
uringVars == <<sq, cq, submitter, reaper, pending, inflight>>

Idle == [at |-> "idle", slot |-> 0, request |-> 0]

UringInit ==
  /\ sqes = [i \in 0..(Entries - 1) |-> Blank] /\ cqes = [i \in 0..(CqEntries - 1) |-> 0]
  /\ sqHead = 0 /\ sqeTail = 0 /\ cqHead = 0 /\ cqTail = 0
  /\ submitter = Idle
  /\ reaper = [at |-> "idle", slot |-> 0]
  /\ pending = {} /\ inflight = {}
  /\ queued = <<>> /\ posted = <<>>

-----------------------------------------------------------------------------
(* Unsigned arithmetic.                                                     *)

Plus(a, n) == (a + n) % Modulus
Minus(a, b) == (a - b) % Modulus

io_uring_sq_ready == Minus(sqeTail, sqHead)
io_uring_sq_space_left == Entries - io_uring_sq_ready
io_uring_cq_ready == Minus(cqTail, cqHead)

-----------------------------------------------------------------------------
(* Submitting.                                                              *)

(* Mutant: the comparison is written as if the counters did not wrap.        *)
VacantIfCountersGrow == Plus(sqeTail, 1) <= sqHead + Entries

Vacant == Minus(Plus(sqeTail, 1), sqHead) <= Entries

(* aio_flush, or a handler, takes an entry for its request.                 *)
io_uring_get_sqe(r) ==
  /\ submitter.at = "idle" /\ r \notin pending
  /\ Vacant
  /\ submitter' = [at |-> "empty", slot |-> sqeTail % Entries, request |-> r]
  /\ sqeTail' = Plus(sqeTail, 1)
  /\ queued' = Append(queued, r)
  /\ pending' = pending \union {r}
  /\ UNCHANGED <<sqes, sqHead, cq, reaper, inflight>>

(* No caller checks for NULL: the process ends as it fills the entry.        *)
NullSqe ==
  /\ submitter.at = "idle" /\ ~Vacant
  /\ submitter' = [Idle EXCEPT !.at = "dead"]
  /\ UNCHANGED <<sq, cq, reaper, pending, inflight>>

(* The helper and io_uring_sqe_set_data come in either order, and nobody else  *)
(* looks at the entry in between: the server prepares first, SqeFlusher::flush *)
(* sets the data first.                                                      *)
FillEntry ==
  /\ submitter.at = "empty"
  /\ LET r == submitter.request
         sqe == sqes[submitter.slot]
         prep(e) == Prep(HelperOf[r], e, r)
     IN \E entry \in {prep(SetData(sqe, r)), SetData(prep(sqe), r)} :
          sqes' = [sqes EXCEPT ![submitter.slot] = entry]
  /\ submitter' = [submitter EXCEPT !.at = "full"]
  /\ UNCHANGED <<sqHead, sqeTail, queued, cq, reaper, pending, inflight>>

(* io_uring_submit: the kernel takes some of the entries, oldest first.      *)
io_uring_submit(n) ==
  /\ submitter.at = "full" /\ n \in 0..io_uring_sq_ready
  /\ sqHead' = Plus(sqHead, n)
  /\ inflight' = inflight \union
       {sqes[Plus(sqHead, i) % Entries].user_data : i \in 0..(n - 1)}
  /\ queued' = SubSeq(queued, n + 1, Len(queued))
  /\ submitter' = Idle
  /\ UNCHANGED <<sqes, sqeTail, cq, reaper, pending>>

-----------------------------------------------------------------------------
(* The kernel.                                                              *)

Post(data) ==
  /\ io_uring_cq_ready < CqEntries
  /\ cqes' = [cqes EXCEPT ![cqTail % CqEntries] = data]
  /\ cqTail' = Plus(cqTail, 1)
  /\ posted' = Append(posted, data)
  /\ UNCHANGED <<sq, cqHead, submitter, reaper, pending>>

(* Completions come in any order; what finds no room waits.                 *)
Deliver(r) == r \in inflight /\ inflight' = inflight \ {r} /\ Post(r)

(* The time-out of an earlier wait, on a kernel without EXT_ARG.            *)
DeliverTimeout == ~Contains(posted, LIBURING_UDATA_TIMEOUT) /\ Post(LIBURING_UDATA_TIMEOUT) /\ UNCHANGED inflight

-----------------------------------------------------------------------------
(* The loop that waits for completions.                                     *)

Cqe == cqes[cqHead % CqEntries]

(* What is given back the kernel may overwrite: it is gone.                 *)
io_uring_cq_advance(n) ==
  /\ cqHead' = Plus(cqHead, n)
  /\ cqes' = [i \in DOMAIN cqes |-> IF Minus(i, cqHead) % CqEntries < n THEN 0 ELSE cqes[i]]
  /\ posted' = SubSeq(posted, n + 1, Len(posted))
  /\ UNCHANGED <<sq, cqTail, submitter, inflight>>

(* __io_uring_peek_cqe passes over the library's own time-outs.             *)
SkipTimeout ==
  /\ reaper.at = "idle" /\ io_uring_cq_ready # 0 /\ Cqe = LIBURING_UDATA_TIMEOUT
  /\ io_uring_cq_advance(1)
  /\ UNCHANGED <<reaper, pending>>

(* Mutant: the completion is given back as soon as it is found.             *)
PeekAndAdvance ==
  /\ reaper.at = "idle" /\ io_uring_cq_ready # 0 /\ Cqe # LIBURING_UDATA_TIMEOUT
  /\ reaper' = [at |-> "have", slot |-> cqHead % CqEntries]
  /\ io_uring_cq_advance(1)
  /\ UNCHANGED pending

(* io_uring_wait_cqe returns a pointer into the queue.                      *)
io_uring_wait_cqe ==
  /\ reaper.at = "idle" /\ io_uring_cq_ready # 0 /\ Cqe # LIBURING_UDATA_TIMEOUT
  /\ reaper' = [at |-> "have", slot |-> cqHead % CqEntries]
  /\ UNCHANGED <<sq, cq, submitter, pending, inflight>>

(* The process ends when waiting fails, or at a negative result; no entry is  *)
(* half filled then.                                                         *)
ServerExits ==
  /\ submitter.at = "idle" /\ reaper.at \in {"idle", "have"}
  /\ submitter' = [Idle EXCEPT !.at = "dead"]
  /\ UNCHANGED <<sq, cq, reaper, pending, inflight>>

(* The request that the completion names is handled: what follows from it is  *)
(* submitted, and it is freed or submitted itself.                           *)
handle ==
  /\ reaper.at = "have"
  /\ reaper' = [reaper EXCEPT !.at = "used"]
  /\ pending' = pending \ {cqes[reaper.slot]}
  /\ UNCHANGED <<sq, cq, submitter, inflight>>

(* Mutant: the completion is never given back.                              *)
SeenForgotten ==
  /\ reaper.at = "used"
  /\ reaper' = [at |-> "idle", slot |-> 0]
  /\ UNCHANGED <<sq, cq, submitter, pending, inflight>>

io_uring_cqe_seen ==
  /\ reaper.at = "used"
  /\ reaper' = [at |-> "idle", slot |-> 0]
  /\ io_uring_cq_advance(1)
  /\ UNCHANGED pending

-----------------------------------------------------------------------------
Submitting ==
  \/ \E r \in Requests : io_uring_get_sqe(r)
  \/ NullSqe
  \/ FillEntry
  \/ \E n \in 0..Entries : io_uring_submit(n)
Reaping == SkipTimeout \/ io_uring_wait_cqe \/ handle \/ io_uring_cqe_seen

Alive == submitter.at # "dead"

UringNext ==
  Alive /\ (Submitting \/ Reaping \/ ServerExits \/ DeliverTimeout \/ \E r \in Requests : Deliver(r))

(* The server's loop runs.  When a full queue empties the kernel posts what   *)
(* had to wait, of the operations that end.                                  *)
UringSpec == /\ UringInit /\ [][UringNext]_uringVars
             /\ WF_uringVars(Alive /\ Reaping)
             /\ \A r \in Finishing : SF_uringVars(Alive /\ Deliver(r))

-----------------------------------------------------------------------------
UringTypeOK ==
  /\ sqHead \in 0..(Modulus - 1) /\ sqeTail \in 0..(Modulus - 1)
  /\ cqHead \in 0..(Modulus - 1) /\ cqTail \in 0..(Modulus - 1)
  /\ sqes \in [0..(Entries - 1) -> [Fields -> Requests \union {0}]]
  /\ pending \subseteq Requests /\ inflight \subseteq Requests
  /\ submitter.at \in {"idle", "empty", "full", "dead"}
  /\ reaper.at \in {"idle", "have", "used"}

(* The counters tell, across their wrap, how many entries wait for the        *)
(* kernel; each of them but the one being filled is its request's, every       *)
(* field of it, whatever its slot held before.                               *)
SqIntact ==
  /\ UringTypeOK /\ NothingStale
  /\ Len(queued) = io_uring_sq_ready /\ io_uring_sq_space_left >= 0
  /\ \A i \in 1..Len(queued) :
       i < Len(queued) \/ submitter.at # "empty" =>
         sqes[Plus(sqHead, i - 1) % Entries] = Entry(HelperOf[queued[i]], queued[i])

(* A completion stays what it was posted as until it has been given back, and *)
(* none is used twice: those in the queue are of distinct requests, and those *)
(* not yet used are of requests not yet handled.                             *)
CqIntact ==
  /\ Len(posted) = io_uring_cq_ready /\ io_uring_cq_ready <= CqEntries
  /\ \A i \in 1..Len(posted) : cqes[Plus(cqHead, i - 1) % CqEntries] = posted[i]
  /\ reaper.at # "idle" => posted # <<>> /\ reaper.slot = cqHead % CqEntries
  /\ LET fresh == IF reaper.at = "used" THEN Tail(posted) ELSE posted
     IN IsInjective(fresh) /\ ToSet(fresh) \subseteq pending \union {LIBURING_UDATA_TIMEOUT}

(* A request whose operation ends is handled, even if other requests go on    *)
(* for ever, some never end and the completion queue fills up; unless the      *)
(* process ends first.                                                       *)
EveryRequestHandled == \A r \in Finishing : r \in inflight ~> r \notin pending \/ ~Alive
=============================================================================
