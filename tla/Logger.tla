------------------------------- MODULE Logger -------------------------------
(***************************************************************************)
(* The IO thread of nanolog (nanolog/Logger.cpp, Logger.hpp, SwapBuffer.hpp): *)
(* its rounds over the rings of the logging threads, the swap buffer and its *)
(* flush, and the two calls that wait for it, sync and set_log_file.         *)
(*                                                                         *)
(* A ring is what LoggerRing promises: bytes committed, bytes consumed, and a *)
(* peek that gives some of those in between.  A section under mSyncMutex or   *)
(* mThreadBufferMutex is one step.  mWorkAddedVariable is waited for with a   *)
(* time-out, so a notification of it only shortens the wait.                 *)
(*                                                                         *)
(* Nobody calls get_cqe_request_ptr: a flush completes by Reap, which may come *)
(* at any time or never.  And no flush writes: every iov_len is 0.           *)
(*                                                                         *)
(* Two steps that every message takes are undefined: a thread's first log      *)
(* uses a pointer that nothing has set (Logger.hpp:81-90), and the first load  *)
(* copies to the last block of no blocks (SwapBuffer.hpp:54).  Each is a       *)
(* choice: the process ends, or what was meant happens.  "mishaps" records    *)
(* which were taken.                                                        *)
(***************************************************************************)
EXTENDS Integers, Sequences, FiniteSets, Functions

CONSTANTS
  Producers,      \* the logging threads
  Callers,        \* the threads that call sync
  Rotator,        \* the thread that calls set_log_file
  MessageSizes,   \* the sizes of a commit
  BlockSize,      \* loadingIovecCapacity
  MaxBytes,       \* bound: the bytes committed
  MaxCalls        \* bound: the calls of sync and of set_log_file

ASSUME LoggerAssumption ==
  /\ BlockSize \in Nat \ {0} /\ MaxBytes \in Nat /\ MaxCalls \in Nat
  /\ MessageSizes \subseteq Nat \ {0} /\ IsFiniteSet(Producers)
  /\ Rotator \notin Callers

BufferLimit == 4 * BlockSize     \* defaultBufferCapacityLimit
HighWaterMark == 3 * BlockSize   \* swapBufferHighWaterMark

Threads == Callers \union {Rotator}
Nothing == [p \in Producers |-> 0]

VARIABLES
  mThreadLoggerBufferPtrs,  \* the rings, each named by its thread
  committed, consumed,      \* the bytes of each ring
  mLoadedBufferSize, mIsFull, mCurLoadingPos,
  blocks,                   \* the length of mLoadingBufferVector
  mFlushFuture, mIsAioing,
  mSyncStatus, mBGThreadStatus,
  io,                       \* the IO thread: where it is, and its locals
  pc, target,               \* each caller: where it is, and what its sync is for
  calls,                    \* the calls made so far
  mishaps

rings == <<mThreadLoggerBufferPtrs, committed>>
swap == <<mLoadedBufferSize, mIsFull, mCurLoadingPos, blocks>>
flush == <<mFlushFuture, mIsAioing>>
callers == <<pc, target, calls>>
status == <<mSyncStatus, mBGThreadStatus>>
vars == <<rings, consumed, swap, flush, callers, status, io, mishaps>>

Fresh == [at |-> "begin", cur |-> 0, last |-> 0, peeked |-> 0, idle |-> TRUE]

(* runtimeLoggerSingleton has static storage: mSyncStatus, which no            *)
(* initialiser names, is its first value.                                    *)
Init ==
  /\ mThreadLoggerBufferPtrs = <<>> /\ committed = Nothing /\ consumed = Nothing
  /\ mLoadedBufferSize = 0 /\ mIsFull = FALSE /\ mCurLoadingPos = 0 /\ blocks = 0
  /\ mFlushFuture = "none" /\ mIsAioing = FALSE
  /\ mSyncStatus = "SYNCPENDING" /\ mBGThreadStatus = "RESTART"
  /\ io = Fresh
  /\ pc = [c \in Threads |-> "idle"] /\ target = [c \in Threads |-> Nothing] /\ calls = 0
  /\ mishaps = {}

-----------------------------------------------------------------------------
(* The logging threads.                                                     *)

Registered == Range(mThreadLoggerBufferPtrs)

(* The first log of a thread makes a ring, and then stores and uses another    *)
(* pointer, which nothing has set: here it happens to be the ring's.         *)
allocate_logger_buffer(p) ==
  /\ p \notin Registered
  /\ mThreadLoggerBufferPtrs' = Append(mThreadLoggerBufferPtrs, p)
  /\ mishaps' = mishaps \union {"uninitialised"}
  /\ UNCHANGED <<committed, consumed, swap, flush, callers, status, io>>

(* ... and here it is not, which ends the process.                          *)
StrayPointer(p) ==
  /\ p \notin Registered
  /\ mThreadLoggerBufferPtrs' = Append(mThreadLoggerBufferPtrs, p)
  /\ mishaps' = mishaps \union {"uninitialised"}
  /\ io' = [io EXCEPT !.at = "dead"]
  /\ UNCHANGED <<committed, consumed, swap, flush, callers, status>>

commit_buffer_with_size(p, n) ==
  /\ p \in Registered /\ FoldFunction(+, n, committed) <= MaxBytes
  /\ committed' = [committed EXCEPT ![p] = @ + n]
  /\ UNCHANGED <<mThreadLoggerBufferPtrs, consumed, swap, flush, callers, status, io, mishaps>>

-----------------------------------------------------------------------------
(* sync and set_log_file.                                                   *)

(* Where a sync returns to.                                                 *)
Returned(c) == IF c = Rotator THEN "stop" ELSE "idle"

(* A sync that finds another unfinished returns at once.                    *)
sync_internal(c) ==
  /\ pc[c] = "idle" /\ calls < MaxCalls
  /\ calls' = calls + 1
  /\ IF mSyncStatus # "COMPLETED"
     THEN /\ pc' = [pc EXCEPT ![c] = Returned(c)]
          /\ UNCHANGED <<mSyncStatus, target>>
     ELSE /\ mSyncStatus' = "SYNCPENDING"
          /\ pc' = [pc EXCEPT ![c] = "wait"]
          /\ target' = [target EXCEPT ![c] = committed]
  /\ UNCHANGED <<rings, consumed, swap, flush, mBGThreadStatus, io, mishaps>>

Return(c) ==
  /\ pc' = [pc EXCEPT ![c] = Returned(c)]
  /\ target' = [target EXCEPT ![c] = Nothing]
  /\ UNCHANGED <<rings, consumed, swap, flush, calls, status, io, mishaps>>

Notified(c) == pc[c] = "notified" /\ Return(c)

(* The wait has no predicate.                                               *)
Spurious(c) == pc[c] = "wait" /\ Return(c)

notify_one ==
  LET waiting == {c \in Threads : pc[c] = "wait"}
  IN IF waiting = {} THEN UNCHANGED pc
     ELSE \E c \in waiting : pc' = [pc EXCEPT ![c] = "notified"]

(* set_log_file gives up before its sync when it cannot open the file.       *)
CannotOpen ==
  /\ pc[Rotator] = "idle" /\ calls < MaxCalls
  /\ calls' = calls + 1
  /\ UNCHANGED <<rings, consumed, swap, flush, pc, target, status, io, mishaps>>

(* set_log_file, after its sync, tells the IO thread to stop.               *)
Stop ==
  /\ pc[Rotator] = "stop"
  /\ mBGThreadStatus' = "STOPPING"
  /\ pc' = [pc EXCEPT ![Rotator] = "join"]
  /\ UNCHANGED <<rings, consumed, swap, flush, target, calls, mSyncStatus, io, mishaps>>

(* It joins the thread and starts another.                                  *)
JoinAndRestart ==
  /\ pc[Rotator] = "join" /\ io.at = "exited"
  /\ mBGThreadStatus' = "RESTART"
  /\ io' = Fresh
  /\ pc' = [pc EXCEPT ![Rotator] = "idle"]
  /\ UNCHANGED <<rings, consumed, swap, flush, target, calls, mSyncStatus, mishaps>>

-----------------------------------------------------------------------------
(* The IO thread.                                                           *)

(* The locals of the loop's body and of the round end with them.             *)
Goto(at) ==
  io' = [io EXCEPT !.at = at, !.cur = 0, !.peeked = 0, !.idle = @ \/ at = "test"]
OnlyIo == UNCHANGED <<rings, consumed, swap, flush, callers, status, mishaps>>

(* Whatever mBGThreadStatus was, it is RUNNING now.                         *)
Begin ==
  /\ io.at = "begin"
  /\ Goto("test")
  /\ mBGThreadStatus' = "RUNNING"
  /\ mishaps' = IF mBGThreadStatus = "STOPPING" THEN mishaps \union {"overwritten"} ELSE mishaps
  /\ UNCHANGED <<rings, consumed, swap, flush, callers, mSyncStatus>>

Exit == io.at = "test" /\ mBGThreadStatus = "STOPPING" /\ Goto("exited") /\ OnlyIo

(* peek_full_available_buffer of the ring at index k: part of what was          *)
(* committed, up to the wrap, or nothing if nothing was.                     *)
Peek(k) ==
  LET p == mThreadLoggerBufferPtrs[k + 1]
      available == committed[p] - consumed[p]
  IN IF available = 0
     THEN io' = [io EXCEPT !.at = "next", !.cur = k]
     ELSE \E n \in 1..available :
            io' = [io EXCEPT !.at = "load", !.cur = k, !.peeked = n]

(* A round begins at the ring that was refused last.                        *)
BeginRound ==
  /\ io.at = "test" /\ mBGThreadStatus # "STOPPING"
  /\ IF mIsFull \/ mThreadLoggerBufferPtrs = <<>> THEN Goto("empty") ELSE Peek(io.last)
  /\ OnlyIo

(* Mutant: what would fill the buffer is taken.                             *)
FitsExactly(n) == mLoadedBufferSize + n <= BufferLimit

Fits(n) == mLoadedBufferSize + n < BufferLimit

(* load_buffer_from takes all it is given.  It fills the last block and makes *)
(* another when that is full and more is to come.  The first block nobody     *)
(* makes: copying to it is undefined, and may happen to go on.               *)
Load ==
  /\ io.at = "load" /\ Fits(io.peeked)
  /\ mLoadedBufferSize' = mLoadedBufferSize + io.peeked
  /\ mIsFull' = (mIsFull \/ mLoadedBufferSize' >= HighWaterMark)
  /\ LET end == mCurLoadingPos + io.peeked
         turns == (end - 1) \div BlockSize
     IN /\ blocks' = blocks + turns
        /\ mCurLoadingPos' = end - turns * BlockSize
  /\ mishaps' = IF blocks = 0 THEN mishaps \union {"no_block"} ELSE mishaps
  /\ consumed' = [consumed EXCEPT ![mThreadLoggerBufferPtrs[io.cur + 1]] = @ + io.peeked]
  /\ io' = [io EXCEPT !.at = "next", !.peeked = 0, !.idle = FALSE]
  /\ UNCHANGED <<rings, flush, callers, status>>

(* ... or end the process.                                                  *)
LoadNowhere ==
  /\ io.at = "load" /\ Fits(io.peeked) /\ blocks = 0
  /\ Goto("dead")
  /\ mishaps' = mishaps \union {"no_block"}
  /\ UNCHANGED <<rings, consumed, swap, flush, callers, status>>

(* What does not fit is refused as a whole.                                 *)
Refuse ==
  /\ io.at = "load" /\ ~Fits(io.peeked)
  /\ mishaps' = mishaps \union {IF mLoadedBufferSize = 0 THEN "backlog" ELSE "refused"}
  /\ io' = [io EXCEPT !.at = "next", !.peeked = 0, !.last = io.cur]
  /\ UNCHANGED <<rings, consumed, swap, flush, callers, status>>

(* Mutant: a round that has taken nothing so far gives up.                  *)
NextRingIfBusy ==
  /\ io.at = "next"
  /\ LET k == (io.cur + 1) % Len(mThreadLoggerBufferPtrs)
     IN IF k = io.last \/ mIsFull \/ io.idle THEN Goto("empty") ELSE Peek(k)
  /\ OnlyIo

(* The round goes on until it is back where it began.                       *)
NextRing ==
  /\ io.at = "next"
  /\ LET k == (io.cur + 1) % Len(mThreadLoggerBufferPtrs)
     IN IF k = io.last \/ mIsFull THEN Goto("empty") ELSE Peek(k)
  /\ OnlyIo

AfterDoubleCheck == IF mIsAioing THEN "AIOPENDING" ELSE "COMPLETED"

(* Mutant: a pending sync is answered without another round.                *)
EmptyStageAtOnce ==
  /\ io.at = "empty"
  /\ UNCHANGED <<rings, consumed, swap, flush, mBGThreadStatus, target, calls, mishaps>>
  /\ IF mLoadedBufferSize # 0 THEN Goto("aio") /\ UNCHANGED <<mSyncStatus, pc>>
     ELSE mSyncStatus' = "COMPLETED" /\ notify_one /\ Goto("sleep")

(* Mutant: the caller of a sync is told only when a flush has completed.     *)
EmptyStageSilent ==
  /\ io.at = "empty"
  /\ UNCHANGED <<rings, consumed, swap, flush, mBGThreadStatus, callers, mishaps>>
  /\ IF mLoadedBufferSize # 0 THEN Goto("aio") /\ UNCHANGED mSyncStatus
     ELSE IF mSyncStatus = "SYNCPENDING" THEN mSyncStatus' = "DOUBLECHECK" /\ Goto("test")
     ELSE mSyncStatus' = "COMPLETED" /\ Goto("sleep")

(* empty_aio_buffer_stage: with nothing loaded, a pending sync needs one more *)
(* round before it is answered.                                             *)
EmptyStage ==
  /\ io.at = "empty"
  /\ UNCHANGED <<rings, consumed, swap, flush, mBGThreadStatus, target, calls, mishaps>>
  /\ IF mLoadedBufferSize # 0 THEN Goto("aio") /\ UNCHANGED <<mSyncStatus, pc>>
     ELSE IF mSyncStatus = "SYNCPENDING"
          THEN mSyncStatus' = "DOUBLECHECK" /\ Goto("test") /\ UNCHANGED pc
          ELSE /\ mSyncStatus' = IF mSyncStatus = "DOUBLECHECK" THEN AfterDoubleCheck
                                                                ELSE mSyncStatus
               /\ IF mSyncStatus' = "COMPLETED" THEN notify_one /\ Goto("sleep")
                                                ELSE Goto("aio") /\ UNCHANGED pc

(* wait_for ends: notified, spuriously or with its time.                    *)
Wake == io.at = "sleep" /\ Goto("aio") /\ OnlyIo

(* aio_waiting_stage.  A full buffer waits for the flush without a limit; a    *)
(* buffer that took something in this round does not wait at all.  Waiting    *)
(* for a future that was never made is the end of the process.              *)
Waits == mIsFull \/ (io.idle /\ mSyncStatus # "AIOPENDING")

AioStage ==
  /\ io.at = "aio" /\ OnlyIo
  /\ \/ ~mIsAioing /\ Goto("flush")
     \/ mIsAioing /\ Waits /\ mFlushFuture = "ready" /\ Goto("complete")
     \/ mIsAioing /\ ~mIsFull /\ (Waits => mFlushFuture = "pending") /\ Goto("test")

NoFuture ==
  /\ io.at = "aio" /\ mIsAioing /\ Waits /\ mFlushFuture = "none"
  /\ Goto("dead")
  /\ mishaps' = mishaps \union {"no_future"}
  /\ UNCHANGED <<rings, consumed, swap, flush, callers, status>>

Complete ==
  /\ io.at = "complete" /\ Goto("flush")
  /\ mIsAioing' = FALSE
  /\ IF mSyncStatus = "AIOPENDING" THEN mSyncStatus' = "COMPLETED" /\ notify_one
                                   ELSE UNCHANGED <<mSyncStatus, pc>>
  /\ UNCHANGED <<rings, consumed, swap, mFlushFuture, mBGThreadStatus, target, calls, mishaps>>

(* aio_flush hands the loaded blocks over, each as long as its iov_len says,   *)
(* which is 0; the loading position stays.  The service has no request for a  *)
(* vector without blocks.                                                    *)
AioFlush ==
  /\ io.at = "flush" /\ mLoadedBufferSize # 0 /\ mFlushFuture # "pending"
  /\ mFlushFuture' = IF blocks = 0 THEN "none" ELSE "pending"
  /\ mIsAioing' = TRUE
  /\ blocks' = 0
  /\ Goto("test")
  /\ UNCHANGED <<rings, consumed, mLoadedBufferSize, mIsFull, mCurLoadingPos, callers, status,
                 mishaps>>

NothingToFlush == io.at = "flush" /\ mLoadedBufferSize = 0 /\ Goto("test") /\ OnlyIo

(* External: somebody reaps the completion of the flush.                    *)
Reap ==
  /\ mFlushFuture = "pending"
  /\ mFlushFuture' = "ready"
  /\ UNCHANGED <<rings, consumed, swap, mIsAioing, callers, status, io, mishaps>>

-----------------------------------------------------------------------------
IoBackgroundThreadFunction ==
  \/ Begin \/ Exit
  \/ BeginRound \/ Load \/ LoadNowhere \/ Refuse \/ NextRing
  \/ EmptyStage \/ Wake
  \/ AioStage \/ NoFuture \/ Complete \/ AioFlush \/ NothingToFlush

set_log_file_internal == Stop \/ JoinAndRestart

Alive == io.at # "dead"

Next ==
  /\ Alive
  /\ \/ \E p \in Producers : \/ allocate_logger_buffer(p) \/ StrayPointer(p)
                             \/ \E n \in MessageSizes : commit_buffer_with_size(p, n)
     \/ \E c \in Threads : sync_internal(c) \/ Notified(c) \/ Spurious(c)
     \/ CannotOpen \/ set_log_file_internal
     \/ IoBackgroundThreadFunction
     \/ Reap

(* The threads run; a wait with a time-out ends.  Nobody must log, call, or   *)
(* reap, and no wake-up must be spurious.                                    *)
Spec == /\ Init /\ [][Next]_vars
        /\ WF_vars(Alive /\ IoBackgroundThreadFunction)
        /\ WF_vars(Alive /\ set_log_file_internal)
        /\ \A c \in Threads : WF_vars(Alive /\ Notified(c))

-----------------------------------------------------------------------------
TypeOK ==
  /\ Registered \subseteq Producers
  /\ committed \in [Producers -> 0..MaxBytes] /\ consumed \in [Producers -> 0..MaxBytes]
  /\ mIsFull \in BOOLEAN /\ mIsAioing \in BOOLEAN
  /\ mCurLoadingPos \in 0..BlockSize /\ blocks \in Nat
  /\ mFlushFuture \in {"none", "pending", "ready"}
  /\ mSyncStatus \in {"SYNCPENDING", "DOUBLECHECK", "AIOPENDING", "COMPLETED"}
  /\ mBGThreadStatus \in {"RESTART", "RUNNING", "STOPPING"}
  /\ pc \in [Threads -> {"idle", "wait", "notified", "stop", "join"}]
  /\ calls \in 0..MaxCalls

(* What the swap buffer says it holds is all that was ever consumed: it is     *)
(* emptied by no flush.  So a flush, once begun, is followed by others, the   *)
(* stage that answers a sync is closed for ever, and AIOPENDING, for which    *)
(* Logger.cpp has three branches, is never entered.  No byte is consumed      *)
(* that was not committed, nor will be by a load that is under way.          *)
LoggerInv ==
  /\ TypeOK
  /\ mLoadedBufferSize = FoldFunction(+, 0, consumed) /\ mLoadedBufferSize < BufferLimit
  /\ mIsFull <=> mLoadedBufferSize >= HighWaterMark
  /\ \A p \in Producers :
       consumed[p] + (IF io.at = "load" /\ mThreadLoggerBufferPtrs[io.cur + 1] = p
                      THEN io.peeked ELSE 0) <= committed[p]
  /\ mIsAioing => mLoadedBufferSize # 0
  /\ mSyncStatus # "AIOPENDING"

(* A sync that the IO thread answers is like fsync (Logger.hpp:56): whatever   *)
(* any thread committed before the call is in the file.  Since no flush        *)
(* writes, that can only be if nothing was committed; the second round after   *)
(* the call (Logger.cpp:176-180) is what finds out.  Three ways out are not   *)
(* answers: the sync that finds another unfinished, and the very first,       *)
(* return without waiting; a wait may end spuriously; and a backlog that no   *)
(* empty buffer can take is passed over.                                     *)
SyncCovers ==
  \A c \in Threads : pc[c] = "notified" =>
    "backlog" \in mishaps \/ \A p \in Producers : target[c][p] = 0

LookedAt(p) == io.at \in {"load", "next"} /\ mThreadLoggerBufferPtrs[io.cur + 1] = p

(* Every ring there is is looked at again and again, until the buffer is full *)
(* for ever or the process ends: wherever rounds begin, whichever ring was    *)
(* refused last, however the thread sleeps, waits for a flush that nobody      *)
(* reaps, answers syncs and is stopped and started anew.                     *)
RingsPolled ==
  \A p \in Producers : []<>(p \notin Registered \/ LookedAt(p) \/ mIsFull \/ ~Alive)

(* Two rings that both hold more than fits: each is refused in turn and each   *)
(* refusal moves the ring at which the round would end (Logger.cpp:132, 166), *)
(* so that it never ends.                                                   *)
Crowded ==
  \E p, q \in Producers : /\ p # q
                          /\ ~Fits(committed[p] - consumed[p])
                          /\ ~Fits(committed[q] - consumed[q])

(* sync and set_log_file return, but for four cases.  After the first byte     *)
(* was loaded no sync is answered; two rings may keep a round from ending; a  *)
(* RUNNING stored late overwrites the STOPPING that its thread should have     *)
(* seen; and the thread may wait for a flush that nobody reaps.              *)
CallsEnd ==
  /\ \A c \in Threads : pc[c] = "wait" ~> pc[c] # "wait" \/ mLoadedBufferSize # 0 \/ Crowded
                                           \/ ~Alive
  /\ pc[Rotator] = "join" ~>
       \/ pc[Rotator] # "join" \/ "overwritten" \in mishaps \/ Crowded \/ ~Alive
       \/ io.at = "aio" /\ mIsFull /\ mFlushFuture = "pending"
=============================================================================
