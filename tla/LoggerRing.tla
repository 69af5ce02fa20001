----------------------------- MODULE LoggerRing -----------------------------
(***************************************************************************)
(* Logger::LoggerBuffer of nanolog (nanolog/include/Logger.hpp, Logger.cpp): *)
(* the ring that a logging thread fills and the IO thread empties, without a *)
(* lock.  Positions are offsets into mBuffer.  The producer writes            *)
(* mProducePos and mBufferDataEnd, the consumer mConsumePos; each reads the   *)
(* other's once per step.  Bytes are numbered in the order in which they are  *)
(* logged.                                                                   *)
(***************************************************************************)
EXTENDS Integers, Sequences

CONSTANTS
  Capacity,   \* defaultLoggerBufferSize
  MaxSize,    \* the largest message
  MaxBytes    \* bound: how many bytes are logged

ASSUME RingAssumption ==
  /\ Capacity \in Nat \ {0} /\ MaxSize \in Nat /\ MaxBytes \in Nat
  /\ MaxSize < Capacity

Cells == 0..(Capacity - 1)

VARIABLES
  mBuffer, mProducePos, mBufferDataEnd, mConsumePos,
  mFreeSpace,           \* the producer's own: at least so much is free
  pcP, nbytes,          \* the producer: where it is, the size it asked for
  cacheConsumerPos,
  pcC, peeked,          \* the consumer: where it is, the size it was given
  cachedProducePos,
  written, read         \* bytes committed and bytes consumed so far

producer == <<pcP, nbytes, cacheConsumerPos, mFreeSpace, mProducePos, mBufferDataEnd,
              mBuffer, written>>
consumer == <<pcC, peeked, cachedProducePos, mConsumePos, read>>
vars == <<producer, consumer>>

Init ==
  /\ mBuffer = [k \in Cells |-> MaxBytes]   \* no byte has that number
  /\ mProducePos = 0 /\ mConsumePos = 0 /\ mBufferDataEnd = Capacity
  /\ mFreeSpace = 0
  /\ pcP = "idle" /\ nbytes = 0 /\ cacheConsumerPos = 0
  /\ pcC = "idle" /\ peeked = 0 /\ cachedProducePos = 0
  /\ written = 0 /\ read = 0

-----------------------------------------------------------------------------
(* The producer.                                                            *)

(* allocate_buffer_with_size: at once if the space known of is enough.      *)
Allocate(n) ==
  /\ pcP = "idle" /\ written + n <= MaxBytes
  /\ nbytes' = n
  /\ pcP' = IF n < mFreeSpace THEN "fill" ELSE "probe"
  /\ UNCHANGED <<cacheConsumerPos, mFreeSpace, mProducePos, mBufferDataEnd, mBuffer, written>>
  /\ UNCHANGED consumer

(* One turn of the loop of update_and_allocate_buffer: it reads the position *)
(* of the consumer, then decides.                                           *)
Probe ==
  /\ pcP = "probe"
  /\ cacheConsumerPos' = mConsumePos
  /\ pcP' = "decide"
  /\ UNCHANGED <<nbytes, mFreeSpace, mProducePos, mBufferDataEnd, mBuffer, written>>
  /\ UNCHANGED consumer

Enough(space) == IF space > nbytes THEN "fill" ELSE "probe"

(* Mutant: the end that is given up is not recorded.                        *)
DecideBehindKeepEnd ==
  /\ pcP = "decide" /\ cacheConsumerPos <= mProducePos
  /\ mFreeSpace' = Capacity - mProducePos
  /\ pcP' = IF mFreeSpace' > nbytes THEN "fill"
            ELSE IF cacheConsumerPos # 0 THEN "turn" ELSE "probe"
  /\ UNCHANGED <<nbytes, cacheConsumerPos, mProducePos, mBufferDataEnd, mBuffer, written>>
  /\ UNCHANGED consumer

(* Mutant: the end is never given up, the producer waits for more of it.    *)
DecideBehindWaits ==
  /\ pcP = "decide" /\ cacheConsumerPos <= mProducePos
  /\ mFreeSpace' = Capacity - mProducePos
  /\ pcP' = IF mFreeSpace' > nbytes THEN "fill" ELSE "probe"
  /\ UNCHANGED <<nbytes, cacheConsumerPos, mProducePos, mBufferDataEnd, mBuffer, written>>
  /\ UNCHANGED consumer

(* The consumer is behind in this round: the space up to the end is free.    *)
(* If that is too small the rest of the buffer is given up.                  *)
DecideBehind ==
  /\ pcP = "decide" /\ cacheConsumerPos <= mProducePos
  /\ mFreeSpace' = Capacity - mProducePos
  /\ IF mFreeSpace' > nbytes
     THEN pcP' = "fill" /\ UNCHANGED mBufferDataEnd
     ELSE /\ mBufferDataEnd' = mProducePos
          /\ pcP' = IF cacheConsumerPos # 0 THEN "turn" ELSE "probe"
  /\ UNCHANGED <<nbytes, cacheConsumerPos, mProducePos, mBuffer, written>>
  /\ UNCHANGED consumer

(* Mutant: the whole given-up round is taken to be free.                    *)
TurnTrusting ==
  /\ pcP = "turn"
  /\ mProducePos' = 0
  /\ mFreeSpace' = mBufferDataEnd
  /\ pcP' = Enough(mBufferDataEnd)
  /\ UNCHANGED <<nbytes, cacheConsumerPos, mBufferDataEnd, mBuffer, written>>
  /\ UNCHANGED consumer

(* The store of mProducePos comes after that of mBufferDataEnd.             *)
Turn ==
  /\ pcP = "turn"
  /\ mProducePos' = 0
  /\ mFreeSpace' = cacheConsumerPos
  /\ pcP' = Enough(cacheConsumerPos)
  /\ UNCHANGED <<nbytes, cacheConsumerPos, mBufferDataEnd, mBuffer, written>>
  /\ UNCHANGED consumer

(* The producer is a round ahead: it may fill up to the consumer.           *)
DecideAhead ==
  /\ pcP = "decide" /\ cacheConsumerPos > mProducePos
  /\ mFreeSpace' = cacheConsumerPos - mProducePos
  /\ pcP' = Enough(cacheConsumerPos - mProducePos)
  /\ UNCHANGED <<nbytes, cacheConsumerPos, mProducePos, mBufferDataEnd, mBuffer, written>>
  /\ UNCHANGED consumer

(* The caller writes its message where it was told to.                      *)
Fill ==
  /\ pcP = "fill"
  /\ mBuffer' = [k \in Cells |->
       IF mProducePos <= k /\ k < mProducePos + nbytes THEN written + (k - mProducePos)
                                                      ELSE mBuffer[k]]
  /\ pcP' = "commit"
  /\ UNCHANGED <<nbytes, cacheConsumerPos, mFreeSpace, mProducePos, mBufferDataEnd, written>>
  /\ UNCHANGED consumer

(* commit_buffer_with_size.                                                 *)
Commit ==
  /\ pcP = "commit"
  /\ mFreeSpace' = mFreeSpace - nbytes
  /\ mProducePos' = mProducePos + nbytes
  /\ written' = written + nbytes
  /\ pcP' = "idle"
  /\ UNCHANGED <<nbytes, cacheConsumerPos, mBufferDataEnd, mBuffer>>
  /\ UNCHANGED consumer

-----------------------------------------------------------------------------
(* The consumer: peek_full_available_buffer and consume_buffer_with_size.   *)

Peek ==
  /\ pcC = "idle"
  /\ cachedProducePos' = mProducePos
  /\ pcC' = "compare"
  /\ UNCHANGED <<peeked, mConsumePos, read>> /\ UNCHANGED producer

(* The producer is a round ahead: what is left is up to mBufferDataEnd (the   *)
(* difference is unsigned).                                                 *)
PeekTail ==
  /\ pcC = "compare"
  /\ cachedProducePos < mConsumePos /\ mBufferDataEnd # mConsumePos
  /\ peeked' = mBufferDataEnd - mConsumePos
  /\ pcC' = "have"
  /\ UNCHANGED <<cachedProducePos, mConsumePos, read>> /\ UNCHANGED producer

(* Mutant: at the end of a round there is nothing to read, not even a turn.   *)
PeekTurnStays ==
  /\ pcC = "compare"
  /\ cachedProducePos < mConsumePos /\ mBufferDataEnd = mConsumePos
  /\ peeked' = 0
  /\ pcC' = "have"
  /\ UNCHANGED <<cachedProducePos, mConsumePos, read>> /\ UNCHANGED producer

(* This round has been read: the consumer starts the next one.              *)
PeekTurn ==
  /\ pcC = "compare"
  /\ cachedProducePos < mConsumePos /\ mBufferDataEnd = mConsumePos
  /\ mConsumePos' = 0
  /\ peeked' = cachedProducePos
  /\ pcC' = "have"
  /\ UNCHANGED <<cachedProducePos, read>> /\ UNCHANGED producer

PeekSame ==
  /\ pcC = "compare" /\ cachedProducePos >= mConsumePos
  /\ peeked' = cachedProducePos - mConsumePos
  /\ pcC' = "have"
  /\ UNCHANGED <<cachedProducePos, mConsumePos, read>> /\ UNCHANGED producer

(* The IO thread has copied what it was given, all of it or nothing.        *)
Consume ==
  /\ pcC = "have"
  /\ mConsumePos' = mConsumePos + peeked
  /\ read' = read + peeked
  /\ peeked' = 0
  /\ pcC' = "idle"
  /\ UNCHANGED cachedProducePos /\ UNCHANGED producer

(* Its own buffer has no room.                                              *)
Refuse ==
  /\ pcC = "have" /\ peeked > 0
  /\ peeked' = 0
  /\ pcC' = "idle"
  /\ UNCHANGED <<cachedProducePos, mConsumePos, read>> /\ UNCHANGED producer

-----------------------------------------------------------------------------
update_and_allocate_buffer == Probe \/ DecideBehind \/ Turn \/ DecideAhead
Producer == update_and_allocate_buffer \/ Fill \/ Commit
Consumer == Peek \/ PeekTail \/ PeekTurn \/ PeekSame \/ Consume

Next ==
  \/ \E n \in 1..MaxSize : Allocate(n)
  \/ Producer \/ Consumer \/ Refuse

Spec == Init /\ [][Next]_vars

(* Both threads run on: the producer spins, the IO thread polls.            *)
FairSpec == Spec /\ WF_vars(Producer) /\ WF_vars(Consumer)

(* The IO thread has room for what it is given, from some time on.          *)
StopsRefusing == <>[][~Refuse]_vars

-----------------------------------------------------------------------------
TypeOK ==
  /\ mBuffer \in [Cells -> 0..MaxBytes]
  /\ mProducePos \in Cells /\ mConsumePos \in Cells /\ mBufferDataEnd \in 0..Capacity
  /\ mFreeSpace \in 0..Capacity
  /\ pcP \in {"idle", "probe", "decide", "turn", "fill", "commit"}
  /\ nbytes \in 0..MaxSize /\ cacheConsumerPos \in Cells
  /\ pcC \in {"idle", "compare", "have"}
  /\ peeked \in 0..Capacity /\ cachedProducePos \in Cells
  /\ written \in 0..MaxBytes /\ read \in 0..MaxBytes

(* While the IO thread copies what peek gave it, those cells hold the next    *)
(* bytes that were committed and not yet consumed, in order: no byte is lost, *)
(* read twice, read before it was committed, or overwritten before it is     *)
(* copied, the wrap and the given-up end of the buffer included.             *)
ChunkIntact ==
  pcC = "have" =>
    /\ read + peeked <= written
    /\ \A k \in 0..(peeked - 1) : mBuffer[mConsumePos + k] = read + k

(* The two assertions of commit_buffer_with_size.                           *)
CommitAsserts ==
  pcP = "commit" => nbytes < mFreeSpace /\ mProducePos + nbytes < Capacity

(* The parts of the inductive invariant.  Bytes read .. written - 1 are in the *)
(* ring; byte b lies at Position(b), on from the consumer and, if the producer *)
(* is a round ahead, on from the start once the data end is passed.          *)
Behind == mConsumePos <= mProducePos
Rest == mBufferDataEnd - mConsumePos
Position(b) ==
  IF Behind \/ b < read + Rest THEN mConsumePos + (b - read) ELSE b - read - Rest

RingShape ==
  /\ mProducePos + mFreeSpace <= Capacity
  /\ Behind => written - read = mProducePos - mConsumePos
  /\ ~Behind => /\ mConsumePos <= mBufferDataEnd /\ mBufferDataEnd < Capacity
                /\ written - read = Rest + mProducePos
                /\ mProducePos + mFreeSpace <= mConsumePos

Contents == \A b \in read..(written - 1) : mBuffer[Position(b)] = b

(* What the producer's copy of the consumer's position is still good for.   *)
ProducerView ==
  /\ pcP # "idle" => nbytes > 0 /\ written + nbytes <= MaxBytes
  /\ pcP = "decide" =>
       IF cacheConsumerPos <= mProducePos
       THEN cacheConsumerPos <= mConsumePos /\ Behind
       ELSE ~Behind => cacheConsumerPos <= mConsumePos
  /\ pcP = "turn" => /\ 0 < cacheConsumerPos /\ cacheConsumerPos <= mConsumePos
                     /\ Behind /\ mBufferDataEnd = mProducePos
  /\ pcP \in {"fill", "commit"} => nbytes < mFreeSpace
  /\ pcP = "commit" => \A k \in 0..(nbytes - 1) : mBuffer[mProducePos + k] = written + k

(* And the consumer's copy of the producer's.                               *)
ConsumerView ==
  /\ pcC = "compare" =>
       IF cachedProducePos < mConsumePos
       THEN ~Behind /\ cachedProducePos <= mProducePos
       ELSE cachedProducePos <= (IF Behind THEN mProducePos ELSE mBufferDataEnd)
  /\ pcC = "have" => peeked <= (IF Behind THEN mProducePos - mConsumePos ELSE Rest)

(* The inductive invariant: the positions and what each thread remembers of   *)
(* the other's agree on which cells hold which bytes.                        *)
IInv == TypeOK /\ RingShape /\ Contents /\ ProducerView /\ ConsumerView

(* A thread that waits for room gets it, if the IO thread stops refusing:     *)
(* whatever the positions at which a request smaller than the buffer finds   *)
(* the ring, given-up ends included, no wait is for ever.                    *)
AllocationEnds == StopsRefusing => (pcP = "probe" ~> pcP = "fill")

(* The ring is the bounded queue of bytes of LogFifo.  Its contents are the   *)
(* cells from the consumer on, over the given-up end if the producer is a    *)
(* round ahead.                                                              *)
Queued == [i \in 1..(written - read) |-> mBuffer[Position(read + i - 1)]]

Fifo == INSTANCE LogFifo WITH queue <- Queued, logged <- written

(* Whatever the interleaving, a commit appends one message and a consume     *)
(* takes the oldest bytes: no turn, no given-up end and no store of one      *)
(* thread that the other has not seen changes what is queued.                *)
ImplementsFifo == Fifo!Spec

(* Every committed byte reaches the IO thread, under the same condition.     *)
AllConsumed == StopsRefusing => \A b \in 1..MaxBytes : (written = b ~> read >= b)
=============================================================================
