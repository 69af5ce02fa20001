# A TLA+ model of My-Practise

The repository is a collection of C++ components. The ones with a logic of
their own, where an interleaving or a limit can go wrong, are the lock-free
containers with their hazard-pointer sanitizer, the thread pool with the
reference-counted singleton that holds it, the io_uring echo/file server, and the
nanolog logger with its rings, its IO thread and its flush service. The contest
exercises under `luogu/` and the compile-time reading of a format string add
pure algorithms. This directory models these parts as TLA+ modules, checks them with
TLC on small instances, and proves the safety of nine of them with TLAPS for every
instance: the registration protocol of the sanitizer; the stack and the queue, that they are
linearizable and delete their nodes safely, in the uses that work (one producer of a stack; one
consumer of a queue, with one producer beside it); the thread pool; the counted pointer; the
file server; and of nanolog the ring with its refinement of a bounded queue, the IO thread and
the io_uring queues.

## Inventory

| Part | Source | State | Operations | What makes it hard |
|---|---|---|---|---|
| Hazard-pointer sanitizer | `lockfree/Sanitizer.hpp` | `hps_` (owner id, two hazard pointers and a position per slot), thread_local registers, `backward_deleting_list_`, `isBackSanitizer_` | access, deaccess, reset, release, background turn, destructor | claims by compare_exchange, a list shared by every deleting thread, a background thread joined by the destructor |
| Lock-free stack | `lockfree/Concurrent.hpp` | `head_`, `size_`, nodes | Push, Pop, destructor | ABA, reuse of freed nodes, two variables changed one after the other |
| Lock-free queue | `lockfree/Concurrent.hpp` | `head_`, `tail_`, `size_`, nodes | Push, Pop, constructor, destructor | a tail that lags, helping, `next_` shared with the delayed list |
| Thread pool | `threadpool/*` | task queue, mutex, semaphore, `running` | emplace, worker loop, destructor, GetInstance | a semaphore that counts tasks and stop tokens alike, tasks that post and wait |
| Reference counting | `refbase/*`, `threadpool/ThreadPool.cpp` | counter, pointer, `instance_` | sptr constructors, assignments, destructor; GetInstance | a count that several threads change, a pointer read before it is counted, a copy assignment that is not the one written |
| Echo/file server | `async-server/server/*` | one request record per operation in flight | accept, read, writev, splice | completions in any order, short results, two owners of a descriptor |
| nanolog ring | `nanolog/Logger.*` | buffer, three positions, free space | allocate, commit, peek, consume | a single-producer ring at its limits, without a lock |
| nanolog IO thread | `nanolog/Logger.*`, `SwapBuffer.hpp` | vector of rings, swap buffer, flush future, two status flags | register, round, flush, sync, set_log_file, restart | two status machines set from different threads, a buffer that nothing empties, waits without predicates |
| io_uring queues | `Service.hpp`, the copies of liburing | two queues with free-running counters, one request record per operation | prepare an entry, submit, wait, give back | recycled entries, wrap-around, a pointer into a queue, a full queue |
| luogu exercises, format strings | `luogu/*`, `FormatUtil.hpp`, `UserLog.hpp` | arrays | one algorithm per file | pure algorithms with boundaries |
| Design patterns, rbtree skeleton, log macro, server start-up | the rest | little or none | demonstrations, declarations | nothing concurrent |

The containers call the sanitizer (access before following a pointer, reset
and release after unlinking one); the pool's tests drive the containers from
its workers; the pool is held through `sptr`; the server and the flush service of nanolog
each drive an io_uring through the same inline functions; a logging thread and the IO
thread of nanolog meet in a ring.

## Modules

`HazardRegistry` models how a thread gets its slot and writes hazard pointers
into it: `Access`, `Deaccess` and `Reset` enter a call; `Exhausted`, `CheckId`,
`CasOk` and `CasFail` are the steps of the loop of `_RegisterThread`, the load of
`id_` and the `compare_exchange_strong` apart, with the value that a failed one
leaves in `init_id`; `Body` is `store`, `deaccess` or `resetCache` on the slot the
register of that function points to; `ThreadExit` ends the thread_locals.
`HazardRegistryProofs` holds its theorems; each proved module has its theorems in one of that
form (`LockFreeStackProofs`, `LockFreeQueueProofs`, `ThreadPoolProofs`, `SharedInstanceProofs`,
`EventLoopProofs`, `LoggerProofs`; `RingProofs` for `LoggerRing` and `IoUring`).

`HazardSanitizer` models the deferred deletion: `StorePtr`, `ResetFirst`, `ResetLast`
and `StartRelease` are called by a container; `ScanMiss`, `ScanHit`, `ImmediateDelete`,
`DelayLoad`, `DelayLink`, `DelayCas`, `BackExchange` and `BackNext` are the steps of
`_Delete`, `_DelayDelete` and `_BackLoopDelete`, for a thread inside release or for
the background thread (`BackWake`); `StopBack`, `JoinBack`, `DtorExchange` and
`DtorFree` are the destructor. It takes from `HazardRegistry` that a registered thread
has one slot nobody else writes (`SlotOf`).

`LockFreeStack` and `LockFreeQueue` EXTEND it with Push, Pop and the destructor of the
containers, one action per access to shared memory, named after the statement.
Nodes are addresses: `allocated` says which are live, `new` may return any address
that is not, so reuse happens. `use`, chosen at the start, says which threads produce and
consume, whether the background thread deletes, and how many values are pushed, so
that one run covers several uses. `AtomicContainer` is the abstract specification: a
Push or Pop takes effect at one instant. `Linearizable` maps each concrete state to
it: the contents are the data along `next_`, and a thread's operation is pending or
done by its program counter.

`ThreadPool` models emplace and postTask (`PostLock`, `PostPush`, `PostSem`, `Await`), the
worker loop (`SemWait`, `CheckRunning`, `TakeLock`, `Take`, then `Execute`, `Finish`) and
the destructor (`Stop`, `PostToken`, `Join`, `DrainFront`, `DrainPop`, `DrainEnd`). A task
may post one more and may wait for its future.

`EventLoop` models the file server: the loop handles the completion at the head of the
queue, one action per `case` and per way through it (`HandleAccept`, `HandleEmptyRead`,
`AnswerString`, `CannotOpen`, `AnswerFile`, `NoPipe`, `HandleSplice`, `HandleEmptySplice`,
`HandleSend`, `HandleWrite`, `HandleError`); the kernel completes what is submitted in any
order (`Complete...`) and hands out the lowest free descriptor; clients connect, ask for
one thing and may leave at any moment. A request line without a path crashes the process
(`CrashNoPath`), and a wait that fails ends it (`WaitFails`). A request carries both the numbers the loop
keeps (`sock`, `owned`) and what the kernel resolved them to when it was submitted
(`on`, `to`): the two may part, and the properties are about that. Kernel and clients are
external. `mishaps` is a history variable: it records each case that the loop takes
without providing for it (see Findings).

`LoggerRing` models `LoggerBuffer` of nanolog: `Allocate`, the turns of
`update_and_allocate_buffer` (`Probe`, which reads the consumer's position, then
`DecideBehind`, `Turn` or `DecideAhead`; the store of the data end and that of the
producer's position are two steps), `Fill` and `Commit` on one side; `Peek`, which reads
the producer's position, then `PeekTail`, `PeekTurn` or `PeekSame`, and `Consume` or
`Refuse` on the other. Bytes are numbered in the order in which they are logged.

`LogFifo` is its abstract specification, a bounded queue of bytes into which whole messages
go; `Queued` maps the cells to it. `RingProofs` holds the theorems about both.

`Logger` models the rest of nanolog over what the ring promises (bytes committed, bytes
consumed, a peek of some in between): `allocate_logger_buffer` and
`commit_buffer_with_size` of the logging threads; the IO thread's `Begin`, `BeginRound`, `Load`,
`Refuse`, `NextRing`, `EmptyStage`, `Wake`, `AioStage`, `Complete`, `AioFlush` and `Exit`, in the
order of `IoBackgroundThreadFunction` and its stages; `sync_internal` with its wait,
which may also end spuriously; and set_log_file (`CannotOpen`, `Stop`, `JoinAndRestart`). The draft
has two steps that every message takes and that are undefined: a thread's first log stores and
uses a pointer that an inner declaration shadows (`Logger.hpp:81-90`), and the first load copies to
`back()` of an empty vector (`SwapBuffer.hpp:54`). At each the model chooses: the process ends
(`StrayPointer`, `LoadNowhere`), or what was meant happens. Nor does any flush write
(`iov_len` stays 0, `SwapBuffer.hpp:75`). So no property of `Logger` says that a byte is served.

`UringPrep` gives for each helper of liburing the fields of a submission queue entry that it sets,
and what an entry holds after it. `IoUring` models the two queues as liburing's inline functions and
the two callers use them: `io_uring_get_sqe`, `FillEntry`, `io_uring_submit` on one side,
`SkipTimeout`, `io_uring_wait_cqe`, `handle` and `io_uring_cqe_seen` on the other; the kernel
(`Deliver`, `DeliverTimeout`) and the compiled part of the library are external. Both callers
submit. Only the server's `EventLoop::loop` waits for completions, handles and gives them back, and
it ends the process at an error (`ServerExits`); the flush service has this in `get_cqe_request_ptr`
(`Service.hpp:128`), which is private, has no caller and returns nothing, so that its behaviours are
those in which no completion is looked at. `pending` holds the requests submitted and not yet
handled, and `Finishing` names those whose operation ends: an accept may wait for ever.

`SharedInstance` models `sptr`, `RefBase` and `GetInstance`. An operation of an sptr is a sequence
of accesses (`CopyConstruct`, `MoveConstruct`, `AssignRaw`, `MoveAssign`, `CopyAssign`), which a
thread works off one by one (`LoadPtr`, `Increase`, `Decrease`, `DeletePool`, ...), so that
every interleaving of two operations occurs. `Check`, `Lock` and `Recheck` are the
double-checked creation; `Exit` is the static destructor of `instance_`.

`LuoguGraphs` and `LuoguNumbers` state the exercises as operators, with the loops and the recursion
of the code and its in-place updates; `Luogu` runs each on every input within bounds (one action per
program) and states what was asked. `FormatUtil` states the reading of a format string and the log
statement in the same way. The statement is the macro of `UserLog.hpp` as written: it is C++ only
with an argument (without one a call ends in a comma) and with constant ones (`WellFormed`),
although other headers of the draft do not compile either; `Algorithms` composes the two.

The `MC` modules give the constants their values; `LoggerRing` and `Algorithms` need only
numbers and are run directly. A definition that begins with the comment "Mutant" is a
variant of another with a plausible mistake in it: replacing the one by the
other must violate a property, which shows that the property depends on that code.

Where code may run into something it does not provide for (undefined behaviour, a
value nobody looks at), the model takes the step and records it in a history variable,
`mishaps`, under a name that its action gives. A property that stops holding then names the
mishaps it excepts, so that the exceptions can be read off its formula. In the server these
are the steps listed under Findings; in `SharedInstance` a read of `instance_` between its
store and its count (`raced`), an sptr assigned its own pointer (`self_assigned`), an implicit
assignment that makes an owner without counting it (`uncounted`), a count
logged after the object is gone (`dead_log`), and three that end a behaviour; in `Logger` the two
undefined steps (`uninitialised`, `no_block`), a
message refused or larger than the empty buffer (`refused`, `backlog`),
a wait for a flush never made (`no_future`), and a STOPPING overwritten by a late
RUNNING (`overwritten`).

Each module's type invariant is checked together with the shape of its state, under one
name: `StackShape`, `QueueShape`, `PoolInv`, `LoopInv`, `CountsOwners`, `LoggerInv`, `SqIntact`, and
`IInv` of the registry and the ring. `MemorySafe` of the containers joins three statements
that belong together: no use after free, no node retired twice, nothing leaked by
the destructor; `GraphsAnswered` and `AllNumbersAnswered` collect the exercises.

## Runs

| Run | Instance | What it shows |
|---|---|---|
| `registry` | 3 threads, 1 sanitizer, 3 slots (2 claimable) | a slot has one owner for ever (`NoSlotStolen`), a thread's three registers agree, and, in the inductive invariant of the proofs, a thread has one slot and a search fails only when all claimable slots are taken; thread exit and a later thread with the same id included |
| `stack` | 1 producer, 2 consumers, destructor; 3 pushes with deletion inside Pop, or 2 with the background thread; two recycled addresses | memory safety, `size_` accounts for the list, linearizable, no call waits for another thread, the destructor ends |
| `stack_two_producers` | 2 producers, 1 consumer | **violated**: see Findings |
| `queue` | 1 producer, 1 consumer, with and without the background thread, 4 pushes; or 2 producers without a consumer, 3 pushes; destructor | the same of the queue, with a tail that stays in the list, and appends that do not wait for each other |
| `queue_lost_push` | 2 producers, 1 consumer | **violated**: see Findings |
| `pool` | 2 workers, 2 posters, 4 tasks, one of which posts another and may wait for it | units match tasks, no worker finds an empty queue, each task runs once, futures and the destructor finish |
| `shared` | the main thread, a thread with two variables, a worker; two addresses for pools | the count is that of the owners but for the copies of the implicit assignment, no deleted pool is counted but in three named cases, one pool is made |
| `server` | 2 clients, eight kinds of request, one of them without a path, a pipe of 2, 8 descriptors of which 0, 2, 3 or 7 are taken | an accept is always armed, every descriptor has exactly one owner, answers are complete, every client is served |
| `ring` | 5 bytes, messages of 1 to 4, 13 bytes logged | the consumer reads what was committed, the assertions hold, no wait for room is for ever, every byte arrives, and the ring implements the bounded queue |
| `logger` | 2 logging threads, a caller of sync, one of set_log_file, blocks of 1 byte, messages of 4, 8 bytes and 2 calls | the books of the swap buffer; a sync is answered only if nothing had been committed before it, or a backlog was passed over; every ring is looked at again and again until the buffer is full; calls return but for four named cases |
| `uring` | 3 requests of the server (an accept that may never end, a read, a splice), queues of 2, counters modulo 4 | an entry is its request's alone, a completion stays until given back and is used once, every request whose operation ends is handled, unless the process ends |
| `algorithms` | graphs of 3 vertices and up to 3 edges, all 4096 ordered bipartite graphs on 3 + 3, all 512 relations on 3, sequences of up to 3 numbers, numerals of up to 5 digits, primes up to 13, formats of up to 4 characters | each program prints what its definition asks; a log statement compiles just with at least one argument, one per conversion, all of them constant |

Deadlock is not an error where threads stop after their last call, the server after
`exit(1)`, the exercises after their output, and nanolog and io_uring in the mishaps that
end a behaviour; in `registry` and `ring` there is always a step, and it is checked.

### Why the bounds are enough

- *Nodes and pushes* (containers): an ABA needs an address that is read, freed, reused and compared
  while another node lies below it. In the stack two addresses and three pushes do that (a third
  push must reuse an address that some Pop may still hold); with the background thread two pushes
  suffice to have a node in the delayed list, in the thread's hands and in a Pop at once. The queue
  has four addresses, as its first node is a dummy. Addresses are interchangeable, so the first
  node's is fixed. `CallsDoNotBlock` watches one thread of each kind (`Watched`): threads of a kind
  run the same code.
- *Three slots* (registry): slots 0 and 2 can be claimed, slot 1 is the odd one between them, so
  that three threads meet both a failed search and the step over an odd slot.
- *Tasks* (pool): four tasks and two workers let tasks be in the queue, in a worker's hands and
  being posted by a task when the destructor stops the workers.
- *Server*: a file of 1 fits in the pipe of 2, one of 3 does not. A client needs four descriptors,
  so eight hold two clients, and with 3 or 7 taken the table runs full at each of open, pipe and
  accept.
- *Ring*: with five cells and messages of up to four every remainder of a round occurs, among them
  those where the given-up end is empty, where the consumer stands at the start (no turn possible)
  and where a message fits exactly; thirteen bytes are more than two rounds. The safety part is
  proved for all sizes.
- *Counted pointer* (`shared`): one thread with two variables has every pairing of source and
  target; the second address would show a second pool. Copies that do not count are followed as long
  as they put the count off by one, up or down (`MaxSkew`).
- *Logger*: a block of 1 byte makes the limit 4 and the high-water mark 3. A message of 4 is peeked
  as 1 to 4 bytes: 4 are a backlog that an empty buffer refuses, 3 reach the mark, 2 fill one block
  and start the next, after which the other 2 are refused by an almost full buffer. Two messages in
  two rings are each too large, where a round may never end. Two calls are a sync that finds another
  pending, or a set_log_file after a sync.
- *io_uring*: three requests overfill two entries and two completions, so that the vacancy test, a
  full completion queue and the reuse of a slot by another helper all occur; a modulus of four wraps
  within a few steps. The real completion queue is twice the submission queue; at two it can be
  full. `NothingStale` covers every pair of helpers.
- *Exercises*: three vertices are enough for a stale heap entry, an augmenting path through two
  matched vertices, and a closure that the wrong loop order misses; five octal digits give every
  length modulo four and two groups. (For an octal zero B3617 prints nothing, which
  `AllNumbersAnswered` reads as zero.)

### Fairness

- *Containers*: the calls of one thread end if that thread alone keeps taking steps
  from some moment on (`CallsDoNotBlock` assumes weak fairness of one thread, and the
  others may have stopped anywhere). `DestructorEnds` assumes weak fairness of the main
  thread and of the background thread. The exception is the retry loop of
  `_DelayDelete`, a compare_exchange against a list that others empty and refill: it
  can starve, and the properties say so where they apply.
- *Pool*: weak fairness of each thread: it is scheduled again when it can move. Nothing
  is assumed about the order in which a mutex or a semaphore lets threads through.
  Liveness excludes a task that waits for ever for one that nobody has begun
  (`NestedWait`), which the code permits when all workers do so.
- *Server*: the loop runs on, and the kernel goes on completing operations that can
  complete: each request can complete on its own. Nothing is assumed of clients.
- *Logger*: the IO thread runs, a wait with a time-out ends, a notified caller returns and
  set_log_file goes on, as long as the process lives. Nobody must log or call, nobody must
  reap a flush (no code calls `get_cqe_request_ptr`), and no wake-up must be spurious.
- *io_uring*: the loop of the server goes on until the process ends (weak): `EventLoop::loop` is a
  `while` over `io_uring_wait_cqe`. Each request that the kernel has taken and whose operation ends
  (`Finishing`) completes (strong, for one that finds the queue full waits while others come and
  go). Nothing is assumed of the flush service, which reaps nothing.
- *Ring*: the producer spins and the IO thread polls, both weakly fair. Both
  properties are under the condition `StopsRefusing`, since the IO thread's own buffer
  decides whether it takes what it is given; in the draft nothing clears its
  `mIsFull`, so the condition is an assumption about code that is not written yet.

## Findings

- **Push with several producers** (`stack_two_producers`): a failed compare_exchange is
  followed by a reload of the head into a variable that shadows the one compared
  (`Concurrent.hpp:86`); the node may be pushed with the wrong `next_`.
- **A lost Push** (`queue_lost_push`): the delayed list reuses `next_`
  (`Sanitizer.hpp:97`), and a retired node that ends up last in it looks like a tail.

A third disagreement has no run of its own: with **two consumers of the queue** Pop reads `next_` of
a head it has not protected (`Concurrent.hpp:264`), which may have been freed. To see it, give
`Uses` in `queue.cfg` the one use `Use({p1}, {c1, c2}, FALSE, 3)`, add `c2` to `Threads` and a fourth
slot, so that each thread has its own, and check `MemorySafe`.

Because of these, the passing container runs are those of the uses that work: one
producer of a stack with several consumers, one producer and one consumer of a queue,
and several producers without a consumer. The tests under `src/test` use four of each.

Deviations that no run isolates are in the `hazards` of PROJECT.json. Of
the server: a failed operation or wait ends the process (`EventLoop.cpp:232`, `:236`), and a request line
without a path crashes it (`:192`); an empty path is
answered twice (`:138`); after a header that cannot be written the loop splices to a
closed descriptor (`:165`); a failed `pipe` leaks file and socket (`io_uring_handle.cpp:37`);
an empty file leaves the socket open and closes nine stray ints (`:272`); a file larger
than a pipe is cut short of its Content-Length (`:275`). The model takes every one of
these steps; `DescriptorsOwned`, `AnswersComplete` and `Served` hold in the behaviours up to
the first of those that concern them (`mishaps` in the module), and that is how they are
stated. The stray reads are undefined, and the model closes none or any one further
descriptor. Of the sanitizer: a second object of one instantiation uses the table of the
first (`Sanitizer.hpp:135`), so `registry` has one object.

Of the counted pointer: `return instance_` may copy a pointer that is stored and not yet counted
(`ThreadPool.cpp:41`); the template for copy assignment does not replace the implicit one, which
does not count (`refbase.hpp:83`); a pointer assigned to its own sptr may be deleted first
(`refbase.hpp:76`); the last sptr may be dropped by a task, whose worker then joins itself. Of
nanolog: the two undefined steps named above, and a flush that writes nothing; no flush empties
`mLoadedBufferSize`, so that after the first byte `sync` waits for ever and from the high-water mark
on nothing is taken (`SwapBuffer.hpp:49`); AIOPENDING is therefore never entered; a round may never
end, as each of two rings that hold more than fits moves the index at which it would end past the
other (`Logger.cpp:132`, `:166`; `Crowded`, found by TLC as a counterexample to `CallsEnd`); the
first `sync` returns at once, as `mSyncStatus` starts at SYNCPENDING (`Logger.cpp:238`); a restarted
IO thread may overwrite STOPPING (`Logger.cpp:106`). `LoggerInv`, `SyncCovers`, `RingsPolled` and
`CallsEnd` say what still holds. Of io_uring: no caller checks the entry it gets (`Service.hpp:118`)
or what a submit took.

## Proofs

`tlapm` checks all of these for every value of the constants.

**HazardRegistryProofs** assumes a finite positive `_ThreadMax`, and that the null slot and the
default id are not ids of slots and threads. None of the invariants is inductive by
itself: that a compare_exchange takes only a free slot depends on what the failed
ones before it left in `init_id`. `IInv` therefore adds `SearchProgress` (a search at slot
i has seen every even slot below it owned by others, and expects the default id at an
even slot and the previous slot's owner at an odd one), `ClaimedPrefix` (claimed slots
are a prefix of the even ones) and `CallInFunctions`. `CasOkTakesFreeSlot` is the heart: at an
odd slot the expected value is a thread and the slot is free, so the exchange fails; at
an even one it expects a free slot. From `Inductive` follow `TypeCorrect`, `SlotsNotShared`,
`RegistersAlwaysAgree`, `HalfTheTable`, `NullOnlyWhenFull`, and, as action properties,
`ClaimedForever` and `WrittenByOwner`.

**LockFreeStackProofs** is about `LockFreeStack` with the whole of `HazardSanitizer`, for any finite
sets of nodes and threads and any number of pushes, with or without the background thread. Its
theorems have four hypotheses, of which the runs' instance is an example: a use has one producer at
most (with two the property is false: see Findings); the thread that runs the destructor is neither
producer nor consumer; each thread that pops has a slot that is its own (`HazardRegistryProofs`:
such a slot is nobody else's, and a thread gets one unless all are taken); the sets are finite.
`Typed` holds what needs no list: types, which local has a value where, who may be in which call,
the phases of the destructor. The rest is `Inv(K, O, R)`: K says of each address where its node is,
of seven places (free, just allocated by Push, in the list, unlinked by a Pop, in the hand of an
agent that deletes it, delayed, in a list that an agent has taken), O which agent has it there, R
how far it is from the end of its list. `IInv` says that there are such functions; a step that moves
a node names the next ones. As a node has one place, that no two agents delete it, that the list
holds no retired node and that nothing is left at the end (`InvOnce`, `InvLive`, `InvEmpty`) are
consequences, once `ChainIsList` has shown that the recursive function `Chain` computes the set that
R counts through. What keeps the places right is `Guarding`, the argument for hazard pointers: a Pop
whose recheck succeeds has the node in a cell, the node was in the list after the cell was written,
and no scan for it has passed the cell; so a scan will find it, it is not given to `new` meanwhile,
and as long as it is in the list its `next_` is the one that was read. That excludes the ABA
(`PopCasOkInv`) and deletion under a reader (`ImmediateDeleteInv`). `Producing` is the same for
Push, and is where one producer is needed. `Counted` relates `size_` to the list; it needs that
remainders add up (`RemPlusRem`). From `Inductive` follow `MemoryIsSafe` and `StackKeepsShape`.

`StackIsLinearizable` shows that the stack implements `AtomicContainer`. `Contents`, to which its
items are mapped, is a recursive function too: `ContentsFirst` (the value of the first node, then
the contents from the next one on, since a list is no longer than the number of nodes the recursion
is started with) and `ContentsSame` (the contents depend on the nodes of the list only) are what the
steps need of it. By the places of the invariant no step but the two exchanges writes to a node of
the list or moves `head_` (`ContentsKept`), and none changes the operation of a thread other than
its own (`OthersOp`). So each step is a stutter (`SilentMoves`), the call or return of an operation
(`CallPushMoves`, `CallPopMoves`, `ReturnMoves`), or the instant at which one takes effect:
`PushCasOkMoves`, where `Carried` says that the new node has the value Push was called with;
`PopCasOkMoves`; and `PopEmptyMoves`, the load or the recheck that finds nullptr.

**LockFreeQueueProofs** has the same form: `Typed`, and the places of `Inv(K, O, R)`, with the dummy
as the first node of the list. Its hypotheses are that a use has one consumer at most, and one
producer at most if it has a consumer; that the destructor's thread is neither; and that the sets are
finite. The uses of the run `queue` are of this kind; with a second producer the property
`AppendedToQueue` is false and with a second consumer `MemorySafe` (see Findings). The argument
is not that of the stack: it needs no slots, so the proof asks nothing of the hazard pointers. With one
consumer, what a Pop has read of the head stays true until it acts on it (`Popping`), which is what the
code relies on where it reads `next_` before any access. What a Push has read of the tail is the
matter of `Producing`: beside a consumer the tail it has validated is the last node until it links its
own, because the only other thread that could append is itself, and the consumer only takes a node
that the tail has passed; without a consumer other Pushes may get ahead, but nothing leaves the list. The
tail is the last node or the one before it, and is behind only while a Push that has linked its
node has not moved it (`Behind`): each of the three steps that move the tail, the two of Push and the
help of Pop, is shown to keep that. `Filled` (a node behind the dummy has a value) and
`Emptied` are for the destructor, whose loop ends at the first null: no value may be left then. From
`Inductive` follow `MemoryIsSafe`, `QueueKeepsShape` and `OneProducerAppends`, which is the comment that
`queue_lost_push` refutes with a second producer.

`QueueIsLinearizable` shows that the queue implements `AtomicContainer`, by the same lemmas on
steps as the stack (`SilentMoves` and the others; `Quietly` is a step that writes to no node of the
list but the dummy). The contents start behind the dummy, so a Pop takes effect where it shifts the head
and its value may stay in the new dummy until it is fetched. What is new is `ContentsAppend`: a node
linked behind the last one adds its value at the end. It compares the recursion of `Contents` before
the step with the one after it, which needs one level more to reach the same end (`Longer`,
`WalkAppend`). A Pop that returns null takes effect at its load of `next_`: the head is still the one it
loaded first, so the queue is empty then.

**RingProofs**, for `LoggerRing`, assumes a positive capacity and messages smaller than it. The invariant
relates what each thread can see: `RingShape` (the positions delimit the bytes in the
ring, and the producer's free space ends at the buffer's end or at the consumer),
`Contents` (byte b lies at `Position(b)`), `ProducerView` and `ConsumerView` (what a position read
earlier still implies: the consumer never turns while the producer is in its round, so a
producer that has decided to give up the end still finds it behind; a consumer that has
seen the producer behind it finds the data end of the round it is in). From `Inductive`
follow `Typed`, `ReadsWhatWasWritten` (no byte lost, repeated, torn or overwritten) and
`AssertionsHold`.

`RingImplementsFifo` shows that the ring implements `LogFifo`. By `Contents` the mapped queue is the
numbers from `read` to `written - 1` in order (`QueuedBytes`), before a step and after it; so a
step that changes neither count is a stutter whatever it does to positions and data
end (`OthersStutter`), `Commit` appends a message within the bound (`CommitLogs`, by
`BytesAppend`), and `Consume` drops what was copied (`ConsumeTakes`, by `BytesDrop`).

**ThreadPoolProofs** assumes finite sets of workers and posters, and any set of tasks, each of
which at most one task posts (those that none posts come from outside). `PoolInv` is inductive as it stands,
in five parts: `TypeOK`;
`Places`, where a thread can be and what it then holds; `Phases`, the order of the
destructor (nobody posts from outside once it has begun, the flag is cleared before the
first unit for no task, the left jobs are called when all workers have gone);
`TokenBalance`, that units of the semaphore, posted, held or not yet posted, are the
tasks and the destructor's tokens; and `FrontExists`, a task for each worker between its
check and `front()`. The last two need each other: a worker that passes the check while
the flag is set has a unit of a task, by `TokenBalance` and because there are no tokens
yet, and keeps it when the tokens come. `Counts` says what one moving thread does to the
two counts, `AccountsStay` that most actions leave them alone. From `PoolInductive` follows
`QueueNotEmptyAtFront`.

For `EachTaskOnce`, `TaskInv` follows the single task: posted and not yet called it is at one place
of the queue or in one thread's hands, and once it has been called it is in none (`InOnePlace`,
`NoneLost`); `CalledOnce` adds that a task has posted its child only once called. The queue's places
are told apart by number, so that taking the head and appending are statements about positions. With
`PoolInv` this gives `TasksInOnePlace` and `TasksCalledOnce`: no task runs twice, none is lost when
the destructor starts, wherever it starts.

**SharedInstanceProofs** assumes a finite set of threads, each with its own handles, and that
`instance_` is none of these. The invariant is built in four layers, each inductive with those
before it. `Shape` says that what a thread still has to do is the rest of one operation of sptr:
without it nothing is known of the next access. `Single` adds the mutex, that a pool is made only
under it and only while none has been (the second check), and that nobody knows of a pool before it
is stored: `PlansKept`, `OnePoolMade`. `Counted` sets the counter against the handles that own the
pool, less the ones that an operation is about to count or has counted already (`Between`, `skew`):
`CountKept`, `CountsAllOwners`. `Safe` says who may still reach a pool whose count has come to zero:
nobody, as each access that could would itself be an owner (`NoUser`, `Unshared`, `Returned`):
`CounterTouchedAlive`, with the exceptions of the code (`Clean`). While none has occurred the count
is never too low (`NeverShort`, `NeverShortKept`): a copy that forgets to count down leaves a pool
alive for too long, and no more.

**LoggerProofs** assumes a finite set of logging threads and blocks of a positive size. Its books
are sums over the threads, and a sum over a finite set is defined by recursion (`FoldFunction`). The
library's induction theorems take an operator, which cannot be instantiated; a set of numbers has a
least element (`LeastNumber`), and the same argument with a set instead of an operator gives the
three facts about sums that are needed. `IInv` consists of `Types`; `Rounds`, where the IO thread is
and which ring it has before it; `Books`, that the swap buffer claims to hold all that was ever
consumed, which stays below its limit; `Waiters`, who waits for which commits; `DoubleCheck`; and
`SyncCovers`. The last is the property: as nothing ever leaves the swap buffer, a sync is answered
only while nothing has been loaded, and the round that precedes the answer has found nothing in any
ring that had commits when it was called, or refused them. From `Inductive` follow `BooksKept` and
`SyncAnswersCover`.

**RingProofs**, for `IoUring`, assumes that each queue's size is smaller by more than one than the
modulus of the counters, and divides it (in the code powers of two, and 2^32): one more than full
must not look empty. The first lemmas are the arithmetic of such counters: different entries between
head and tail have different slots, and a counter that wraps agrees with the slot it had.
`QueuesInv` states for each queue what lies between its counters (`SqQueue`, `CqQueue`), and that a
request whose operation has been submitted and not yet handled is in one place: the submission
queue, the kernel, or, not yet used, the completion queue (`OnePlace`). From it follow
`EntriesIntact` and `CompletionsIntact`.

**EventLoopProofs** assumes a finite set of clients, files of any size, any number of
descriptors open already, and a pipe that holds at least one byte.
`DescriptorsOwned` counts; what is inductive says who. `Right` says what the numbers in a request stand for,
given the descriptor table, `OwnedBy` that each open descriptor is in the hands of one
request in flight or is an arrived socket, and that two requests share none. Five lemmas about
any such table carry the whole argument (`Accepting`, `HandingOver`, `Replacing`, `Opening`,
`Closing`), since a step of the loop is one of these. Requests are elements of sets and
completions of a sequence, so `Distinct` says that no request is in flight twice; without it a
completion could leave the same request behind. `AnswersComplete` speaks of the end of a connection, long
after its answer: `Told` therefore says of each request what its client has been sent
before the kernel completes it (`Before`) and after (`After`), and of each client that its connection
is open, or it has its answer, or it has left (`Connections`). `OneOf` joins the two halves: while
nothing has gone wrong a client has one socket and one request, so that a step on one client's
request cannot disturb what is said of another's. `HandledIInv` and `CompletedIInv` do what is common to
the steps of the loop and of the kernel. `Owned` and `Told` are under the conditions of the
properties (`mishaps`), types and the standing accept hold in all behaviours: `AlwaysAccepting`,
`NothingLeaks`, `AnsweredInFull`.

The recursive functions of the containers (`Chain`, `Contents`) are reasoned about by induction on
their depth, stated with a set of numbers (`SetInduction`), as the library's induction theorems
take an operator.

Only model-checked: all liveness (TLAPS does not handle ENABLED or fairness), and the exercises
and format strings, whose operators are declared recursive.

## Not modelled

Start-up of the server (socket, bind and listen before the loop begins); `rbtree` (declarations
only); the design-pattern demonstrations, `log`, `linux` (no state or no code); B3615 and B3633
(a model would repeat their definition). Of the copies of liburing: registered buffer
rings, eventfd flags and the polled submission queue, which no caller uses, and
everything in the compiled library. Of the server: the synchronous build, which nothing
selects, and the text of requests and answers. Of nanolog: `register_new_logger_entity`, which
appends under a lock, the discarding of rings, which nothing starts, clocks and statistics.

All shared accesses are taken to be sequentially consistent: the containers use the
default order of `std::atomic`, the ring and the queues have barriers between the stores that
matter. `refcount_` is atomic; the accesses to `instance_` race in C++, and the model lets
each read see the latest store.

## Plan

Done: the sanitizer and the containers, the pool, the server, the ring, the
exercises; the counted pointer and GetInstance, the IO thread of nanolog, the io_uring
queues, format strings; proofs for the registry, the stack and the queue with the sanitizer and
their refinements, the pool, the counted pointer, the server, the IO thread, the io_uring queues, and
the ring with its refinement. Every safety property that a run checks of these is a theorem.

Next, if the code goes on:

1. When the queue links its delayed list through a field of its own, and Pop accesses the head before
   it reads `next_`, the hypotheses on producers and consumers can go: the proof then needs the argument
   for hazard pointers of the stack (`Guarding`) in place of `Popping`.
2. When nanolog's flush empties the swap buffer, `Logger` has to follow and `SyncCovers` to be
   proved anew: the argument now rests on nothing ever leaving it.
