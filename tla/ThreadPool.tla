----------------------------- MODULE ThreadPool -----------------------------
(***************************************************************************)
(* ThreadPoolImpl (threadpool/ThreadPool.cpp, ThreadPool.hpp): the task      *)
(* queue under its mutex, the semaphore that counts tasks, the workers and   *)
(* the destructor.  A task may post one more task (Child) and may wait for   *)
(* the future of that one (Waits); the callers of emplace may wait for       *)
(* theirs.                                                                  *)
(***************************************************************************)
EXTENDS Integers, Sequences, FiniteSets

CONSTANTS
  Workers,   \* one per processor
  Posters,   \* threads outside the pool that hold a reference and post
  Main,      \* the thread that drops the last reference
  NoAgent,
  Tasks, NoTask,
  Child,     \* the task each task posts, or NoTask
  Waits      \* the tasks that may wait for the future of their child

Agents == Workers \cup Posters \cup {Main}

ASSUME AgentsAssumption ==
  /\ IsFiniteSet(Workers) /\ IsFiniteSet(Posters)
  /\ Main \notin Workers \cup Posters /\ Workers \cap Posters = {}
  /\ NoAgent \notin Agents
ASSUME TasksAssumption ==
  /\ NoTask \notin Tasks
  /\ Child \in [Tasks -> Tasks \cup {NoTask}]
  /\ \A j, k \in Tasks : Child[j] = Child[k] /\ Child[j] # NoTask => j = k   \* emplace makes a new task
  /\ Waits \subseteq {k \in Tasks : Child[k] # NoTask}

Roots == Tasks \ {Child[k] : k \in Tasks}   \* posted from outside the pool

VARIABLES
  tasks,     \* the queue
  mutex,     \* the owner of tasksMutex
  taskSem,   \* the value of the semaphore
  running,
  tokens,    \* how many times the destructor has posted the semaphore
  pc,
  job,       \* the task an agent is executing
  posting,   \* the task an agent is posting
  posted,    \* the tasks given to emplace
  runs,      \* how often each task has been called
  finished   \* the tasks whose future is ready

vars == <<tasks, mutex, taskSem, running, tokens, pc, job, posting, posted, runs, finished>>
history == <<posted, runs, finished>>

Init ==
  /\ tasks = <<>> /\ mutex = NoAgent /\ taskSem = 0
  /\ running = TRUE /\ tokens = 0
  /\ pc = [a \in Agents |-> IF a \in Workers THEN "wait" ELSE "idle"]
  /\ job = [a \in Agents |-> NoTask]
  /\ posting = [a \in Agents |-> NoTask]
  /\ posted = {} /\ runs = [k \in Tasks |-> 0] /\ finished = {}

Goto(a, label) == pc' = [pc EXCEPT ![a] = label]

-----------------------------------------------------------------------------
(* emplace and postTask.                                                    *)

(* A call from outside: nobody posts once the last reference is dropped.    *)
Emplace(p) ==
  /\ pc[p] = "idle" /\ pc[Main] = "idle"
  /\ \E k \in Roots \ posted :
       /\ posting' = [posting EXCEPT ![p] = k]
       /\ posted' = posted \cup {k}
  /\ Goto(p, "post_lock")
  /\ UNCHANGED <<tasks, mutex, taskSem, running, tokens, job, runs, finished>>

PostLock(a) ==
  /\ pc[a] = "post_lock" /\ mutex = NoAgent
  /\ mutex' = a
  /\ Goto(a, "post_push")
  /\ UNCHANGED <<tasks, taskSem, running, tokens, job, posting, history>>

PostPush(a) ==
  /\ pc[a] = "post_push"
  /\ tasks' = Append(tasks, posting[a])
  /\ mutex' = NoAgent
  /\ Goto(a, "post_sem")
  /\ UNCHANGED <<taskSem, running, tokens, job, posting, history>>

(* PostSem with n units for one task: 1 in the code, 0 in the mutant.        *)
PostUnits(a, n) ==
  /\ pc[a] = "post_sem"
  /\ taskSem' = taskSem + n
  /\ \/ a \notin Posters /\ Goto(a, "end") /\ UNCHANGED posting
     \/ (a \in Posters \/ job[a] \in Waits) /\ Goto(a, "await") /\ UNCHANGED posting
     \/ a \in Posters /\ Goto(a, "idle") /\ posting' = [posting EXCEPT ![a] = NoTask]
  /\ UNCHANGED <<tasks, mutex, running, tokens, job, history>>
PostSemForgotten(a) == PostUnits(a, 0)

(* The semaphore is posted after the lock is released; then emplace returns *)
(* the future to the task that called it, or to the poster, which may wait. *)
PostSem(a) == PostUnits(a, 1)

(* future.wait() or future.get() returns. *)
Await(a) ==
  /\ pc[a] = "await" /\ posting[a] \in finished
  /\ Goto(a, IF a \in Posters THEN "idle" ELSE "end")
  /\ posting' = [posting EXCEPT ![a] = NoTask]
  /\ UNCHANGED <<tasks, mutex, taskSem, running, tokens, job, history>>

-----------------------------------------------------------------------------
(* A task is called, by a worker or by the destructor.                      *)

Execute(a) ==
  /\ pc[a] = "run"
  /\ runs' = [runs EXCEPT ![job[a]] = @ + 1]
  /\ IF Child[job[a]] = NoTask
       THEN Goto(a, "end") /\ UNCHANGED <<posting, posted>>
       ELSE /\ Goto(a, "post_lock")
            /\ posting' = [posting EXCEPT ![a] = Child[job[a]]]
            /\ posted' = posted \cup {Child[job[a]]}
  /\ UNCHANGED <<tasks, mutex, taskSem, running, tokens, job, finished>>

Finish(a) ==
  /\ pc[a] = "end"
  /\ finished' = finished \cup {job[a]}
  /\ job' = [job EXCEPT ![a] = NoTask]
  /\ posting' = [posting EXCEPT ![a] = NoTask]
  /\ Goto(a, IF a = Main THEN "drain_pop" ELSE "wait")
  /\ UNCHANGED <<tasks, mutex, taskSem, running, tokens, posted, runs>>

-----------------------------------------------------------------------------
(* WorkThreadMain.                                                          *)

SemWait(w) ==
  /\ pc[w] = "wait" /\ taskSem > 0
  /\ taskSem' = taskSem - 1
  /\ Goto(w, "check")
  /\ UNCHANGED <<tasks, mutex, running, tokens, job, posting, history>>

(* Mutant of CheckRunning: the worker goes on after the flag is cleared.    *)
CheckRunningIgnored(w) ==
  /\ pc[w] = "check"
  /\ Goto(w, "lock")
  /\ UNCHANGED <<tasks, mutex, taskSem, running, tokens, job, posting, history>>

CheckRunning(w) ==
  /\ pc[w] = "check"
  /\ Goto(w, IF running THEN "lock" ELSE "exit")
  /\ UNCHANGED <<tasks, mutex, taskSem, running, tokens, job, posting, history>>

TakeLock(w) ==
  /\ pc[w] = "lock" /\ mutex = NoAgent
  /\ mutex' = w
  /\ Goto(w, "take")
  /\ UNCHANGED <<tasks, taskSem, running, tokens, job, posting, history>>

(* Mutant of Take: the task is not popped.                                  *)
TakeNoPop(w) ==
  /\ pc[w] = "take" /\ tasks # <<>>
  /\ job' = [job EXCEPT ![w] = Head(tasks)]
  /\ mutex' = NoAgent
  /\ Goto(w, "run")
  /\ UNCHANGED <<tasks, taskSem, running, tokens, posting, history>>

(* tasks.front() of an empty queue is undefined: FrontExists rules it out.  *)
Take(w) ==
  /\ pc[w] = "take" /\ tasks # <<>>
  /\ job' = [job EXCEPT ![w] = Head(tasks)]
  /\ tasks' = Tail(tasks)
  /\ mutex' = NoAgent
  /\ Goto(w, "run")
  /\ UNCHANGED <<taskSem, running, tokens, posting, history>>

-----------------------------------------------------------------------------
(* ~ThreadPoolImpl.                                                         *)

Destroy ==
  /\ pc[Main] = "idle" /\ \A p \in Posters : pc[p] = "idle"
  /\ Goto(Main, "stop")
  /\ UNCHANGED <<tasks, mutex, taskSem, running, tokens, job, posting, history>>

Stop ==
  /\ pc[Main] = "stop"
  /\ running' = FALSE
  /\ Goto(Main, "tokens")
  /\ UNCHANGED <<tasks, mutex, taskSem, tokens, job, posting, history>>

(* Mutant of PostToken: one worker too few gets a unit.                     *)
PostTokenShort ==
  /\ pc[Main] = "tokens" /\ tokens < Cardinality(Workers) - 1
  /\ taskSem' = taskSem + 1
  /\ tokens' = tokens + 1
  /\ UNCHANGED <<tasks, mutex, running, pc, job, posting, history>>

PostToken ==
  /\ pc[Main] = "tokens" /\ tokens < Cardinality(Workers)
  /\ taskSem' = taskSem + 1
  /\ tokens' = tokens + 1
  /\ UNCHANGED <<tasks, mutex, running, pc, job, posting, history>>

Join ==
  /\ pc[Main] = "tokens" /\ tokens = Cardinality(Workers)
  /\ \A w \in Workers : pc[w] = "exit"
  /\ Goto(Main, "drain")
  /\ UNCHANGED <<tasks, mutex, taskSem, running, tokens, job, posting, history>>

(* The left jobs are called in place and popped afterwards.                 *)
DrainFront ==
  /\ pc[Main] = "drain" /\ tasks # <<>>
  /\ job' = [job EXCEPT ![Main] = Head(tasks)]
  /\ Goto(Main, "run")
  /\ UNCHANGED <<tasks, mutex, taskSem, running, tokens, posting, history>>

DrainPop ==
  /\ pc[Main] = "drain_pop"
  /\ tasks' = Tail(tasks)
  /\ Goto(Main, "drain")
  /\ UNCHANGED <<mutex, taskSem, running, tokens, job, posting, history>>

DrainEnd ==
  /\ pc[Main] = "drain" /\ tasks = <<>>
  /\ Goto(Main, "destroyed")
  /\ UNCHANGED <<tasks, mutex, taskSem, running, tokens, job, posting, history>>

-----------------------------------------------------------------------------
Post(a) == PostLock(a) \/ PostPush(a) \/ PostSem(a) \/ Await(a)
RunTask(a) == Execute(a) \/ Finish(a)
WorkThreadMain(w) == SemWait(w) \/ CheckRunning(w) \/ TakeLock(w) \/ Take(w)
Destructor == Stop \/ PostToken \/ Join \/ DrainFront \/ DrainPop \/ DrainEnd

Next ==
  \/ \E p \in Posters : Emplace(p)
  \/ \E a \in Agents : Post(a)
  \/ \E a \in Agents \ Posters : RunTask(a)
  \/ \E w \in Workers : WorkThreadMain(w)
  \/ Destroy \/ Destructor

Spec == Init /\ [][Next]_vars

(* Every thread that can move is scheduled again.  Nothing is asked of the  *)
(* mutex or the semaphore about who is let through first.                   *)
Thread(a) == \/ Post(a)
             \/ a \notin Posters /\ RunTask(a)
             \/ a \in Workers /\ WorkThreadMain(a)
             \/ a = Main /\ Destructor
FairSpec == Spec /\ \A a \in Agents : WF_vars(Thread(a))

-----------------------------------------------------------------------------
Labels == {"idle", "post_lock", "post_push", "post_sem", "await", "run", "end",
           "wait", "check", "lock", "take", "exit",
           "stop", "tokens", "drain", "drain_pop", "destroyed"}

TypeOK ==
  /\ tasks \in Seq(Tasks)
  /\ mutex \in Agents \cup {NoAgent}
  /\ taskSem \in Nat /\ tokens \in Nat /\ running \in BOOLEAN
  /\ pc \in [Agents -> Labels]
  /\ job \in [Agents -> Tasks \cup {NoTask}]
  /\ posting \in [Agents -> Tasks \cup {NoTask}]
  /\ posted \subseteq Tasks /\ finished \subseteq Tasks
  /\ runs \in [Tasks -> Nat]

At(labels) == {a \in Agents : pc[a] \in labels}

(* Where each thread can be, and the task it then has in hand.              *)
Posts == {"post_lock", "post_push", "post_sem", "await"}
Runs == Posts \cup {"run", "end"}

Places ==
  /\ \A p \in Posters : pc[p] \in Posts \cup {"idle"}
  /\ \A w \in Workers : pc[w] \in Runs \cup {"wait", "check", "lock", "take", "exit"}
  /\ pc[Main] \in Runs \cup {"idle", "stop", "tokens", "drain", "drain_pop", "destroyed"}
  /\ \A a \in Agents : pc[a] \in Posts => posting[a] \in Tasks
  /\ \A a \in Agents \ Posters : pc[a] \in Runs => job[a] \in Tasks

(* The phases of the destructor: nobody posts from outside once it has begun, *)
(* units for no task and exits come after the flag, and it calls the tasks    *)
(* that are left when all workers have gone, each still at the front.       *)
Phases ==
  /\ running <=> pc[Main] \in {"idle", "stop"}
  /\ running => tokens = 0 /\ \A w \in Workers : pc[w] # "exit"
  /\ pc[Main] # "idle" => \A p \in Posters : pc[p] = "idle"
  /\ pc[Main] \in Runs \cup {"drain", "drain_pop", "destroyed"}
       => \A w \in Workers : pc[w] = "exit"
  /\ pc[Main] \in Runs \cup {"drain_pop"} => tasks # <<>>

(* Who has passed the running check and not yet taken a task, and who has a  *)
(* unit of the semaphore in hand.                                           *)
Takers == {"lock", "take"}
Holders == Takers \cup {"check", "post_sem", "exit"}

(* Each task in the queue is matched by one unit of the semaphore, on its   *)
(* way: posted, taken by a worker that has not yet taken the task, or not   *)
(* yet posted.  The destructor's tokens and the workers that left on a unit *)
(* are the only difference.                                                 *)
TokenBalance ==
  running \/ pc[Main] = "tokens" =>
    taskSem + Cardinality(At(Holders)) = Len(tasks) + tokens

(* tasks.front() is never called on an empty queue: each worker that passed  *)
(* the running check before the destructor cleared it still has a task of    *)
(* its own there, although the destructor's tokens are no tasks.            *)
FrontExists == Cardinality(At(Takers)) <= Len(tasks)

(* The inductive invariant: the type of the pool's state, the phases of its   *)
(* destructor, a queue that its units account for, and a task for every      *)
(* worker that is about to take one.                                        *)
PoolInv == TypeOK /\ Places /\ Phases /\ TokenBalance /\ FrontExists

(* A task is called at most once, and the destructor leaves none uncalled:  *)
(* what the workers did not take before they stopped, and what the last     *)
(* tasks posted, is called by the destructor ("Clean left jobs").           *)
EachTaskOnce ==
  /\ \A k \in Tasks : runs[k] <= 1
  /\ pc[Main] = "destroyed" => \A k \in posted : runs[k] = 1 /\ k \in finished

(* Some task, called by a worker or by the destructor, waits for the future *)
(* of a task that nobody has begun.                                         *)
NestedWait == \E a \in Agents \ Posters : pc[a] = "await" /\ runs[posting[a]] = 0

(* The future of every emplace becomes ready, unless from some moment on a  *)
(* task waits for one that nobody has begun: the queue, the mutex and the   *)
(* semaphore keep no task back by themselves.                               *)
FuturesReady == <>[]NestedWait \/ \A k \in Tasks : k \in posted ~> k \in finished

(* A destructor that has begun ends, with the same exception: each worker   *)
(* gets a unit to leave on, and the destructor calls what is left.          *)
DestructorEnds == <>[]NestedWait \/ (pc[Main] = "stop" ~> pc[Main] = "destroyed")
=============================================================================
