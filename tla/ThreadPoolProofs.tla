--------------------------- MODULE ThreadPoolProofs ---------------------------
(***************************************************************************)
(* Proofs about ThreadPool, for any number of workers, of threads that post *)
(* and of tasks: PoolInv is inductive.  The heart is the accounting of the   *)
(* semaphore's units (TokenBalance) across the flag that stops the workers.  *)
(***************************************************************************)
EXTENDS ThreadPool, FiniteSetTheorems, SequenceTheorems, TLAPS

USE AgentsAssumption, TasksAssumption DEF Agents

-----------------------------------------------------------------------------
(* Counting the agents at a set of labels.                                  *)

LEMMA AgentsFinite == IsFiniteSet(Agents)
<1>1. IsFiniteSet(Workers \cup Posters)
  BY FS_Union
<1>2. IsFiniteSet({Main})
  BY FS_Singleton
<1> QED BY <1>1, <1>2, FS_Union

(* Every count is a number, and a smaller set of labels counts no more.     *)
LEMMA AtCounts ==
  ASSUME NEW L, NEW K \in SUBSET L
  PROVE  /\ IsFiniteSet(At(L)) /\ Cardinality(At(L)) \in Nat
         /\ Cardinality(At(K)) \in Nat
         /\ Cardinality(At(K)) <= Cardinality(At(L))
<1>1. At(L) \in SUBSET Agents /\ At(K) \in SUBSET At(L)
  BY DEF At
<1>2. IsFiniteSet(At(L)) /\ IsFiniteSet(At(K)) /\ Cardinality(At(K)) <= Cardinality(At(L))
  BY <1>1, AgentsFinite, FS_Subset
<1> QED BY <1>2, FS_CardinalityType

(* A thread that goes from one label to another changes the count by at most *)
(* one.                                                                      *)
LEMMA Moves ==
  ASSUME NEW L, NEW a \in Agents, NEW l, pc \in [Agents -> Labels], Goto(a, l)
  PROVE  /\ Cardinality(At(L)) \in Nat
         /\ (pc[a] \in L <=> l \in L) => Cardinality(At(L))' = Cardinality(At(L))
         /\ pc[a] \in L /\ l \notin L => Cardinality(At(L))' = Cardinality(At(L)) - 1
         /\ pc[a] \notin L /\ l \in L => Cardinality(At(L))' = Cardinality(At(L)) + 1
<1>1. IsFiniteSet(At(L)) /\ Cardinality(At(L)) \in Nat
  BY AtCounts
<1>2. a \in At(L) <=> pc[a] \in L
  BY DEF At
<1>3. CASE pc[a] \in L <=> l \in L
  <2>1. At(L)' = At(L)
    BY <1>3 DEF At, Goto
  <2> QED BY <1>1, <1>3, <2>1
<1>4. CASE pc[a] \in L /\ l \notin L
  <2>1. At(L)' = At(L) \ {a}
    BY <1>4 DEF At, Goto
  <2>2. Cardinality(At(L) \ {a}) = Cardinality(At(L)) - 1
    BY <1>1, <1>2, <1>4, FS_RemoveElement
  <2> QED BY <1>1, <1>4, <2>1, <2>2
<1>5. CASE pc[a] \notin L /\ l \in L
  <2>1. At(L)' = At(L) \cup {a}
    BY <1>5 DEF At, Goto
  <2>2. Cardinality(At(L) \cup {a}) = Cardinality(At(L)) + 1
    BY <1>1, <1>2, <1>5, FS_AddElement
  <2> QED BY <1>1, <1>5, <2>1, <2>2
<1> QED BY <1>3, <1>4, <1>5

-----------------------------------------------------------------------------
LEMMA InitPoolInv == Init => PoolInv
<1> SUFFICES ASSUME Init PROVE PoolInv
  OBVIOUS
<1>1. TypeOK
  BY EmptySeq DEF Init, TypeOK, Labels
<1>2. Places /\ Phases
  BY DEF Init, Places, Phases, Posts, Runs
<1>3. At(Holders) = {} /\ At(Takers) = {} /\ Cardinality({}) = 0 /\ Len(tasks) = 0
  BY FS_EmptySet DEF Init, At, Holders, Takers
<1>4. TokenBalance /\ FrontExists
  BY <1>3 DEF Init, TokenBalance, FrontExists
<1> QED BY <1>1, <1>2, <1>4 DEF PoolInv

(* What a thread that goes to the label l does to the two counts.           *)
Weight(l, L) == IF l \in L THEN 1 ELSE 0

LEMMA Counts ==
  ASSUME TypeOK, NEW a \in Agents, NEW l, Goto(a, l)
  PROVE  /\ Cardinality(At(Holders)) \in Nat /\ Cardinality(At(Takers)) \in Nat
         /\ Cardinality(At(Holders))' =
              Cardinality(At(Holders)) + Weight(l, Holders) - Weight(pc[a], Holders)
         /\ Cardinality(At(Takers))' =
              Cardinality(At(Takers)) + Weight(l, Takers) - Weight(pc[a], Takers)
<1>1. pc \in [Agents -> Labels]
  BY DEF TypeOK
<1>2. ASSUME NEW L
      PROVE  /\ Cardinality(At(L)) \in Nat
             /\ Cardinality(At(L))' = Cardinality(At(L)) + Weight(l, L) - Weight(pc[a], L)
  <2>1. Cardinality(At(L)) \in Nat
    BY <1>1, Moves
  <2>2. CASE pc[a] \in L /\ l \in L
    <3>1. Cardinality(At(L))' = Cardinality(At(L))
      BY <1>1, <2>2, Moves
    <3> QED BY <2>1, <2>2, <3>1 DEF Weight
  <2>3. CASE pc[a] \notin L /\ l \notin L
    <3>1. Cardinality(At(L))' = Cardinality(At(L))
      BY <1>1, <2>3, Moves
    <3> QED BY <2>1, <2>3, <3>1 DEF Weight
  <2>4. CASE pc[a] \in L /\ l \notin L
    <3>1. Cardinality(At(L))' = Cardinality(At(L)) - 1
      BY <1>1, <2>4, Moves
    <3> QED BY <2>1, <2>4, <3>1 DEF Weight
  <2>5. CASE pc[a] \notin L /\ l \in L
    <3>1. Cardinality(At(L))' = Cardinality(At(L)) + 1
      BY <1>1, <2>5, Moves
    <3> QED BY <2>1, <2>5, <3>1 DEF Weight
  <2> QED BY <2>2, <2>3, <2>4, <2>5
<1>3. /\ Cardinality(At(Holders)) \in Nat
      /\ Cardinality(At(Holders))' =
           Cardinality(At(Holders)) + Weight(l, Holders) - Weight(pc[a], Holders)
  BY <1>2 DEF Holders, Takers
<1>4. /\ Cardinality(At(Takers)) \in Nat
      /\ Cardinality(At(Takers))' =
           Cardinality(At(Takers)) + Weight(l, Takers) - Weight(pc[a], Takers)
  BY <1>2 DEF Takers
<1> QED BY <1>3, <1>4

(* A step that moves one thread and neither the queue nor a unit keeps the    *)
(* accounts, when the thread stays inside or outside Holders and Takers.    *)
LEMMA AccountsStay ==
  ASSUME PoolInv, NEW a \in Agents, NEW l, Goto(a, l),
         l # "tokens", UNCHANGED <<tasks, taskSem, tokens, running>>,
         pc[a] \in Holders <=> l \in Holders,
         pc[a] \in Takers <=> l \in Takers
  PROVE  TokenBalance' /\ FrontExists'
<1>1. /\ Cardinality(At(Holders))' = Cardinality(At(Holders))
      /\ Cardinality(At(Takers))' = Cardinality(At(Takers))
  BY Counts DEF PoolInv, Weight
<1>2. pc'[Main] = "tokens" => pc[Main] = "tokens"
  BY DEF PoolInv, TypeOK, Goto
<1> QED BY <1>1, <1>2 DEF PoolInv, TokenBalance, FrontExists

-----------------------------------------------------------------------------
(* emplace and postTask.                                                    *)

LEMMA EmplaceInv == ASSUME PoolInv, NEW p \in Posters, Emplace(p) PROVE PoolInv'
<1> USE DEF PoolInv, Emplace
<1>1. TypeOK'
  BY DEF TypeOK, Goto, Labels, Roots
<1>2. Places' /\ Phases'
  BY DEF TypeOK, Places, Phases, Posts, Runs, Goto, Roots
<1>3. TokenBalance' /\ FrontExists'
  BY AccountsStay DEF Holders, Takers
<1> QED BY <1>1, <1>2, <1>3

LEMMA PostLockInv == ASSUME PoolInv, NEW a \in Agents, PostLock(a) PROVE PoolInv'
<1> USE DEF PoolInv, PostLock
<1>1. TypeOK'
  BY DEF TypeOK, Goto, Labels, history
<1>2. Places' /\ Phases'
  BY DEF TypeOK, Places, Phases, Posts, Runs, Goto, history
<1>3. TokenBalance' /\ FrontExists'
  BY AccountsStay DEF Holders, Takers
<1> QED BY <1>1, <1>2, <1>3

(* The task comes before its unit: its thread holds the one that is missing. *)
LEMMA PostPushInv == ASSUME PoolInv, NEW a \in Agents, PostPush(a) PROVE PoolInv'
<1> USE DEF PoolInv, PostPush
<1>1. posting[a] \in Tasks
  BY DEF Places, Posts
<1>2. tasks' \in Seq(Tasks) /\ tasks' # <<>> /\ Len(tasks') = Len(tasks) + 1
  BY <1>1, AppendProperties DEF TypeOK
<1>3. TypeOK'
  BY <1>2 DEF TypeOK, Goto, Labels, history
<1>4. Places' /\ Phases'
  BY <1>2 DEF TypeOK, Places, Phases, Posts, Runs, Goto, history
<1>5. TokenBalance' /\ FrontExists'
  <2>1. /\ Cardinality(At(Holders)) \in Nat /\ Cardinality(At(Takers)) \in Nat
        /\ Cardinality(At(Holders))' = Cardinality(At(Holders)) + 1
        /\ Cardinality(At(Takers))' = Cardinality(At(Takers))
    <3>1. Goto(a, "post_sem") /\ pc[a] = "post_push" /\ TypeOK
      OBVIOUS
    <3>2. Weight("post_sem", Holders) = 1 /\ Weight("post_push", Holders) = 0
      BY DEF Weight, Holders, Takers
    <3>3. Weight("post_sem", Takers) = 0 /\ Weight("post_push", Takers) = 0
      BY DEF Weight, Takers
    <3> HIDE DEF PostPush
    <3> QED BY <3>1, <3>2, <3>3, Counts
  <2>2. pc'[Main] = "tokens" => pc[Main] = "tokens"
    BY DEF TypeOK, Goto
  <2>3. Len(tasks) \in Nat /\ Len(tasks') = Len(tasks) + 1
    BY <1>2, LenProperties DEF TypeOK
  <2>4. UNCHANGED <<taskSem, running, tokens>> /\ taskSem \in Nat /\ tokens \in Nat
    BY DEF TypeOK
  <2>5. TokenBalance /\ FrontExists
    OBVIOUS
  <2> HIDE DEF PostPush, PoolInv
  <2>6. TokenBalance'
    BY <2>1, <2>2, <2>3, <2>4, <2>5 DEF TokenBalance
  <2>7. FrontExists'
    BY <2>1, <2>3, <2>5 DEF FrontExists
  <2> QED BY <2>6, <2>7
<1> QED BY <1>3, <1>4, <1>5

LEMMA PostSemInv == ASSUME PoolInv, NEW a \in Agents, PostSem(a) PROVE PoolInv'
<1> USE DEF PoolInv, PostSem, PostUnits
<1> DEFINE l == pc'[a]
<1>1. Goto(a, l) /\ l \in {"end", "await", "idle"}
  BY DEF Goto, TypeOK
<1>2. TypeOK'
  <2>1. pc' \in [Agents -> Labels]
    BY <1>1 DEF TypeOK, Goto, Labels
  <2>2. posting' \in [Agents -> Tasks \cup {NoTask}]
    BY DEF TypeOK
  <2> QED BY <2>1, <2>2 DEF TypeOK, history
<1>3. Places'
  <2>1. /\ pc[a] = "post_sem" /\ pc' = [pc EXCEPT ![a] = l] /\ UNCHANGED job
        /\ l = "idle" => posting' = [posting EXCEPT ![a] = NoTask]
        /\ l # "idle" => posting' = posting
        /\ a \in Posters => l \in {"await", "idle"}
        /\ a \notin Posters => l \in {"await", "end"}
    BY DEF Goto, TypeOK
  <2> HIDE DEF PostSem, PostUnits, l
  <2>2. \A b \in Agents : pc'[b] \in Posts => posting'[b] \in Tasks
    BY <1>1, <2>1 DEF TypeOK, Places, Posts
  <2>3. \A b \in Agents \ Posters : pc'[b] \in Runs => job'[b] \in Tasks
    BY <2>1 DEF TypeOK, Places, Posts, Runs
  <2>4. /\ \A p \in Posters : pc'[p] \in Posts \cup {"idle"}
        /\ \A w \in Workers : pc'[w] \in Runs \cup {"wait", "check", "lock", "take", "exit"}
        /\ pc'[Main] \in Runs \cup {"idle", "stop", "tokens", "drain", "drain_pop", "destroyed"}
    BY <2>1, AgentsAssumption DEF TypeOK, Places, Posts, Runs, Agents
  <2> QED BY <2>2, <2>3, <2>4 DEF Places
<1>4. Phases'
  BY DEF TypeOK, Places, Phases, Posts, Runs, Goto, history
<1>5. TokenBalance' /\ FrontExists'
  <2>1. /\ Cardinality(At(Holders)) \in Nat /\ Cardinality(At(Takers)) \in Nat
        /\ Cardinality(At(Holders))' = Cardinality(At(Holders)) - 1
        /\ Cardinality(At(Takers))' = Cardinality(At(Takers))
    BY <1>1, Counts DEF Holders, Takers, Weight
  <2>2. pc'[Main] = "tokens" => pc[Main] = "tokens"
    BY <1>1 DEF TypeOK, Goto
  <2>3. Len(tasks) \in Nat
    BY LenProperties DEF TypeOK
  <2> QED BY <2>1, <2>2, <2>3 DEF TypeOK, TokenBalance, FrontExists
<1> QED BY <1>2, <1>3, <1>4, <1>5

LEMMA AwaitInv == ASSUME PoolInv, NEW a \in Agents, Await(a) PROVE PoolInv'
<1> USE DEF PoolInv, Await
<1>1. TypeOK'
  BY DEF TypeOK, Goto, Labels, history
<1>2. Places' /\ Phases'
  BY DEF TypeOK, Places, Phases, Posts, Runs, Goto, history
<1>3. TokenBalance' /\ FrontExists'
  BY AccountsStay DEF Holders, Takers
<1> QED BY <1>1, <1>2, <1>3

-----------------------------------------------------------------------------
(* A task is called.                                                        *)

LEMMA ExecuteInv == ASSUME PoolInv, NEW a \in Agents \ Posters, Execute(a) PROVE PoolInv'
<1> DEFINE k == job[a]
           l == IF Child[k] = NoTask THEN "end" ELSE "post_lock"
<1>1. k \in Tasks /\ Child[k] \in Tasks \cup {NoTask}
  BY DEF PoolInv, Places, Execute, Runs
<1>2. /\ Goto(a, l) /\ pc[a] = "run" /\ TypeOK
      /\ runs' = [runs EXCEPT ![k] = @ + 1]
      /\ UNCHANGED <<tasks, mutex, taskSem, running, tokens, job, finished>>
  BY DEF PoolInv, Execute
<1>3. /\ posting' \in [Agents -> Tasks \cup {NoTask}] /\ posted' \subseteq Tasks
      /\ l = "post_lock" => posting'[a] \in Tasks
      /\ \A b \in Agents : b # a => posting'[b] = posting[b]
  <2>1. CASE Child[k] = NoTask
    <3>1. UNCHANGED <<posting, posted>>
      BY <2>1 DEF Execute
    <3> QED BY <1>2, <2>1, <3>1 DEF TypeOK
  <2>2. CASE Child[k] \in Tasks
    <3>1. posting' = [posting EXCEPT ![a] = Child[k]] /\ posted' = posted \cup {Child[k]}
      BY <2>2 DEF Execute
    <3> HIDE DEF k
    <3> QED BY <1>2, <2>2, <3>1 DEF TypeOK
  <2> QED BY <1>1, <2>1, <2>2
<1> HIDE DEF k
<1>4. TypeOK'
  BY <1>1, <1>2, <1>3 DEF TypeOK, Goto, Labels
<1>5. pc'[a] = l /\ \A b \in Agents : b # a => pc'[b] = pc[b]
  BY <1>2 DEF TypeOK, Goto
<1>6. Places'
  BY <1>2, <1>3, <1>5 DEF PoolInv, Places, Posts, Runs
<1>7. Phases'
  BY <1>2, <1>5 DEF PoolInv, Places, Phases, Posts, Runs
<1>8. TokenBalance' /\ FrontExists'
  BY <1>2, AccountsStay DEF Holders, Takers
<1> QED BY <1>4, <1>6, <1>7, <1>8 DEF PoolInv

LEMMA FinishInv == ASSUME PoolInv, NEW a \in Agents \ Posters, Finish(a) PROVE PoolInv'
<1> USE DEF PoolInv, Finish
<1>1. job[a] \in Tasks
  BY DEF Places, Runs
<1>2. TypeOK'
  BY <1>1 DEF TypeOK, Goto, Labels
<1>3. Places' /\ Phases'
  BY DEF TypeOK, Places, Phases, Posts, Runs, Goto
<1>4. TokenBalance' /\ FrontExists'
  BY AccountsStay DEF Holders, Takers
<1> QED BY <1>2, <1>3, <1>4

-----------------------------------------------------------------------------
(* WorkThreadMain.                                                          *)

LEMMA SemWaitInv == ASSUME PoolInv, NEW w \in Workers, SemWait(w) PROVE PoolInv'
<1> USE DEF PoolInv, SemWait
<1>1. TypeOK'
  BY DEF TypeOK, Goto, Labels, history
<1>2. Places' /\ Phases'
  BY DEF TypeOK, Places, Phases, Posts, Runs, Goto, history
<1>3. TokenBalance' /\ FrontExists'
  <2>1. /\ Cardinality(At(Holders)) \in Nat /\ Cardinality(At(Takers)) \in Nat
        /\ Cardinality(At(Holders))' = Cardinality(At(Holders)) + 1
        /\ Cardinality(At(Takers))' = Cardinality(At(Takers))
    BY Counts DEF Holders, Takers, Weight
  <2>2. pc'[Main] = pc[Main]
    BY DEF TypeOK, Goto
  <2>3. Len(tasks) \in Nat
    BY LenProperties DEF TypeOK
  <2> QED BY <2>1, <2>2, <2>3 DEF TypeOK, TokenBalance, FrontExists
<1> QED BY <1>1, <1>2, <1>3

(* A worker that passes the check holds a unit that stands for a task: there  *)
(* are no tokens yet.                                                        *)
LEMMA CheckRunningInv == ASSUME PoolInv, NEW w \in Workers, CheckRunning(w) PROVE PoolInv'
<1> USE DEF PoolInv, CheckRunning
<1>1. TypeOK'
  BY DEF TypeOK, Goto, Labels, history
<1>2. Places' /\ Phases'
  BY DEF TypeOK, Places, Phases, Posts, Runs, Goto, history
<1>3. /\ Cardinality(At(Holders)) \in Nat
      /\ Cardinality(At(Holders))' = Cardinality(At(Holders))
      /\ ~running => Cardinality(At(Takers))' = Cardinality(At(Takers))
      /\ running => Cardinality(At(Takers))' = Cardinality(At(Takers)) + 1
  BY Counts DEF Holders, Takers, Weight
<1>4. TokenBalance'
  BY <1>3 DEF TypeOK, Goto, TokenBalance
<1>5. FrontExists'
  <2>1. CASE running
    <3>1. Cardinality(At(Takers) \cup {w}) <= Cardinality(At(Holders))
          /\ Cardinality(At(Takers) \cup {w}) = Cardinality(At(Takers)) + 1
      <4>1. At(Takers) \cup {w} \in SUBSET At(Holders) /\ w \notin At(Takers)
        BY DEF At, Takers, Holders
      <4>2. IsFiniteSet(At(Holders)) /\ IsFiniteSet(At(Takers))
        BY AtCounts
      <4> QED BY <4>1, <4>2, FS_Subset, FS_AddElement
    <3>2. taskSem + Cardinality(At(Holders)) = Len(tasks)
      BY <2>1, LenProperties DEF TypeOK, Phases, TokenBalance
    <3>3. Len(tasks) \in Nat /\ Cardinality(At(Takers)) \in Nat
      BY AtCounts, LenProperties DEF TypeOK
    <3> QED BY <1>3, <2>1, <3>1, <3>2, <3>3 DEF TypeOK, FrontExists
  <2>2. CASE ~running
    BY <1>3, <2>2 DEF FrontExists
  <2> QED BY <2>1, <2>2
<1> QED BY <1>1, <1>2, <1>4, <1>5

LEMMA TakeLockInv == ASSUME PoolInv, NEW w \in Workers, TakeLock(w) PROVE PoolInv'
<1> USE DEF PoolInv, TakeLock
<1>1. TypeOK'
  BY DEF TypeOK, Goto, Labels, history
<1>2. Places' /\ Phases'
  BY DEF TypeOK, Places, Phases, Posts, Runs, Goto, history
<1>3. TokenBalance' /\ FrontExists'
  BY AccountsStay DEF Holders, Takers
<1> QED BY <1>1, <1>2, <1>3

(* The unit goes with the task.                                             *)
LEMMA TakeInv == ASSUME PoolInv, NEW w \in Workers, Take(w) PROVE PoolInv'
<1> USE DEF PoolInv, Take
<1>1. Head(tasks) \in Tasks /\ tasks' \in Seq(Tasks) /\ Len(tasks') = Len(tasks) - 1
  BY HeadTailProperties DEF TypeOK
<1>2. TypeOK'
  BY <1>1 DEF TypeOK, Goto, Labels, history
<1>3. Places' /\ Phases'
  BY <1>1 DEF TypeOK, Places, Phases, Posts, Runs, Goto, history
<1>4. TokenBalance' /\ FrontExists'
  <2>1. /\ Cardinality(At(Holders)) \in Nat /\ Cardinality(At(Takers)) \in Nat
        /\ Cardinality(At(Holders))' = Cardinality(At(Holders)) - 1
        /\ Cardinality(At(Takers))' = Cardinality(At(Takers)) - 1
    BY Counts DEF Holders, Takers, Weight
  <2>2. pc'[Main] = pc[Main]
    BY DEF TypeOK, Goto
  <2>3. Len(tasks) \in Nat /\ Len(tasks') = Len(tasks) - 1
    BY <1>1, LenProperties DEF TypeOK
  <2>4. UNCHANGED <<taskSem, running, tokens>> /\ taskSem \in Nat /\ tokens \in Nat
    BY DEF TypeOK
  <2>5. TokenBalance /\ FrontExists
    OBVIOUS
  <2> HIDE DEF Take, PoolInv
  <2>6. TokenBalance'
    BY <2>1, <2>2, <2>3, <2>4, <2>5 DEF TokenBalance
  <2>7. FrontExists'
    BY <2>1, <2>3, <2>5 DEF FrontExists
  <2> QED BY <2>6, <2>7
<1> QED BY <1>2, <1>3, <1>4

-----------------------------------------------------------------------------
(* ~ThreadPoolImpl.                                                         *)

LEMMA DestroyInv == ASSUME PoolInv, Destroy PROVE PoolInv'
<1> USE DEF PoolInv, Destroy
<1>1. TypeOK'
  BY DEF TypeOK, Goto, Labels, history
<1>2. Places' /\ Phases'
  BY DEF TypeOK, Places, Phases, Posts, Runs, Goto, history
<1>3. TokenBalance' /\ FrontExists'
  BY AccountsStay DEF Holders, Takers
<1> QED BY <1>1, <1>2, <1>3

LEMMA StopInv == ASSUME PoolInv, Stop PROVE PoolInv'
<1> USE DEF PoolInv, Stop
<1>1. TypeOK'
  BY DEF TypeOK, Goto, Labels, history
<1>2. Places' /\ Phases'
  BY DEF TypeOK, Places, Phases, Posts, Runs, Goto, history
<1>3. TokenBalance' /\ FrontExists'
  <2>1. /\ Cardinality(At(Holders))' = Cardinality(At(Holders))
        /\ Cardinality(At(Takers))' = Cardinality(At(Takers))
    BY Counts DEF Holders, Takers, Weight
  <2> QED BY <2>1 DEF Phases, TokenBalance, FrontExists
<1> QED BY <1>1, <1>2, <1>3

(* A unit for no task, counted by tokens.                                   *)
LEMMA PostTokenInv == ASSUME PoolInv, PostToken PROVE PoolInv'
<1> USE DEF PoolInv, PostToken
<1>1. TypeOK'
  BY DEF TypeOK, history
<1>2. Places' /\ Phases'
  BY DEF Places, Phases, history
<1>3. TokenBalance' /\ FrontExists'
  <2>1. /\ Cardinality(At(Holders)) \in Nat /\ Len(tasks) \in Nat
        /\ Cardinality(At(Holders))' = Cardinality(At(Holders))
        /\ Cardinality(At(Takers))' = Cardinality(At(Takers))
    BY AtCounts, LenProperties DEF TypeOK, At
  <2>2. /\ UNCHANGED <<tasks, pc, running>> /\ pc[Main] = "tokens"
        /\ taskSem' = taskSem + 1 /\ tokens' = tokens + 1
    OBVIOUS
  <2> HIDE DEF PostToken
  <2> QED BY <2>1, <2>2 DEF TypeOK, TokenBalance, FrontExists
<1> QED BY <1>1, <1>2, <1>3

LEMMA JoinInv == ASSUME PoolInv, Join PROVE PoolInv'
<1> USE DEF PoolInv, Join
<1>1. TypeOK'
  BY DEF TypeOK, Goto, Labels, history
<1>2. Places' /\ Phases'
  BY DEF TypeOK, Places, Phases, Posts, Runs, Goto, history
<1>3. TokenBalance' /\ FrontExists'
  BY AccountsStay DEF Holders, Takers
<1> QED BY <1>1, <1>2, <1>3

LEMMA DrainFrontInv == ASSUME PoolInv, DrainFront PROVE PoolInv'
<1> USE DEF PoolInv, DrainFront
<1>1. Head(tasks) \in Tasks
  BY HeadTailProperties DEF TypeOK
<1>2. TypeOK'
  BY <1>1 DEF TypeOK, Goto, Labels, history
<1>3. Places' /\ Phases'
  BY <1>1 DEF TypeOK, Places, Phases, Posts, Runs, Goto, history
<1>4. TokenBalance' /\ FrontExists'
  BY AccountsStay DEF Holders, Takers
<1> QED BY <1>2, <1>3, <1>4

(* No worker is left to miss the task that goes.                            *)
LEMMA DrainPopInv == ASSUME PoolInv, DrainPop PROVE PoolInv'
<1> USE DEF PoolInv, DrainPop
<1>1. tasks' \in Seq(Tasks)
  BY HeadTailProperties DEF TypeOK, Phases
<1>2. TypeOK'
  BY <1>1 DEF TypeOK, Goto, Labels, history
<1>3. Places' /\ Phases'
  BY DEF TypeOK, Places, Phases, Posts, Runs, Goto, history
<1>4. TokenBalance'
  BY DEF TypeOK, Phases, Goto, TokenBalance
<1>5. FrontExists'
  <2>1. At(Takers)' = {}
    BY DEF TypeOK, Places, Phases, Posts, Goto, At, Takers
  <2>2. Cardinality({}) = 0 /\ Len(tasks') \in Nat
    BY <1>1, FS_EmptySet, LenProperties
  <2> QED BY <2>1, <2>2 DEF FrontExists
<1> QED BY <1>2, <1>3, <1>4, <1>5

LEMMA DrainEndInv == ASSUME PoolInv, DrainEnd PROVE PoolInv'
<1> USE DEF PoolInv, DrainEnd
<1>1. TypeOK'
  BY DEF TypeOK, Goto, Labels, history
<1>2. Places' /\ Phases'
  BY DEF TypeOK, Places, Phases, Posts, Runs, Goto, history
<1>3. TokenBalance' /\ FrontExists'
  BY AccountsStay DEF Holders, Takers
<1> QED BY <1>1, <1>2, <1>3

LEMMA StutterInv == ASSUME PoolInv, UNCHANGED vars PROVE PoolInv'
BY DEF PoolInv, vars, TypeOK, Places, Phases, TokenBalance, FrontExists, At

-----------------------------------------------------------------------------
(* The pool's invariant, for any number of threads and tasks: the units of    *)
(* the semaphore account for the queue across the destructor's flag.         *)
THEOREM PoolInductive == Spec => []PoolInv
<1>1. Init => PoolInv
  BY InitPoolInv
<1>2. PoolInv /\ [Next]_vars => PoolInv'
  <2> SUFFICES ASSUME PoolInv, [Next]_vars PROVE PoolInv'
    OBVIOUS
  <2>1. CASE \E p \in Posters : Emplace(p)
    BY <2>1, EmplaceInv
  <2>2. CASE \E a \in Agents : Post(a)
    BY <2>2, PostLockInv, PostPushInv, PostSemInv, AwaitInv DEF Post
  <2>3. CASE \E a \in Agents \ Posters : RunTask(a)
    BY <2>3, ExecuteInv, FinishInv DEF RunTask
  <2>4. CASE \E w \in Workers : WorkThreadMain(w)
    BY <2>4, SemWaitInv, CheckRunningInv, TakeLockInv, TakeInv DEF WorkThreadMain
  <2>5. CASE Destroy \/ Destructor
    BY <2>5, DestroyInv, StopInv, PostTokenInv, JoinInv, DrainFrontInv, DrainPopInv, DrainEndInv
    DEF Destructor
  <2>6. CASE UNCHANGED vars
    BY <2>6, StutterInv
  <2> QED BY <2>1, <2>2, <2>3, <2>4, <2>5, <2>6 DEF Next
<1> QED BY <1>1, <1>2, PTL DEF Spec

(* A worker that calls tasks.front() finds a task, before and after the       *)
(* destructor has cleared running and posted units that stand for none.      *)
THEOREM QueueNotEmptyAtFront ==
  Spec => [](\A w \in Workers : pc[w] = "take" => tasks # <<>>)
<1>1. PoolInv => \A w \in Workers : pc[w] = "take" => tasks # <<>>
  <2> SUFFICES ASSUME PoolInv, NEW w \in Workers, pc[w] = "take"
               PROVE  tasks # <<>>
    OBVIOUS
  <2>1. w \in At(Takers)
    BY DEF At, Takers
  <2>2. IsFiniteSet(At(Takers)) /\ Cardinality(At(Takers)) \in Nat
    BY AtCounts
  <2>3. Cardinality(At(Takers)) # 0
    BY <2>1, <2>2, FS_EmptySet
  <2> QED BY <2>2, <2>3, EmptySeq DEF PoolInv, FrontExists
<1> QED BY <1>1, PoolInductive, PTL

-----------------------------------------------------------------------------
(* Where each posted task is.                                               *)

(* The tasks in the queue that nobody has taken: the destructor pops a task   *)
(* after it has called it.                                                  *)
Left == IF pc[Main] \in Runs \cup {"drain_pop"} THEN Tail(tasks) ELSE tasks

(* A thread brings the task to the queue, or has taken it from there.       *)
Hands(a, k) ==
  \/ pc[a] \in {"post_lock", "post_push"} /\ posting[a] = k
  \/ a \notin Posters /\ pc[a] = "run" /\ job[a] = k

(* A thread is inside the task.                                             *)
Calls(a, k) == a \notin Posters /\ pc[a] \in Posts \cup {"end"} /\ job[a] = k

(* A posted task that has not been called is in one place, once: in the       *)
(* hands of one thread, or in the queue.  A child is posted by its parent.   *)
InOnePlace ==
  /\ \A a \in Agents, k \in Tasks : Hands(a, k) => k \in posted /\ runs[k] = 0
  /\ \A i \in 1 .. Len(Left) : Left[i] \in posted /\ runs[Left[i]] = 0
  /\ \A a, b \in Agents, k \in Tasks : Hands(a, k) /\ Hands(b, k) => a = b
  /\ \A i, j \in 1 .. Len(Left) : Left[i] = Left[j] => i = j
  /\ \A a \in Agents : \A i \in 1 .. Len(Left) : ~Hands(a, Left[i])

NoneLost ==
  /\ \A k \in posted : \/ runs[k] = 1
                       \/ \E i \in 1 .. Len(Left) : Left[i] = k
                       \/ \E a \in Agents : Hands(a, k)
  /\ \A k \in Tasks : runs[k] = 1 => k \in finished \/ \E a \in Agents : Calls(a, k)
  /\ pc[Main] = "destroyed" => tasks = <<>>

CalledOnce ==
  \A k \in Tasks : /\ runs[k] \in {0, 1}
                   /\ runs[k] = 1 => k \in posted
                   /\ Child[k] \in posted => runs[k] = 1

TaskInv == InOnePlace /\ NoneLost /\ CalledOnce

LEMMA InitTaskInv == Init => TaskInv
<1> SUFFICES ASSUME Init PROVE TaskInv
  OBVIOUS
<1>1. Left = <<>> /\ Len(Left) = 0
  BY DEF Init, Left, Runs, Posts
<1>2. \A a \in Agents, k \in Tasks : ~Hands(a, k)
  BY DEF Init, Hands
<1>3. InOnePlace
  BY <1>1, <1>2 DEF InOnePlace
<1>4. NoneLost
  BY DEF Init, NoneLost
<1>5. CalledOnce
  BY DEF Init, CalledOnce
<1> QED BY <1>3, <1>4, <1>5 DEF TaskInv

(* A step that leaves the places alone.                                     *)
LEMMA PlacesStay ==
  ASSUME TypeOK, TaskInv, Left' = Left, UNCHANGED <<posted, runs>>, finished \subseteq finished',
         pc'[Main] = "destroyed" => tasks' = <<>>,
         \A a \in Agents, k \in Tasks : Hands(a, k)' <=> Hands(a, k),
         \A a \in Agents, k \in Tasks : Calls(a, k) => Calls(a, k)' \/ k \in finished'
  PROVE  TaskInv'
<1>1. InOnePlace'
  <2> USE DEF TaskInv, InOnePlace
  <2>1. (\A a \in Agents, k \in Tasks : Hands(a, k) => k \in posted /\ runs[k] = 0)'
    OBVIOUS
  <2>2. (\A i \in 1 .. Len(Left) : Left[i] \in posted /\ runs[Left[i]] = 0)'
    OBVIOUS
  <2>3. (\A a, b \in Agents, k \in Tasks : Hands(a, k) /\ Hands(b, k) => a = b)'
    OBVIOUS
  <2>4. (\A i, j \in 1 .. Len(Left) : Left[i] = Left[j] => i = j)'
    OBVIOUS
  <2>5. (\A a \in Agents : \A i \in 1 .. Len(Left) : ~Hands(a, Left[i]))'
    BY DEF TypeOK
  <2> QED BY <2>1, <2>2, <2>3, <2>4, <2>5
<1>2. NoneLost'
  BY DEF TypeOK, TaskInv, NoneLost
<1>3. CalledOnce'
  BY DEF TaskInv, CalledOnce
<1> QED BY <1>1, <1>2, <1>3 DEF TaskInv

LEMMA LeftType ==
  ASSUME PoolInv
  PROVE  Left \in Seq(Tasks)
BY HeadTailProperties DEF PoolInv, TypeOK, Phases, Left

(* A thread moves and every task stays where it is.                         *)
Draining == Runs \cup {"drain_pop"}

LEMMA QuietStep ==
  ASSUME PoolInv, TaskInv, NEW a \in Agents, NEW l, Goto(a, l),
         UNCHANGED <<tasks, job, posted, runs, finished>>,
         \A b \in Agents : pc'[b] \in {"post_lock", "post_push"} => posting'[b] = posting[b],
         pc[a] \in {"post_lock", "post_push"} <=> l \in {"post_lock", "post_push"},
         pc[a] = "run" <=> l = "run",
         a \notin Posters /\ pc[a] \in Posts \cup {"end"} => l \in Posts \cup {"end"},
         a = Main => (pc[a] \in Draining <=> l \in Draining),
         l = "destroyed" => tasks = <<>>
  PROVE  TaskInv'
<1>1. pc'[a] = l /\ \A b \in Agents : b # a => pc'[b] = pc[b]
  BY DEF PoolInv, TypeOK, Goto
<1>2. Left' = Left
  BY <1>1 DEF Left, Draining
<1>3. \A b \in Agents, k \in Tasks : Hands(b, k)' <=> Hands(b, k)
  BY <1>1 DEF Hands
<1>4. \A b \in Agents, k \in Tasks : Calls(b, k) => Calls(b, k)'
  BY <1>1 DEF Calls
<1>5. pc'[Main] = "destroyed" => tasks' = <<>>
  BY <1>1 DEF TaskInv, NoneLost
<1> QED BY <1>2, <1>3, <1>4, <1>5, PlacesStay DEF PoolInv

LEMMA QuietSteps ==
  ASSUME PoolInv, TaskInv, NEW a \in Agents
  PROVE  /\ PostLock(a) \/ PostSem(a) \/ Await(a) => TaskInv'
         /\ a \in Workers /\ (SemWait(a) \/ CheckRunning(a) \/ TakeLock(a)) => TaskInv'
         /\ Destroy \/ Stop \/ PostToken \/ Join \/ DrainEnd => TaskInv'
<1> USE DEF Draining, Runs, Posts, history
<1>1. ASSUME PostLock(a) PROVE TaskInv'
  BY <1>1, QuietStep DEF PostLock
<1>2. ASSUME PostSem(a) PROVE TaskInv'
  <2>1. PICK l \in {"end", "await", "idle"} : Goto(a, l) /\ (a \notin Posters => l # "idle")
    BY <1>2 DEF PostSem, PostUnits
  <2>2. \A b \in Agents : pc'[b] \in {"post_lock", "post_push"} => posting'[b] = posting[b]
    BY <1>2, <2>1 DEF PostSem, PostUnits, Goto, PoolInv, TypeOK
  <2> QED BY <1>2, <2>1, <2>2, QuietStep DEF PostSem, PostUnits
<1>3. ASSUME Await(a) PROVE TaskInv'
  <2>1. PICK l \in {"end", "idle"} : Goto(a, l) /\ (a \notin Posters => l # "idle")
    BY <1>3 DEF Await
  <2>2. \A b \in Agents : pc'[b] \in {"post_lock", "post_push"} => posting'[b] = posting[b]
    BY <1>3, <2>1 DEF Await, Goto, PoolInv, TypeOK
  <2> QED BY <1>3, <2>1, <2>2, QuietStep DEF Await
<1>4. ASSUME a \in Workers, SemWait(a) PROVE TaskInv'
  BY <1>4, QuietStep DEF SemWait
<1>5. ASSUME a \in Workers, CheckRunning(a) PROVE TaskInv'
  <2>1. PICK l \in {"lock", "exit"} : Goto(a, l)
    BY <1>5 DEF CheckRunning
  <2> QED BY <1>5, <2>1, QuietStep DEF CheckRunning
<1>6. ASSUME a \in Workers, TakeLock(a) PROVE TaskInv'
  BY <1>6, QuietStep DEF TakeLock
<1>7. ASSUME Destroy PROVE TaskInv'
  BY <1>7, QuietStep DEF Destroy
<1>8. ASSUME Stop PROVE TaskInv'
  BY <1>8, QuietStep DEF Stop
<1>9. ASSUME PostToken PROVE TaskInv'
  BY <1>9, PlacesStay DEF PostToken, Left, Hands, Calls, PoolInv, TaskInv, NoneLost
<1>10. ASSUME Join PROVE TaskInv'
  BY <1>10, QuietStep DEF Join
<1>11. ASSUME DrainEnd PROVE TaskInv'
  BY <1>11, QuietStep DEF DrainEnd
<1> QED BY <1>1, <1>2, <1>3, <1>4, <1>5, <1>6, <1>7, <1>8, <1>9, <1>10, <1>11

(* Finish of a task, and the destructor's pop of a task it has called.       *)
LEMMA FinishTask == ASSUME PoolInv, TaskInv, NEW a \in Agents \ Posters, Finish(a) PROVE TaskInv'
<1> USE DEF Finish, Posts, Runs
<1>1. /\ pc[a] = "end" /\ pc'[a] = IF a = Main THEN "drain_pop" ELSE "wait"
      /\ \A b \in Agents : b # a => pc'[b] = pc[b] /\ job'[b] = job[b] /\ posting'[b] = posting[b]
  BY DEF PoolInv, TypeOK, Goto
<1>2. Left' = Left
  BY <1>1 DEF Left
<1>3. \A b \in Agents, k \in Tasks : Hands(b, k)' <=> Hands(b, k)
  BY <1>1 DEF Hands
<1>4. \A b \in Agents, k \in Tasks : Calls(b, k) => Calls(b, k)' \/ k \in finished'
  BY <1>1 DEF Calls
<1>5. pc'[Main] = "destroyed" => tasks' = <<>>
  BY <1>1 DEF TaskInv, NoneLost
<1> QED BY <1>2, <1>3, <1>4, <1>5, PlacesStay DEF PoolInv

LEMMA DrainPopTask == ASSUME PoolInv, TaskInv, DrainPop PROVE TaskInv'
<1> USE DEF DrainPop, Posts, Runs, history
<1>1. /\ pc[Main] = "drain_pop" /\ pc'[Main] = "drain"
      /\ \A b \in Agents : b # Main => pc'[b] = pc[b]
  BY DEF PoolInv, TypeOK, Goto, Agents
<1>2. Left' = Left
  <2>1. Left = Tail(tasks)
    BY <1>1 DEF Left
  <2>2. Left' = tasks'
    BY <1>1 DEF Left
  <2> QED BY <2>1, <2>2
<1>3. \A b \in Agents, k \in Tasks : Hands(b, k)' <=> Hands(b, k)
  BY <1>1 DEF Hands
<1>4. \A b \in Agents, k \in Tasks : Calls(b, k) => Calls(b, k)'
  BY <1>1 DEF Calls
<1> QED BY <1>1, <1>2, <1>3, <1>4, PlacesStay DEF PoolInv

(* A task that nobody has posted comes into the hands of a thread.          *)
LEMMA EmplaceTask == ASSUME PoolInv, TaskInv, NEW p \in Posters, Emplace(p) PROVE TaskInv'
<1> USE DEF Emplace, Posts, Runs
<1>1. PICK k \in Roots \ posted : posting' = [posting EXCEPT ![p] = k] /\ posted' = posted \cup {k}
  OBVIOUS
<1>2. k \in Tasks /\ \A j \in Tasks : Child[j] # k
  BY DEF Roots
<1>3. /\ pc[p] = "idle" /\ pc'[p] = "post_lock" /\ posting'[p] = k /\ p # Main
      /\ \A b \in Agents : b # p => pc'[b] = pc[b] /\ posting'[b] = posting[b]
  BY <1>1 DEF PoolInv, TypeOK, Goto
<1>4. Left' = Left /\ posted \subseteq Tasks
  BY <1>3 DEF Left, PoolInv, TypeOK
<1>5. runs[k] = 0 /\ \A b \in Agents : ~Hands(b, k)
  BY <1>1, <1>2 DEF TaskInv, CalledOnce, InOnePlace
<1>6. \A b \in Agents, j \in Tasks : Hands(b, j)' <=> Hands(b, j) \/ (b = p /\ j = k)
  BY <1>2, <1>3 DEF Hands
<1>7. \A b \in Agents, j \in Tasks : Calls(b, j)' <=> Calls(b, j)
  BY <1>3 DEF Calls
<1>8. InOnePlace'
  <2> USE DEF TaskInv, InOnePlace
  <2>1. (\A b \in Agents, j \in Tasks : Hands(b, j) => j \in posted /\ runs[j] = 0)'
    BY <1>1, <1>5, <1>6
  <2>2. (\A i \in 1 .. Len(Left) : Left[i] \in posted /\ runs[Left[i]] = 0)'
    BY <1>1, <1>4
  <2>3. (\A b, c \in Agents, j \in Tasks : Hands(b, j) /\ Hands(c, j) => b = c)'
    BY <1>5, <1>6
  <2>4. (\A i, j \in 1 .. Len(Left) : Left[i] = Left[j] => i = j)'
    BY <1>4
  <2>5. (\A b \in Agents : \A i \in 1 .. Len(Left) : ~Hands(b, Left[i]))'
    BY <1>1, <1>4, <1>6
  <2> QED BY <2>1, <2>2, <2>3, <2>4, <2>5
<1>9. NoneLost'
  <2>1. (\A j \in posted : \/ runs[j] = 1
                           \/ \E i \in 1 .. Len(Left) : Left[i] = j
                           \/ \E b \in Agents : Hands(b, j))'
    BY <1>1, <1>2, <1>4, <1>6 DEF TaskInv, NoneLost
  <2>2. (\A j \in Tasks : runs[j] = 1 => j \in finished \/ \E b \in Agents : Calls(b, j))'
    BY <1>7 DEF TaskInv, NoneLost
  <2>3. (pc[Main] = "destroyed" => tasks = <<>>)'
    BY <1>3 DEF TaskInv, NoneLost
  <2> QED BY <2>1, <2>2, <2>3 DEF NoneLost
<1>10. CalledOnce'
  BY <1>1, <1>2 DEF TaskInv, CalledOnce
<1> QED BY <1>8, <1>9, <1>10 DEF TaskInv

(* It goes into the queue.                                                  *)
LEMMA PostPushTask == ASSUME PoolInv, TaskInv, NEW a \in Agents, PostPush(a) PROVE TaskInv'
<1> USE DEF PostPush, Posts, Runs, history
<1> DEFINE k == posting[a]
<1>1. k \in Tasks /\ Hands(a, k) /\ posted \subseteq Tasks
  BY DEF PoolInv, TypeOK, Places, Hands
<1>2. /\ pc'[a] = "post_sem" /\ \A b \in Agents : b # a => pc'[b] = pc[b]
      /\ pc[a] = "post_push" /\ UNCHANGED <<job, posting, posted, runs, finished>>
  BY DEF PoolInv, TypeOK, Goto
<1>3. Left \in Seq(Tasks) /\ Left' = Append(Left, k)
  <2>1. tasks \in Seq(Tasks) /\ tasks' = Append(tasks, k)
    BY DEF PoolInv, TypeOK
  <2>2. CASE pc[Main] \in Runs \cup {"drain_pop"}
    <3>1. tasks # <<>>
      BY <2>2 DEF PoolInv, Phases
    <3>2. Left = Tail(tasks) /\ Left' = Tail(Append(tasks, k))
      BY <1>2, <2>1, <2>2 DEF Left
    <3> QED BY <1>1, <2>1, <3>1, <3>2
  <2>3. CASE pc[Main] \notin Runs \cup {"drain_pop"}
    BY <1>2, <2>1, <2>3 DEF Left
  <2> QED BY <2>2, <2>3
<1>4. /\ Len(Left) \in Nat /\ Len(Left') = Len(Left) + 1 /\ Left'[Len(Left) + 1] = k
      /\ \A i \in 1 .. Len(Left) : Left'[i] = Left[i] /\ Left[i] \in Tasks
  BY <1>1, <1>3, AppendProperties
<1>5. \A b \in Agents, j \in Tasks : Hands(b, j)' <=> Hands(b, j) /\ b # a
  BY <1>2 DEF Hands
<1>6. \A b \in Agents, j \in Tasks : Calls(b, j) => Calls(b, j)'
  BY <1>2 DEF Calls
<1>7. k \in posted /\ runs[k] = 0 /\ \A b \in Agents : Hands(b, k) => b = a
  BY <1>1 DEF TaskInv, InOnePlace
<1>8. \A i \in 1 .. Len(Left) : Left[i] # k
  BY <1>1 DEF TaskInv, InOnePlace
<1> HIDE DEF k, PostPush
<1>9. InOnePlace'
  <2> USE DEF TaskInv, InOnePlace
  <2>1. (\A b \in Agents, j \in Tasks : Hands(b, j) => j \in posted /\ runs[j] = 0)'
    BY <1>2, <1>5
  <2>2. (\A i \in 1 .. Len(Left) : Left[i] \in posted /\ runs[Left[i]] = 0)'
    BY <1>2, <1>4, <1>7
  <2>3. (\A b, c \in Agents, j \in Tasks : Hands(b, j) /\ Hands(c, j) => b = c)'
    BY <1>5
  <2>4. (\A i, j \in 1 .. Len(Left) : Left[i] = Left[j] => i = j)'
    BY <1>4, <1>8
  <2>5. (\A b \in Agents : \A i \in 1 .. Len(Left) : ~Hands(b, Left[i]))'
    BY <1>1, <1>4, <1>5, <1>7
  <2> QED BY <2>1, <2>2, <2>3, <2>4, <2>5
<1>10. NoneLost'
  <2>1. (\A j \in posted : \/ runs[j] = 1
                           \/ \E i \in 1 .. Len(Left) : Left[i] = j
                           \/ \E b \in Agents : Hands(b, j))'
    <3> SUFFICES ASSUME NEW j \in posted, runs[j] # 1
                 PROVE  (\E i \in 1 .. Len(Left) : Left[i] = j)' \/ \E b \in Agents : Hands(b, j)'
      BY <1>2
    <3>1. CASE j = k
      BY <1>4, <3>1
    <3>2. CASE \E i \in 1 .. Len(Left) : Left[i] = j
      BY <1>4, <3>2
    <3>3. CASE j # k /\ \E b \in Agents : Hands(b, j)
      <4>1. PICK b \in Agents : Hands(b, j)
        BY <3>3
      <4>2. b # a
        BY <1>1, <1>2, <3>3, <4>1 DEF Hands, k
      <4> QED BY <1>1, <1>5, <4>1, <4>2
    <3> QED BY <3>1, <3>2, <3>3 DEF TaskInv, NoneLost
  <2>2. (\A j \in Tasks : runs[j] = 1 => j \in finished \/ \E b \in Agents : Calls(b, j))'
    BY <1>2, <1>6 DEF TaskInv, NoneLost
  <2>3. (pc[Main] = "destroyed" => tasks = <<>>)'
    BY <1>2 DEF PoolInv, Phases, Places, Posts, Runs
  <2> QED BY <2>1, <2>2, <2>3 DEF NoneLost
<1>11. CalledOnce'
  BY <1>2 DEF TaskInv, CalledOnce
<1> QED BY <1>9, <1>10, <1>11 DEF TaskInv

(* The front task leaves the queue for the hands of a thread.               *)
LEMMA FrontTask ==
  ASSUME PoolInv, TaskInv, NEW a \in Agents, Left # <<>>, Left' = Tail(Left),
         UNCHANGED history, pc'[Main] # "destroyed",
         \A b \in Agents, j \in Tasks : Hands(b, j)' <=> Hands(b, j) \/ (b = a /\ j = Head(Left)),
         \A b \in Agents, j \in Tasks : Calls(b, j) => Calls(b, j)'
  PROVE  TaskInv'
<1> DEFINE k == Head(Left)
           n == Len(Left)
<1>1. /\ n \in Nat /\ n >= 1 /\ k \in Tasks /\ k = Left[1] /\ Len(Left') = n - 1
      /\ \A i \in 1 .. n : Left[i] \in Tasks
      /\ \A i \in 1 .. n - 1 : Left'[i] = Left[i + 1] /\ i + 1 \in 1 .. n
  BY LeftType, LenProperties, HeadTailProperties, EmptySeq, ElementOfSeq
<1>2. UNCHANGED <<posted, runs, finished>> /\ posted \subseteq Tasks
  BY DEF history, PoolInv, TypeOK
<1>3. \A i \in 1 .. n : /\ Left[i] \in posted /\ runs[Left[i]] = 0
                        /\ \A b \in Agents : ~Hands(b, Left[i])
                        /\ \A j \in 1 .. n : Left[i] = Left[j] => i = j
  BY DEF TaskInv, InOnePlace
<1>4. \A b \in Agents, j \in Tasks : Hands(b, j)' <=> Hands(b, j) \/ (b = a /\ j = k)
  OBVIOUS
<1> HIDE DEF k, n
<1>5. k \in posted /\ runs[k] = 0 /\ \A b \in Agents : ~Hands(b, k)
  BY <1>1, <1>3
<1>6. InOnePlace'
  <2>1. (\A b \in Agents, j \in Tasks : Hands(b, j) => j \in posted /\ runs[j] = 0)'
    BY <1>2, <1>4, <1>5 DEF TaskInv, InOnePlace
  <2>2. (\A i \in 1 .. Len(Left) : Left[i] \in posted /\ runs[Left[i]] = 0)'
    BY <1>1, <1>2, <1>3
  <2>3. (\A b, c \in Agents, j \in Tasks : Hands(b, j) /\ Hands(c, j) => b = c)'
    BY <1>4, <1>5 DEF TaskInv, InOnePlace
  <2>4. (\A i, j \in 1 .. Len(Left) : Left[i] = Left[j] => i = j)'
    BY <1>1, <1>3
  <2>5. (\A b \in Agents : \A i \in 1 .. Len(Left) : ~Hands(b, Left[i]))'
    <3> SUFFICES ASSUME NEW b \in Agents, NEW i \in 1 .. Len(Left')
                 PROVE  ~Hands(b, Left[i])'
      OBVIOUS
    <3>1. Left'[i] = Left[i + 1] /\ i + 1 \in 1 .. n /\ i + 1 # 1 /\ 1 \in 1 .. n
      BY <1>1
    <3>2. Left[i + 1] \in Tasks /\ Left[i + 1] # k /\ ~Hands(b, Left[i + 1])
      BY <3>1, <1>1, <1>3
    <3> QED BY <3>1, <3>2, <1>4
  <2> QED BY <2>1, <2>2, <2>3, <2>4, <2>5 DEF InOnePlace
<1>7. NoneLost'
  <2>1. (\A j \in posted : \/ runs[j] = 1
                           \/ \E i \in 1 .. Len(Left) : Left[i] = j
                           \/ \E b \in Agents : Hands(b, j))'
    <3> SUFFICES ASSUME NEW j \in posted, runs[j] # 1
                 PROVE  (\E i \in 1 .. Len(Left) : Left[i] = j)' \/ (\E b \in Agents : Hands(b, j)')
      BY <1>2
    <3>1. CASE \E b \in Agents : Hands(b, j)
      BY <1>2, <1>4, <3>1
    <3>2. CASE j = k
      BY <1>1, <1>4, <3>2
    <3>3. CASE j # k /\ \E i \in 1 .. n : Left[i] = j
      <4>1. PICK i \in 1 .. n : Left[i] = j
        BY <3>3
      <4>2. i - 1 \in 1 .. n - 1 /\ (i - 1) + 1 = i
        BY <1>1, <3>3, <4>1
      <4> QED BY <1>1, <4>1, <4>2
    <3> QED BY <3>1, <3>2, <3>3 DEF TaskInv, NoneLost, n
  <2>2. (\A j \in Tasks : runs[j] = 1 => j \in finished \/ \E b \in Agents : Calls(b, j))'
    BY <1>2 DEF TaskInv, NoneLost
  <2> QED BY <2>1, <2>2 DEF NoneLost
<1>8. CalledOnce'
  BY <1>2 DEF TaskInv, CalledOnce
<1> QED BY <1>6, <1>7, <1>8 DEF TaskInv

LEMMA TakeTask == ASSUME PoolInv, TaskInv, NEW w \in Workers, Take(w) PROVE TaskInv'
<1> USE DEF Take, Posts, Runs
<1>1. /\ pc[w] = "take" /\ pc'[w] = "run" /\ job'[w] = Head(tasks) /\ w \in Agents \ Posters
      /\ \A b \in Agents : b # w => pc'[b] = pc[b] /\ job'[b] = job[b]
  BY AgentsAssumption DEF PoolInv, TypeOK, Goto, Agents
<1>2. /\ Main \in Agents /\ w # Main /\ pc'[Main] = pc[Main]
      /\ pc[Main] \notin Runs \cup {"drain", "drain_pop", "destroyed"}
  BY <1>1, AgentsAssumption DEF PoolInv, Phases, Agents
<1>3. Left = tasks /\ Left' = Tail(tasks)
  BY <1>2 DEF Left
<1>4. \A b \in Agents, j \in Tasks : Hands(b, j)' <=> Hands(b, j) \/ (b = w /\ j = Head(tasks))
  BY <1>1 DEF Hands
<1>5. \A b \in Agents, j \in Tasks : Calls(b, j) => Calls(b, j)'
  BY <1>1 DEF Calls
<1>6. w \in Agents /\ Left # <<>> /\ Left' = Tail(Left) /\ UNCHANGED history /\ pc'[Main] # "destroyed"
  BY <1>1, <1>2, <1>3
<1> QED BY <1>3, <1>4, <1>5, <1>6, FrontTask

LEMMA DrainFrontTask == ASSUME PoolInv, TaskInv, DrainFront PROVE TaskInv'
<1> USE DEF DrainFront, Posts, Runs
<1>1. /\ pc[Main] = "drain" /\ pc'[Main] = "run" /\ job'[Main] = Head(tasks)
      /\ Main \in Agents \ Posters
      /\ \A b \in Agents : b # Main => pc'[b] = pc[b] /\ job'[b] = job[b]
  BY AgentsAssumption DEF PoolInv, TypeOK, Goto, Agents
<1>2. Left = tasks
  BY <1>1 DEF Left
<1>3. Left' = Tail(tasks)
  BY <1>1 DEF Left
<1>4. \A b \in Agents, j \in Tasks : Hands(b, j)' <=> Hands(b, j) \/ (b = Main /\ j = Head(tasks))
  BY <1>1 DEF Hands
<1>5. \A b \in Agents, j \in Tasks : Calls(b, j) => Calls(b, j)'
  BY <1>1 DEF Calls
<1>6. Main \in Agents /\ Left # <<>> /\ Left' = Tail(Left) /\ UNCHANGED history /\ pc'[Main] # "destroyed"
  BY <1>1, <1>2, <1>3
<1> QED BY <1>2, <1>4, <1>5, <1>6, FrontTask

(* A task is called, and its child, which nobody has posted before, comes     *)
(* into the hands of the thread that calls it.                              *)
LEMMA ExecuteTask == ASSUME PoolInv, TaskInv, NEW a \in Agents \ Posters, Execute(a) PROVE TaskInv'
<1> USE DEF Execute, Posts, Runs
<1> DEFINE k == job[a]
           new == {Child[k]} \cap Tasks
<1>1. k \in Tasks /\ Hands(a, k) /\ posted \subseteq Tasks /\ posted' = posted \cup new
  BY TasksAssumption DEF PoolInv, TypeOK, Places, Hands
<1>2. /\ pc[a] = "run" /\ pc'[a] \in {"end", "post_lock"}
      /\ \A b \in Agents : b # a => pc'[b] = pc[b] /\ posting'[b] = posting[b]
      /\ new = {} => pc'[a] = "end"
      /\ new # {} => pc'[a] = "post_lock" /\ posting'[a] = Child[k]
      /\ UNCHANGED <<tasks, job, finished>>
  BY TasksAssumption, <1>1 DEF PoolInv, TypeOK, Goto
<1>3. /\ runs' \in [Tasks -> Nat] /\ runs[k] = 0 /\ runs'[k] = 1 /\ k \in posted
      /\ \A j \in Tasks : j # k => runs'[j] = runs[j]
      /\ \A b \in Agents : Hands(b, k) => b = a
  BY <1>1 DEF PoolInv, TypeOK, TaskInv, InOnePlace
<1>4. \A j \in new : /\ j \in Tasks /\ j # k /\ j \notin posted /\ runs[j] = 0
                     /\ \A b \in Agents : ~Hands(b, j)
  BY <1>1, <1>3 DEF TaskInv, InOnePlace, CalledOnce
<1>5. \A j \in Tasks : Child[j] \in new => j = k
  BY <1>1, TasksAssumption
<1>6. Left' = Left /\ \A i \in 1 .. Len(Left) : Left[i] \in Tasks /\ Left[i] # k
  <2>1. Left' = Left
    BY <1>2 DEF Left
  <2>2. \A i \in 1 .. Len(Left) : Left[i] \in posted /\ ~Hands(a, Left[i])
    BY DEF TaskInv, InOnePlace
  <2> QED BY <1>1, <2>1, <2>2
<1>7. \A b \in Agents, j \in Tasks : Hands(b, j)' <=> (Hands(b, j) /\ b # a) \/ (b = a /\ j \in new)
  <2> SUFFICES ASSUME NEW b \in Agents, NEW j \in Tasks
               PROVE  Hands(b, j)' <=> (Hands(b, j) /\ b # a) \/ (b = a /\ j \in new)
    OBVIOUS
  <2>1. CASE b # a
    BY <1>2, <2>1 DEF Hands
  <2>2. CASE b = a /\ new = {}
    BY <1>2, <2>2 DEF Hands
  <2>3. CASE b = a /\ new # {}
    BY <1>2, <2>3 DEF Hands
  <2> QED BY <2>1, <2>2, <2>3
<1>8. \A b \in Agents, j \in Tasks : Calls(b, j)' <=> Calls(b, j) \/ (b = a /\ j = k)
  BY <1>2 DEF Calls
<1>9. \A j \in Tasks : Hands(a, j) => j = k
  BY <1>2 DEF Hands
<1> HIDE DEF k, new, Execute
<1>10. InOnePlace'
  <2> USE DEF TaskInv, InOnePlace
  <2>1. (\A b \in Agents, j \in Tasks : Hands(b, j) => j \in posted /\ runs[j] = 0)'
    BY <1>1, <1>3, <1>4, <1>7
  <2>2. (\A i \in 1 .. Len(Left) : Left[i] \in posted /\ runs[Left[i]] = 0)'
    BY <1>1, <1>3, <1>6
  <2>3. (\A b, c \in Agents, j \in Tasks : Hands(b, j) /\ Hands(c, j) => b = c)'
    BY <1>4, <1>7
  <2>4. (\A i, j \in 1 .. Len(Left) : Left[i] = Left[j] => i = j)'
    BY <1>6
  <2>5. (\A b \in Agents : \A i \in 1 .. Len(Left) : ~Hands(b, Left[i]))'
    BY <1>4, <1>6, <1>7
  <2> QED BY <2>1, <2>2, <2>3, <2>4, <2>5
<1>11. NoneLost'
  <2>1. (\A j \in posted : \/ runs[j] = 1
                           \/ \E i \in 1 .. Len(Left) : Left[i] = j
                           \/ \E b \in Agents : Hands(b, j))'
    <3> SUFFICES ASSUME NEW j \in posted', runs'[j] # 1
                 PROVE  (\E i \in 1 .. Len(Left) : Left[i] = j)' \/ (\E b \in Agents : Hands(b, j)')
      OBVIOUS
    <3>1. CASE j \in new
      BY <1>4, <1>7, <3>1
    <3>2. CASE j \in posted /\ \E i \in 1 .. Len(Left) : Left[i] = j
      BY <1>6, <3>2
    <3>3. CASE j \in posted /\ \E b \in Agents : Hands(b, j)
      BY <1>1, <1>3, <1>7, <1>9, <3>3
    <3>4. CASE j \in posted /\ runs[j] = 1
      BY <1>1, <1>3, <3>4
    <3> QED BY <1>1, <3>1, <3>2, <3>3, <3>4 DEF TaskInv, NoneLost
  <2>2. (\A j \in Tasks : runs[j] = 1 => j \in finished \/ \E b \in Agents : Calls(b, j))'
    BY <1>2, <1>3, <1>8 DEF TaskInv, NoneLost
  <2>3. (pc[Main] = "destroyed" => tasks = <<>>)'
    BY <1>2 DEF TaskInv, NoneLost, Agents
  <2> QED BY <2>1, <2>2, <2>3 DEF NoneLost
<1>12. CalledOnce'
  BY <1>1, <1>3, <1>4, <1>5 DEF TaskInv, CalledOnce
<1> QED BY <1>10, <1>11, <1>12 DEF TaskInv

LEMMA StutterTask == ASSUME PoolInv, TaskInv, UNCHANGED vars PROVE TaskInv'
BY PlacesStay DEF vars, PoolInv, TaskInv, NoneLost, Left, Hands, Calls

-----------------------------------------------------------------------------
(* Each posted task is in one place until it is called, and is not posted     *)
(* again.                                                                   *)
THEOREM TasksInOnePlace == Spec => []TaskInv
<1>1. Init => TaskInv
  BY InitTaskInv
<1>2. PoolInv /\ TaskInv /\ [Next]_vars => TaskInv'
  <2> SUFFICES ASSUME PoolInv, TaskInv, [Next]_vars PROVE TaskInv'
    OBVIOUS
  <2>1. CASE \E p \in Posters : Emplace(p)
    BY <2>1, EmplaceTask
  <2>2. CASE \E a \in Agents : Post(a)
    BY <2>2, QuietSteps, PostPushTask DEF Post
  <2>3. CASE \E a \in Agents \ Posters : RunTask(a)
    BY <2>3, ExecuteTask, FinishTask DEF RunTask
  <2>4. CASE \E w \in Workers : WorkThreadMain(w)
    BY <2>4, QuietSteps, TakeTask DEF WorkThreadMain, Agents
  <2>5. CASE Destroy \/ Destructor
    BY <2>5, QuietSteps, DrainFrontTask, DrainPopTask DEF Destructor, Agents
  <2>6. CASE UNCHANGED vars
    BY <2>6, StutterTask
  <2> QED BY <2>1, <2>2, <2>3, <2>4, <2>5, <2>6 DEF Next
<1> QED BY <1>1, <1>2, PoolInductive, PTL DEF Spec

(* No task is called twice, and the destructor returns only when every task   *)
(* that was posted has been called and its future is ready.                  *)
THEOREM TasksCalledOnce == Spec => []EachTaskOnce
<1>1. PoolInv /\ TaskInv => EachTaskOnce
  <2> SUFFICES ASSUME PoolInv, TaskInv PROVE EachTaskOnce
    OBVIOUS
  <2>1. \A k \in Tasks : runs[k] <= 1
    BY DEF TaskInv, CalledOnce
  <2>2. ASSUME pc[Main] = "destroyed" PROVE \A k \in posted : runs[k] = 1 /\ k \in finished
    <3>1. \A a \in Agents : pc[a] \in {"exit", "idle", "destroyed"}
      BY <2>2 DEF PoolInv, Phases, Agents
    <3>2. \A a \in Agents, k \in Tasks : ~Hands(a, k) /\ ~Calls(a, k)
      BY <3>1 DEF Hands, Calls, Posts
    <3>3. Left = <<>> /\ Len(Left) = 0 /\ posted \subseteq Tasks
      BY <2>2 DEF Left, Posts, Runs, TaskInv, NoneLost, PoolInv, TypeOK
    <3>4. \A k \in posted : runs[k] = 1
      BY <3>2, <3>3 DEF TaskInv, NoneLost
    <3> QED BY <3>2, <3>3, <3>4 DEF TaskInv, NoneLost
  <2> QED BY <2>1, <2>2 DEF EachTaskOnce
<1> QED BY <1>1, PoolInductive, TasksInOnePlace, PTL
=============================================================================
