------------------------- MODULE LockFreeStackProofs -------------------------
(***************************************************************************)
(* Proofs about LockFreeStack, for any number of nodes, threads and pushes,   *)
(* in the uses that the code supports: one producer, any number of consumers, *)
(* with or without the background thread, and a thread that destroys the      *)
(* stack.  Typed has what needs no list; Inv says for each address where its  *)
(* node is, so that no two places can hold the same one.  It speaks of three  *)
(* functions: K is the place, O the agent that has it there, R the distance   *)
(* to the end of its list.  They are not variables of the program: IInv says  *)
(* that there are some, and each step that moves a node names the next ones.  *)
(* From it follow the memory safety of the stack, the shape of its list, and  *)
(* that each step is one of AtomicContainer or none.                          *)
(***************************************************************************)
EXTENDS LockFreeStack, FiniteSetTheorems, WellFoundedInduction, TLAPS

-----------------------------------------------------------------------------
(* What a use of the stack must keep to.  Two producers break it (see the run *)
(* stack_two_producers); the thread that destroys the stack does not use it;  *)
(* and a thread that pops has a slot of hazard pointers, which is its own.    *)
(* (HazardRegistry: a search for a slot fails only if all of them are taken.) *)

OneProducer == \A u \in Uses : \A p, q \in u.producers : p = q
MainApart == \A u \in Uses : Main \notin u.producers \cup u.consumers
OwnSlots == \A u \in Uses : \A t \in u.consumers \cup {Main} :
  SlotOf[t] # 0 /\ \A s \in Threads \ {t} : SlotOf[s] # SlotOf[t]
FiniteSystem == IsFiniteSet(Nodes) /\ IsFiniteSet(Threads)
Hypotheses == OneProducer /\ MainApart /\ OwnSlots /\ FiniteSystem

-----------------------------------------------------------------------------
(* Where the program is.                                                      *)

Freeing == {"dtor_free", "destroyed"}
HasOri == PopLabels \ {"pop_load"}
Limbo == {"pop_swap", "pop_size", "pop_reset", "pop_release"}

(* The deletion of an agent: the node in hand goes with the part of _Delete   *)
(* it is in; a rest outside _BackLoopDelete is the destructor's; a thread     *)
(* deletes at the end of a Pop.                                               *)
Frames ==
  /\ \A a \in Agents :
       /\ del[a].node # NULL <=> del[a].pc \in {"scan", "load", "link", "cas"}
       /\ del[a].pc = "next" => del[a].rest # NULL
       /\ del[a].pc = "exchange" => del[a].rest = NULL
       /\ ~del[a].loop /\ del[a].rest # NULL => a = Main /\ pc[Main] = "dtor_free"
  /\ \A t \in Threads : pc[t] # "pop_return" => del[t].pc = "none"
  /\ \A a \in Agents : del[a].pc = "none" => ~del[a].loop

(* The locals of Push and Pop where they have a value.                        *)
Locals ==
  \A t \in Threads :
    /\ pc[t] \in HasOri => ori[t] # NULL
    /\ pc[t] \in {"pop_next", "pop_cas"} => new[t] = ori[t]
    /\ pc[t] \in {"push_cas", "push_reload"} => new[t] # NULL
    /\ pc[t] \in {"push_load", "push_new"} => val[t] # NoValue

(* Who calls what, and that nobody does once the destructor has begun.        *)
Roles ==
  \A t \in Threads :
    /\ pc[t] \in PushLabels => t \in use.producers
    /\ pc[t] \in PopLabels => t \in use.consumers \cup {Main}
    /\ pc[t] \in DtorLabels => t = Main
    /\ pc[Main] # "idle" /\ t # Main => pc[t] = "idle"

(* The order of the destructor: the background thread has ended before the    *)
(* delayed list is taken, and nothing fills the list again.                   *)
Phases ==
  /\ ~isBackSanitizer_ /\ pc[Main] # "dtor_join" => del[Back].pc = "none"
  /\ pc[Main] \in {"dtor_join", "dtor_exchange"} \cup Freeing => ~isBackSanitizer_
  /\ pc[Main] \in Freeing => backward_deleting_list_ = NULL
  /\ pc[Main] = "destroyed" => del[Main].rest = NULL

Typed == TypeOK /\ Frames /\ Locals /\ Roles /\ Phases

-----------------------------------------------------------------------------
(* Where a node is: free to allocate; new, allocated by a Push that has not   *)
(* yet linked it; in the list; in limbo, unlinked by a Pop that has not       *)
(* released it; in the hand of an agent that deletes it; delayed; or in the   *)
(* rest of a list that an agent has taken.                                    *)

Kinds == {"free", "new", "list", "limbo", "hand", "delayed", "rest"}
At(K, k) == {n \in Nodes : K[n] = k}
RestOf(K, O, a) == {n \in Nodes : K[n] = "rest" /\ O[n] = a}

(* The nodes of S, and no others, are reached from h: R counts down to 1.     *)
IsList(S, R, nx, h) ==
  /\ S \subseteq Nodes
  /\ IF h = NULL THEN S = {} ELSE h \in S /\ R[h] = Cardinality(S)
  /\ \A n \in S : /\ R[n] \in 1 .. Cardinality(S)
                  /\ IF R[n] = 1 THEN nx[n] = NULL ELSE nx[n] \in S /\ R[nx[n]] = R[n] - 1
  /\ \A m, n \in S : R[m] = R[n] => m = n

(* The places are those of all nodes, and those in use are allocated.         *)
Book(K, O, R) ==
  /\ K \in [Nodes -> Kinds] /\ O \in [Nodes -> Agents] /\ R \in [Nodes -> Nat]
  /\ allocated = {n \in Nodes : K[n] # "free"}

(* The three kinds of list: head_, backward_deleting_list_ and the rests.     *)
StackList(K, R) == IsList(At(K, "list"), R, next_, head_)
DelayedList(K, R) == IsList(At(K, "delayed"), R, next_, backward_deleting_list_)
RestLists(K, O, R) == \A a \in Agents : IsList(RestOf(K, O, a), R, next_, del[a].rest)

(* The node that a Push has allocated and not yet linked.                     *)
Fresh(K, O) == \A n \in Nodes :
  /\ \A t \in Threads : K[n] = "new" /\ O[n] = t <=> pc[t] \in {"push_cas", "push_reload"} /\ new[t] = n
  /\ K[n] = "new" => O[n] \in Threads

(* The node that a Pop has unlinked and not yet released.                     *)
Popped(K, O) == \A n \in Nodes :
  /\ \A t \in Threads : K[n] = "limbo" /\ O[n] = t <=> pc[t] \in Limbo /\ ori[t] = n
  /\ K[n] = "limbo" => O[n] \in Threads

(* The node that an agent deletes, linked to what it found before the exchange. *)
InHands(K, O) == \A a \in Agents :
  /\ \A n \in Nodes : K[n] = "hand" /\ O[n] = a <=> del[a].node = n
  /\ del[a].pc = "cas" => next_[del[a].node] = del[a].ori

(* Only one thread pushes: while it does, the head it loaded can only have    *)
(* been popped, and is not back.  So if the exchange finds it the link is     *)
(* right.                                                                     *)
Producing(K) == \A t \in Threads :
  /\ pc[t] \in {"push_new", "push_cas", "push_reload"} =>
       /\ ori[t] = NULL => head_ = NULL
       /\ ori[t] # NULL /\ K[ori[t]] = "list" => head_ = ori[t]
  /\ pc[t] = "push_cas" /\ head_ = ori[t] => next_[new[t]] = ori[t]

(* Cell k of t holds the node that t has validated, and no scan for that node *)
(* has passed the cell.                                                       *)
Protects(t, k) ==
  /\ hps[SlotOf[t]][k] = new[t]
  /\ \A a \in Agents : del[a].pc = "scan" /\ del[a].node = new[t] => del[a].i <= (SlotOf[t] - 1) * Sz + k

(* access and the recheck: the node was in the list after the cell was        *)
(* written, so whoever deletes it will find it there; until then it is not    *)
(* given to new, and next_ is what t read as long as it is in the list.       *)
Guarding(K) == \A t \in Threads :
  /\ pc[t] = "pop_recheck" => \E k \in 0 .. Sz - 1 : hps[SlotOf[t]][k] = ori[t]
  /\ pc[t] \in {"pop_next", "pop_cas"} =>
       K[new[t]] \notin {"free", "new"} /\ \E k \in 0 .. Sz - 1 : Protects(t, k)
  /\ pc[t] = "pop_cas" /\ K[new[t]] = "list" => nxt[t] = next_[new[t]]

(* A node carries its value until the Pop that unlinked it has taken it, and  *)
(* then the Pop does.  So only an empty stack ends the loop of the            *)
(* destructor.                                                                *)
Filled(K) ==
  /\ \A n \in Nodes : K[n] \in {"new", "list"} => data[n] # NoValue
  /\ \A t \in Threads :
       /\ pc[t] = "pop_swap" => data[ori[t]] # NoValue
       /\ pc[t] \in {"pop_size", "pop_reset", "pop_release", "pop_return"} => val[t] # NoValue

(* The destructor goes on from its loop when the stack is empty.              *)
Emptied == pc[Main] \in {"dtor_stop", "dtor_join", "dtor_exchange"} \cup Freeing => head_ = NULL

(* size_ lags behind head_ by the threads between their exchange and their    *)
(* fetch_add or fetch_sub.                                                    *)
Adding == {t \in Threads : pc[t] = "push_size"}
Taking == {t \in Threads : pc[t] \in {"pop_swap", "pop_size"}}
Counted(K) ==
  size_ = (Cardinality(At(K, "list")) + Cardinality(Taking) - Cardinality(Adding)) % SizeMod

Inv(K, O, R) ==
  /\ Book(K, O, R) /\ StackList(K, R) /\ DelayedList(K, R) /\ RestLists(K, O, R)
  /\ Fresh(K, O) /\ Popped(K, O) /\ InHands(K, O)
  /\ Producing(K) /\ Guarding(K) /\ Filled(K) /\ Emptied /\ Counted(K)

IInv == Typed /\ \E K, O, R : Inv(K, O, R)
-----------------------------------------------------------------------------
(* Natural numbers.                                                           *)

(* A set of natural numbers that is not empty has a least element.            *)
LEMMA LeastNumber ==
  ASSUME NEW T \in SUBSET Nat, T # {}
  PROVE  \E n \in T : \A k \in T : n <= k
<1>1. IsWellFoundedOn(OpToRel(<, Nat), Nat)
  BY NatLessThanWellFounded
<1>2. PICK R : R = OpToRel(<, Nat)
  OBVIOUS
<1>3. PICK n \in T : \A k \in T : ~ (<<k, n>> \in R)
  BY <1>1, <1>2, WFMin
<1>4. \A k \in T : ~ (k < n)
  BY <1>2, <1>3 DEF OpToRel
<1> QED BY <1>3, <1>4

(* Induction over the natural numbers, for a set instead of a predicate.      *)
LEMMA SetInduction ==
  ASSUME NEW P, 0 \in P, \A n \in Nat : n \in P => n + 1 \in P
  PROVE  \A n \in Nat : n \in P
<1> SUFFICES ASSUME NEW m \in Nat, m \notin P PROVE FALSE
  OBVIOUS
<1>1. PICK T : T = {n \in Nat : n \notin P}
  OBVIOUS
<1>2. PICK n \in T : \A k \in T : n <= k
  BY <1>1, LeastNumber
<1>3. n \in Nat /\ n # 0 /\ n - 1 \in Nat
  BY <1>1, <1>2
<1>4. n - 1 \in P
  BY <1>1, <1>2, <1>3
<1>5. (n - 1) + 1 = n
  BY <1>3
<1> QED BY <1>1, <1>2, <1>3, <1>4, <1>5

-----------------------------------------------------------------------------
(* What Chain computes.                                                       *)

(* The recursion of Chain, to the depth N.                                    *)
Reaches(g, N) ==
  g = [k \in 0 .. N |-> [m \in Ptr |->
         IF m = NULL \/ k = 0 THEN {} ELSE {m} \cup g[k - 1][next_[m]]]]

(* One more level can always be added.                                        *)
LEMMA ReachMore ==
  ASSUME NEW N \in Nat, next_ \in [Nodes -> Ptr], NEW g, Reaches(g, N)
  PROVE  \E h : Reaches(h, N + 1)
<1>1. PICK h : h = [k \in 0 .. (N+1) |-> [m \in Ptr |->
                     IF m = NULL \/ k = 0 THEN {} ELSE {m} \cup g[k - 1][next_[m]]]]
  OBVIOUS
<1>2. \A k \in 0..N : g[k] = [m \in Ptr |->
                     IF m = NULL \/ k = 0 THEN {} ELSE {m} \cup g[k - 1][next_[m]]]
  BY DEF Reaches
<1>3. \A k \in 0..(N+1) : h[k] = [m \in Ptr |->
                     IF m = NULL \/ k = 0 THEN {} ELSE {m} \cup g[k - 1][next_[m]]]
  BY <1>1
<1>4. ASSUME NEW k \in 0..N PROVE h[k] = g[k]
  <2>1. k \in 0..(N+1)
    OBVIOUS
  <2>2. PICK f : f = [m \in Ptr |-> IF m = NULL \/ k = 0 THEN {} ELSE {m} \cup g[k - 1][next_[m]]]
    OBVIOUS
  <2>3. h[k] = f
    BY <1>3, <2>1, <2>2
  <2>4. g[k] = f
    BY <1>2, <2>2
  <2> QED BY <2>3, <2>4
<1>5. \A k \in 0..(N+1) : k = 0 \/ h[k-1] = g[k-1]
  BY <1>4
<1>6. h = [k \in 0 .. (N+1) |-> [m \in Ptr |->
             IF m = NULL \/ k = 0 THEN {} ELSE {m} \cup h[k - 1][next_[m]]]]
  <2>1. ASSUME NEW k \in 0..(N+1)
        PROVE  h[k] = [m \in Ptr |->
                 IF m = NULL \/ k = 0 THEN {} ELSE {m} \cup h[k - 1][next_[m]]]
    <3>1. CASE k = 0
      BY <1>3, <3>1
    <3>2. CASE k # 0
      BY <1>3, <1>5, <3>2
    <3> QED BY <3>1, <3>2
  <2>2. h = [k \in 0 .. (N+1) |-> h[k]]
    BY <1>1
  <2> QED BY <2>1, <2>2
<1> QED BY <1>6 DEF Reaches

(* For every depth there is such a recursion, so Chain is what it says.       *)
LEMMA ReachExists ==
  ASSUME next_ \in [Nodes -> Ptr], NEW N \in Nat
  PROVE  \E g : Reaches(g, N)
<1>1. PICK P : P = {n \in Nat : \E g : Reaches(g, n)}
  OBVIOUS
<1>2. 0 \in P
  <2>1. PICK g : g = [k \in 0 .. 0 |-> [m \in Ptr |-> {}]]
    OBVIOUS
  <2>2. g = [k \in 0 .. 0 |-> [m \in Ptr |->
               IF m = NULL \/ k = 0 THEN {} ELSE {m} \cup g[k - 1][next_[m]]]]
    BY <2>1
  <2>3. Reaches(g, 0)
    BY <2>2 DEF Reaches
  <2> QED BY <1>1, <2>3
<1>3. \A n \in Nat : n \in P => n + 1 \in P
  BY <1>1, ReachMore
<1>4. N \in P
  BY <1>2, <1>3, SetInduction
<1> QED BY <1>1, <1>4

(* Chain reads the recursion at the depth of all nodes.                       *)
LEMMA ChainReaches ==
  ASSUME next_ \in [Nodes -> Ptr], IsFiniteSet(Nodes), NEW n
  PROVE  \E g : Reaches(g, Cardinality(Nodes)) /\ Chain(n) = g[Cardinality(Nodes)][n]
<1>1. \E g : Reaches(g, Cardinality(Nodes))
  BY ReachExists, FS_CardinalityType
<1>2. PICK g : g = CHOOSE f : Reaches(f, Cardinality(Nodes))
  OBVIOUS
<1>3. Reaches(g, Cardinality(Nodes))
  BY <1>1, <1>2
<1>4. Chain(n) = g[Cardinality(Nodes)][n]
  BY <1>2 DEF Chain, Reaches
<1> QED BY <1>3, <1>4

(* One level of the recursion.                                                *)
LEMMA ReachUnfolds ==
  ASSUME NEW N \in Nat, NEW g, Reaches(g, N), next_ \in [Nodes -> Ptr]
  PROVE  /\ \A m \in Ptr : g[0][m] = {}
         /\ \A k \in 0..N : g[k][NULL] = {}
         /\ \A m \in Nodes, k \in 1..N : g[k][m] = {m} \cup g[k - 1][next_[m]]
<1>1. \A k \in 0..N : g[k] = [m \in Ptr |->
         IF m = NULL \/ k = 0 THEN {} ELSE {m} \cup g[k - 1][next_[m]]]
  BY DEF Reaches
<1>2. \A m \in Ptr : g[0][m] = {}
  <2>1. 0 \in 0..N
    OBVIOUS
  <2>2. g[0] = [m \in Ptr |-> IF m = NULL \/ 0 = 0 THEN {} ELSE {m} \cup g[0 - 1][next_[m]]]
    BY <1>1, <2>1
  <2> QED BY <2>2
<1>3. \A k \in 0..N : g[k][NULL] = {}
  BY <1>1 DEF Ptr
<1>4. ASSUME NEW m \in Nodes, NEW k \in 1..N PROVE g[k][m] = {m} \cup g[k - 1][next_[m]]
  <2>1. m \in Ptr /\ m # NULL /\ k \in 0..N /\ k # 0
    BY NullAssumption DEF Ptr
  <2>2. g[k] = [x \in Ptr |-> IF x = NULL \/ k = 0 THEN {} ELSE {x} \cup g[k - 1][next_[x]]]
    BY <1>1, <2>1
  <2>3. g[k][m] = IF m = NULL \/ k = 0 THEN {} ELSE {m} \cup g[k - 1][next_[m]]
    BY <2>1, <2>2
  <2> QED BY <2>1, <2>3
<1> QED BY <1>2, <1>3, <1>4

(* The chain of a list's first node is the list.                              *)
LEMMA ChainIsList ==
  ASSUME next_ \in [Nodes -> Ptr], IsFiniteSet(Nodes),
         NEW S, NEW R, NEW h \in Ptr, IsList(S, R, next_, h)
  PROVE  Chain(h) = S
<1>1. PICK g : Reaches(g, Cardinality(Nodes)) /\ Chain(h) = g[Cardinality(Nodes)][h]
  BY ChainReaches
<1>2. PICK N \in Nat : N = Cardinality(Nodes)
  BY FS_CardinalityType
<1>3. S \subseteq Nodes /\ IsFiniteSet(S) /\ Cardinality(S) \in Nat /\ Cardinality(S) <= N
  BY <1>2, FS_Subset, FS_CardinalityType DEF IsList
<1>4. PICK P : P = {k \in Nat : k <= N => \A m \in S :
                     g[k][m] = {x \in S : R[x] <= R[m] /\ R[x] > R[m] - k}}
  OBVIOUS
<1>r. \A m \in S : R[m] \in Nat /\ R[m] >= 1
  BY <1>3 DEF IsList
<1>5. 0 \in P
  <2>1. \A m \in S : g[0][m] = {}
    BY <1>1, <1>2, <1>3, ReachUnfolds DEF Ptr
  <2>2. \A m \in S : {x \in S : R[x] <= R[m] /\ R[x] > R[m] - 0} = {}
    BY <1>r
  <2> QED BY <1>4, <2>1, <2>2
<1>6. ASSUME NEW k \in Nat, k \in P, k + 1 <= N PROVE \A m \in S :
         g[k + 1][m] = {x \in S : R[x] <= R[m] /\ R[x] > R[m] - (k + 1)}
  <2> SUFFICES ASSUME NEW m \in S
               PROVE  g[k + 1][m] = {x \in S : R[x] <= R[m] /\ R[x] > R[m] - (k + 1)}
    OBVIOUS
  <2>1. g[k + 1][m] = {m} \cup g[k][next_[m]]
    <3>1. k + 1 \in 1..N /\ (k + 1) - 1 = k
      BY <1>6
    <3> QED BY <1>1, <1>2, <1>3, <3>1, ReachUnfolds
  <2>2. CASE R[m] = 1
    <3>1. g[k][next_[m]] = {}
      BY <1>1, <1>2, <1>6, <2>2, ReachUnfolds DEF IsList
    <3>2. \A x \in S : R[x] <= R[m] /\ R[x] > R[m] - (k + 1) <=> x = m
      BY <1>r, <2>2 DEF IsList
    <3> QED BY <2>1, <3>1, <3>2
  <2>3. CASE R[m] # 1
    <3>1. next_[m] \in S /\ R[next_[m]] = R[m] - 1
      BY <2>3 DEF IsList
    <3>2. PICK x1 \in S : x1 = next_[m]
      BY <3>1
    <3>3. g[k][x1] = {x \in S : R[x] <= R[x1] /\ R[x] > R[x1] - k}
      BY <1>4, <1>6
    <3>4. R[x1] = R[m] - 1
      BY <3>1, <3>2
    <3>5. \A x \in S : R[x] = R[m] <=> x = m
      BY DEF IsList
    <3>6. \A x \in S : R[x] <= R[m] /\ R[x] > R[m] - (k + 1)
                        <=> x = m \/ (R[x] <= R[x1] /\ R[x] > R[x1] - k)
      <4> TAKE x \in S
      <4>1. R[x] \in Nat /\ R[m] \in Nat /\ R[x1] \in Nat
        BY <1>r
      <4> QED BY <4>1, <3>4, <3>5
    <3> QED BY <2>1, <3>2, <3>3, <3>6
  <2> QED BY <2>2, <2>3
<1>7. \A k \in Nat : k \in P => k + 1 \in P
  BY <1>4, <1>6
<1>8. N \in P
  BY <1>5, <1>7, SetInduction
<1>9. CASE h = NULL
  <2>1. S = {}
    BY <1>9 DEF IsList
  <2>2. g[N][NULL] = {}
    BY <1>1, <1>2, ReachUnfolds
  <2> QED BY <1>1, <1>2, <1>9, <2>1, <2>2
<1>10. CASE h # NULL
  <2>1. h \in S /\ R[h] = Cardinality(S)
    BY <1>10 DEF IsList
  <2>2. g[N][h] = {x \in S : R[x] <= R[h] /\ R[x] > R[h] - N}
    BY <1>4, <1>8, <2>1
  <2>3. \A x \in S : R[x] <= R[h] /\ R[x] > R[h] - N
    <3> TAKE x \in S
    <3>1. R[x] \in 1 .. Cardinality(S)
      BY DEF IsList
    <3> QED BY <1>3, <2>1, <3>1
  <2> QED BY <1>1, <1>2, <2>2, <2>3
<1> QED BY <1>9, <1>10

(* A list depends only on its own nodes.                                      *)
LEMMA ListSame ==
  ASSUME NEW S, NEW R, NEW nx, NEW h, IsList(S, R, nx, h), NEW Q, NEW ny,
         \A n \in S : Q[n] = R[n] /\ ny[n] = nx[n]
  PROVE  IsList(S, Q, ny, h)
  BY DEF IsList

(* A node that is linked to the first one becomes the first.                  *)
LEMMA ListPush ==
  ASSUME IsFiniteSet(Nodes), NEW S, NEW R, NEW nx, NEW h, IsList(S, R, nx, h),
         NEW n \in Nodes, n \notin S, NEW Q, NEW ny, ny[n] = h, Q[n] = Cardinality(S) + 1,
         \A m \in S : Q[m] = R[m] /\ ny[m] = nx[m]
  PROVE  IsList(S \cup {n}, Q, ny, n)
<1>1. IsFiniteSet(S) /\ Cardinality(S) \in Nat /\ (Cardinality(S) = 0 <=> S = {})
  BY FS_Subset, FS_CardinalityType, FS_EmptySet DEF IsList
<1>2. Cardinality(S \cup {n}) = Cardinality(S) + 1
  BY <1>1, FS_AddElement
<1>3. n # NULL
  BY NullAssumption
<1>4. S \cup {n} \subseteq Nodes
  BY DEF IsList
<1>5. ASSUME NEW m \in S
      PROVE  /\ Q[m] \in 1 .. Cardinality(S) + 1
             /\ IF Q[m] = 1 THEN ny[m] = NULL
                ELSE ny[m] \in S \cup {n} /\ Q[ny[m]] = Q[m] - 1
             /\ Q[m] # Q[n]
  BY <1>1, <1>5 DEF IsList
<1>6. IF Q[n] = 1 THEN ny[n] = NULL ELSE ny[n] \in S \cup {n} /\ Q[ny[n]] = Q[n] - 1
  <2>1. CASE h = NULL
    BY <1>1, <2>1 DEF IsList
  <2>2. CASE h # NULL
    <3>1. h \in S /\ R[h] = Cardinality(S) /\ Q[h] = R[h]
      BY <2>2 DEF IsList
    <3>2. Q[n] # 1
      BY <1>1, <3>1
    <3> QED BY <1>1, <3>1, <3>2
  <2> QED BY <2>1, <2>2
<1>7. Q[n] \in 1 .. Cardinality(S) + 1
  BY <1>1
<1>8. \A m, x \in S : Q[m] = Q[x] => m = x
  BY DEF IsList
<1>9. \A m, x \in S \cup {n} : Q[m] = Q[x] => m = x
  BY <1>5, <1>8
<1>10. \A m \in S \cup {n} :
         /\ Q[m] \in 1 .. Cardinality(S) + 1
         /\ IF Q[m] = 1 THEN ny[m] = NULL
            ELSE ny[m] \in S \cup {n} /\ Q[ny[m]] = Q[m] - 1
  BY <1>5, <1>6, <1>7
<1> QED BY <1>2, <1>3, <1>4, <1>9, <1>10 DEF IsList

(* Without its first node, the rest is a list.                                *)
LEMMA ListPop ==
  ASSUME IsFiniteSet(Nodes), NEW S, NEW R, NEW nx, NEW h, IsList(S, R, nx, h), h # NULL
  PROVE  /\ h \in S /\ h \in Nodes
         /\ nx[h] = NULL \/ nx[h] \in Nodes
         /\ Cardinality(S) \in Nat /\ Cardinality(S \ {h}) = Cardinality(S) - 1
         /\ IsList(S \ {h}, R, nx, nx[h])
<1>1. IsFiniteSet(S) /\ Cardinality(S) \in Nat /\ (Cardinality(S) = 0 <=> S = {})
  BY FS_Subset, FS_CardinalityType, FS_EmptySet DEF IsList
<1>2. h \in S /\ R[h] = Cardinality(S) /\ S \subseteq Nodes
  BY DEF IsList
<1>3. IsFiniteSet(S \ {h}) /\ Cardinality(S \ {h}) = Cardinality(S) - 1
  BY <1>1, <1>2, FS_RemoveElement
<1>4. Cardinality(S \ {h}) = 0 <=> S \ {h} = {}
  BY <1>3, FS_EmptySet
<1>5. \A m, x \in S : R[m] = R[x] => m = x
  BY DEF IsList
<1>6. ASSUME NEW m \in S \ {h}
      PROVE  /\ R[m] \in 1 .. Cardinality(S \ {h})
             /\ IF R[m] = 1 THEN nx[m] = NULL
                ELSE nx[m] \in S \ {h} /\ R[nx[m]] = R[m] - 1
  <2>1. R[m] \in 1 .. Cardinality(S) /\ R[m] # R[h]
    BY <1>2, <1>5, <1>6 DEF IsList
  <2>2. R[m] = 1 => nx[m] = NULL
    BY <1>6 DEF IsList
  <2>3. R[m] # 1 => nx[m] \in S /\ R[nx[m]] = R[m] - 1
    BY <1>6 DEF IsList
  <2>4. R[m] # 1 => nx[m] # h
    BY <1>1, <1>2, <2>1, <2>3
  <2> QED BY <1>1, <1>2, <1>3, <2>1, <2>2, <2>3, <2>4
<1>7. IF R[h] = 1 THEN nx[h] = NULL ELSE nx[h] \in S /\ R[nx[h]] = R[h] - 1
  BY <1>2 DEF IsList
<1>8. nx[h] = NULL \/ nx[h] \in Nodes
  BY <1>2, <1>7
<1>9. IF nx[h] = NULL THEN S \ {h} = {}
      ELSE nx[h] \in S \ {h} /\ R[nx[h]] = Cardinality(S \ {h})
  <2>1. CASE R[h] = 1
    BY <1>1, <1>2, <1>3, <1>4, <1>7, <2>1
  <2>2. CASE R[h] # 1
    <3>1. nx[h] \in S /\ R[nx[h]] = R[h] - 1
      BY <1>7, <2>2
    <3>2. nx[h] # h
      BY <1>1, <1>2, <3>1
    <3>3. nx[h] # NULL
      BY <1>2, <3>1, NullAssumption
    <3> QED BY <1>2, <1>3, <3>1, <3>2, <3>3
  <2> QED BY <2>1, <2>2
<1> QED BY <1>1, <1>2, <1>3, <1>5, <1>6, <1>8, <1>9 DEF IsList

(* The empty list.                                                            *)
LEMMA ListNull ==
  ASSUME NEW R, NEW nx
  PROVE  IsList({}, R, nx, NULL)
  BY DEF IsList

-----------------------------------------------------------------------------
(* The types, the shape of deletions and of locals, who may call what, and    *)
(* the phases of the destructor: all that needs no list.                      *)

(* The types are those of the variables.                                      *)
LEMMA SanSame ==
  ASSUME SanTypeOK, UNCHANGED sanVars
  PROVE  SanTypeOK'
  BY DEF SanTypeOK, sanVars, hazards

LEMMA NoDelTyped == NoDel \in Frame
<1>1. 0 \in Cells
  BY SlotAssumption DEF Cells, Sz
<1> QED BY <1>1 DEF NoDel, Frame, Ptr

LEMMA FrameTyped ==
  ASSUME SanTypeOK, NEW a \in Agents, NEW f \in Frame, del' = [del EXCEPT ![a] = f]
  PROVE  del' \in [Agents -> Frame]
  BY DEF SanTypeOK

LEMMA AfterTyped ==
  ASSUME SanTypeOK, NEW a \in Agents
  PROVE  AfterDelete(a) \in Frame
<1>1. del[a] \in Frame
  BY DEF SanTypeOK
<1>2. [NoDel EXCEPT !.pc = "next", !.rest = del[a].rest, !.loop = TRUE] \in Frame
  BY <1>1, NoDelTyped DEF Frame
<1>3. [NoDel EXCEPT !.pc = "exchange"] \in Frame
  BY <1>1, NoDelTyped DEF Frame
<1> QED BY <1>2, <1>3, NoDelTyped DEF AfterDelete

(* A step of a deletion keeps the types of what it writes.                    *)
LEMMA DeleteSan ==
  ASSUME SanTypeOK, Frames, NEW a \in Agents, DeleteStep(a)
  PROVE  SanTypeOK'
<1>0. del[a] \in Frame /\ 0 \in Cells /\ NULL \in Ptr
  BY SlotAssumption DEF SanTypeOK, Cells, Sz, Ptr
<1>1. CASE ScanMiss(a)
  <2>1. del[a].i + 1 \in Cells
    BY <1>0, <1>1, SlotAssumption DEF ScanMiss, Frame, Cells, Sz
  <2>2. [del[a] EXCEPT !.i = del[a].i + 1] \in Frame
    BY <1>0, <2>1 DEF Frame
  <2>3. del' = [del EXCEPT ![a] = [del[a] EXCEPT !.i = del[a].i + 1]]
    BY <1>1 DEF ScanMiss, SanTypeOK
  <2>4. del' \in [Agents -> Frame]
    BY <2>2, <2>3, FrameTyped
  <2> QED BY <1>1, <2>4 DEF ScanMiss, SanTypeOK, hazards
<1>2. CASE ScanHit(a)
  <2>1. [del[a] EXCEPT !.pc = "load", !.i = 0] \in Frame
    BY <1>0 DEF Frame
  <2>2. del' = [del EXCEPT ![a] = [del[a] EXCEPT !.pc = "load", !.i = 0]]
    BY <1>2 DEF ScanHit, SanTypeOK
  <2>3. del' \in [Agents -> Frame]
    BY <2>1, <2>2, FrameTyped
  <2> QED BY <1>2, <2>3 DEF ScanHit, SanTypeOK, hazards
<1>3. CASE ImmediateDelete(a)
  <2>1. del' \in [Agents -> Frame]
    BY <1>3, AfterTyped, FrameTyped DEF ImmediateDelete
  <2> QED BY <1>3, <2>1 DEF ImmediateDelete, SanTypeOK, hazards
<1>4. CASE DelayLoad(a)
  <2>1. [del[a] EXCEPT !.pc = "link", !.ori = backward_deleting_list_] \in Frame
    BY <1>0 DEF Frame, SanTypeOK
  <2>2. del' = [del EXCEPT ![a] = [del[a] EXCEPT !.pc = "link", !.ori = backward_deleting_list_]]
    BY <1>4 DEF DelayLoad, SanTypeOK
  <2>3. del' \in [Agents -> Frame]
    BY <2>1, <2>2, FrameTyped
  <2> QED BY <1>4, <2>3 DEF DelayLoad, SanTypeOK, hazards
<1>5. CASE DelayLink(a)
  <2>1. [del[a] EXCEPT !.pc = "cas"] \in Frame
    BY <1>0 DEF Frame
  <2>2. del' = [del EXCEPT ![a] = [del[a] EXCEPT !.pc = "cas"]]
    BY <1>5 DEF DelayLink, SanTypeOK
  <2>3. del' \in [Agents -> Frame]
    BY <2>1, <2>2, FrameTyped
  <2>4. next_' \in [Nodes -> Ptr]
    BY <1>0, <1>5 DEF DelayLink, SanTypeOK, Frame
  <2> QED BY <1>5, <2>3, <2>4 DEF DelayLink, SanTypeOK, hazards
<1>6. CASE DelayCas(a)
  <2>1. [del[a] EXCEPT !.pc = "load", !.ori = NULL] \in Frame
    BY <1>0 DEF Frame
  <2>2. \/ del' = [del EXCEPT ![a] = AfterDelete(a)]
        \/ del' = [del EXCEPT ![a] = [del[a] EXCEPT !.pc = "load", !.ori = NULL]]
    BY <1>6 DEF DelayCas, SanTypeOK
  <2>3. del' \in [Agents -> Frame]
    BY <2>1, <2>2, AfterTyped, FrameTyped
  <2>4. backward_deleting_list_' \in Ptr
    BY <1>0, <1>6 DEF DelayCas, SanTypeOK, Frame
  <2> QED BY <1>6, <2>3, <2>4 DEF DelayCas, SanTypeOK, hazards
<1>7. CASE BackExchange(a)
  <2>1. [NoDel EXCEPT !.pc = "next", !.rest = backward_deleting_list_, !.loop = TRUE] \in Frame
    BY NoDelTyped DEF Frame, SanTypeOK
  <2>2. del' \in [Agents -> Frame]
    BY <1>7, <2>1, NoDelTyped, FrameTyped DEF BackExchange
  <2> QED BY <1>0, <1>7, <2>2 DEF BackExchange, SanTypeOK, hazards
<1>8. CASE BackNext(a)
  <2>1. del[a].rest \in Nodes
    BY <1>0, <1>8 DEF BackNext, Frames, Frame, Ptr
  <2>2. next_[del[a].rest] \in Ptr
    BY <2>1 DEF SanTypeOK
  <2>3. [NoDel EXCEPT !.pc = "scan", !.node = del[a].rest,
                      !.rest = next_[del[a].rest], !.loop = TRUE] \in Frame
    BY <2>1, <2>2, NoDelTyped DEF Frame, Ptr
  <2>4. del' \in [Agents -> Frame]
    BY <1>8, <2>3, FrameTyped DEF BackNext
  <2> QED BY <1>8, <2>4 DEF BackNext, SanTypeOK, hazards
<1> QED BY <1>1, <1>2, <1>3, <1>4, <1>5, <1>6, <1>7, <1>8 DEF DeleteStep

(* So do the stores to the hazard pointers of a thread.                       *)
LEMMA StoreSan ==
  ASSUME SanTypeOK, NEW t \in Threads, NEW n \in Ptr, StorePtr(t, n),
         UNCHANGED <<allocated, next_, backward_deleting_list_, isBackSanitizer_, del>>
  PROVE  SanTypeOK'
<1>1. CASE n = NULL \/ SlotOf[t] = 0
  BY <1>1 DEF StorePtr, SanTypeOK, hazards
<1>2. CASE n # NULL /\ SlotOf[t] # 0
  <2>1. PICK s \in SlotIds : s = SlotOf[t]
    BY <1>2, SlotAssumption DEF SlotIds
  <2>2. pos[s] \in 0 .. Sz - 1 /\ (pos[s] + 1) % Sz \in 0 .. Sz - 1
    BY DEF SanTypeOK, Sz
  <2>3. [hps[s] EXCEPT ![pos[s]] = n] \in [0 .. Sz - 1 -> Ptr]
    BY <2>2 DEF SanTypeOK
  <2>4. /\ hps' = [hps EXCEPT ![s] = [hps[s] EXCEPT ![pos[s]] = n]]
        /\ pos' = [pos EXCEPT ![s] = (pos[s] + 1) % Sz]
    BY <1>2, <2>1 DEF StorePtr, SanTypeOK
  <2> QED BY <2>2, <2>3, <2>4 DEF SanTypeOK
<1> QED BY <1>1, <1>2

LEMMA ResetSan ==
  ASSUME SanTypeOK, NEW t \in Threads
  PROVE  /\ ResetFirst(t) \/ ResetLast(t) => /\ hps' \in [SlotIds -> [0 .. Sz - 1 -> Ptr]]
                                            /\ pos' \in [SlotIds -> 0 .. Sz - 1]
<1>1. CASE SlotOf[t] = 0
  BY <1>1 DEF ResetFirst, ResetLast, SanTypeOK, hazards
<1>2. CASE SlotOf[t] # 0
  <2>1. PICK s \in SlotIds : s = SlotOf[t]
    BY <1>2, SlotAssumption DEF SlotIds
  <2>2. [hps[s] EXCEPT ![0] = NULL] \in [0 .. Sz - 1 -> Ptr]
    BY DEF SanTypeOK, Ptr
  <2>3. [hps[s] EXCEPT ![1] = NULL] \in [0 .. Sz - 1 -> Ptr]
    BY DEF SanTypeOK, Ptr
  <2>4. ASSUME ResetFirst(t)
        PROVE  hps' = [hps EXCEPT ![s] = [hps[s] EXCEPT ![0] = NULL]] /\ pos' = pos
    BY <1>2, <2>1, <2>4 DEF ResetFirst, SanTypeOK
  <2>5. ASSUME ResetLast(t)
        PROVE  /\ hps' = [hps EXCEPT ![s] = [hps[s] EXCEPT ![1] = NULL]]
               /\ pos' = [pos EXCEPT ![s] = 0]
    BY <1>2, <2>1, <2>5 DEF ResetLast, SanTypeOK
  <2>6. 0 \in 0 .. Sz - 1
    BY DEF Sz
  <2> QED BY <2>2, <2>3, <2>4, <2>5, <2>6 DEF SanTypeOK
<1> QED BY <1>1, <1>2

(* Where the top of the loop leads.                                           *)
LEMMA PopLoopTyped ==
  ASSUME TypeOK, NEW t \in Threads, NEW n \in Ptr, PopLoop(t, n)
  PROVE  /\ pc' \in [Threads -> {"idle"} \cup PushLabels \cup PopLabels \cup DtorLabels]
         /\ ori' \in [Threads -> Ptr] /\ new' \in [Threads -> Ptr] /\ nxt' \in [Threads -> Ptr]
         /\ val' \in [Threads -> Values \cup {NoValue}]
         /\ UNCHANGED program
<1>1. NULL \in Ptr
  BY DEF Ptr
<1>2. CASE n = NULL
  BY <1>1, <1>2 DEF PopLoop, Leave, Caller, Goto, Set, TypeOK, PopLabels, DtorLabels
<1>3. CASE n # NULL
  BY <1>1, <1>3 DEF PopLoop, Goto, Set, TypeOK, PopLabels, program
<1> QED BY <1>2, <1>3

(* The value of a Push.                                                       *)
LEMMA ValuesTyped == ASSUME TypeOK, pushes < use.pushes
  PROVE pushes + 1 \in 0 .. use.pushes /\ pushes + 1 \in Values /\ pushes + 1 # NoValue
<1>1. use \in Uses /\ use.pushes \in Nat /\ pushes \in 0 .. use.pushes
  BY UsesAssumption DEF TypeOK
<1>2. pushes + 1 \in 0 .. use.pushes /\ pushes + 1 \in 1 .. use.pushes
  BY <1>1
<1>3. pushes + 1 \in Values
  BY <1>1, <1>2 DEF Values
<1> QED BY <1>2, <1>3, NoValueAssumption

LEMMA PushCallTyped ==
  ASSUME Hypotheses, Typed, NEW t \in Threads, t \in use.producers, PushCall(t)
  PROVE  Typed'
<1>1. SanTypeOK'
  BY SanSame DEF PushCall, Typed, TypeOK
<1>2. TypeOK'
  BY <1>1, ValuesTyped DEF PushCall, Typed, TypeOK, Goto, Set, PushLabels
<1>3. Frames'
  BY DEF PushCall, Goto, Typed, Frames, sanVars
<1>4. Locals'
  BY ValuesTyped DEF PushCall, Typed, TypeOK, Goto, Set, PushLabels, Locals,
      PopLabels, HasOri
<1>5. Roles'
  BY DEF PushCall, Goto, Typed, TypeOK, Roles, Hypotheses, MainApart,
      PopLabels, DtorLabels
<1>6. Phases'
  BY DEF PushCall, Goto, Typed, Phases, Freeing, sanVars
<1> QED BY <1>2, <1>3, <1>4, <1>5, <1>6 DEF Typed

LEMMA PopCallTyped ==
  ASSUME Hypotheses, Typed, NEW t \in Threads, t \in use.consumers, PopCall(t)
  PROVE  Typed'
<1>1. SanTypeOK'
  BY SanSame DEF PopCall, Typed, TypeOK
<1>2. TypeOK'
  BY <1>1 DEF PopCall, Goto, Typed, TypeOK, program, PopLabels
<1>3. Frames'
  BY DEF PopCall, Goto, Typed, Frames, sanVars
<1>4. Locals'
  BY DEF PopCall, Goto, Typed, Locals, HasOri
<1>5. Roles'
  BY DEF PopCall, Goto, Typed, TypeOK, Roles, Hypotheses, MainApart, program,
      PushLabels, DtorLabels
<1>6. Phases'
  BY DEF PopCall, Goto, Typed, Phases, Freeing, sanVars
<1> QED BY <1>2, <1>3, <1>4, <1>5, <1>6 DEF Typed

LEMMA PushLoadTyped ==
  ASSUME Hypotheses, Typed, NEW t \in Threads, PushLoad(t)
  PROVE  Typed'
<1>1. SanTypeOK'
  BY SanSame DEF PushLoad, Typed, TypeOK
<1>2. TypeOK'
  BY <1>1 DEF PushLoad, Goto, Set, Typed, TypeOK, program, PushLabels
<1>3. Frames'
  BY DEF PushLoad, Goto, Typed, Frames, sanVars
<1>4. Locals'
  BY DEF PushLoad, Goto, Set, Typed, Locals, HasOri, PopLabels
<1>5. Roles'
  BY DEF PushLoad, Goto, Typed, Roles, program, PushLabels, PopLabels,
      DtorLabels
<1>6. Phases'
  BY DEF PushLoad, Goto, Typed, Phases, Freeing, sanVars
<1> QED BY <1>2, <1>3, <1>4, <1>5, <1>6 DEF Typed

LEMMA PushNewTyped ==
  ASSUME Hypotheses, Typed, NEW t \in Threads, PushNew(t)
  PROVE  Typed'
<1>1. SanTypeOK'
  BY DEF PushNew, Typed, TypeOK, SanTypeOK, hazards
<1>2. TypeOK'
  BY <1>1 DEF PushNew, Goto, Set, Typed, TypeOK, Ptr, program, PushLabels
<1>3. Frames'
  BY DEF PushNew, Goto, Typed, Frames
<1>4. Locals'
  BY NullAssumption DEF PushNew, Goto, Set, Typed, TypeOK, Locals, HasOri,
      PopLabels
<1>5. Roles'
  BY DEF PushNew, Goto, Typed, Roles, program, PushLabels, PopLabels,
      DtorLabels
<1>6. Phases'
  BY DEF PushNew, Goto, Typed, Phases, Freeing
<1> QED BY <1>2, <1>3, <1>4, <1>5, <1>6 DEF Typed

LEMMA PushCasTyped ==
  ASSUME Hypotheses, Typed, NEW t \in Threads, PushCas(t)
  PROVE  Typed'
<1>1. SanTypeOK'
  BY SanSame DEF PushCas, Typed, TypeOK
<1>2. TypeOK'
  BY <1>1 DEF PushCas, Goto, Set, Typed, TypeOK, program, PushLabels
<1>3. Frames'
  BY MainAssumption DEF PushCas, Goto, Typed, TypeOK, Frames, sanVars
<1>4. Locals'
  BY DEF PushCas, Goto, Set, Typed, TypeOK, Locals, HasOri, PopLabels
<1>5. Roles'
  BY MainAssumption DEF PushCas, Goto, Typed, TypeOK, Roles, program,
      PopLabels, DtorLabels
<1>6. Phases'
  BY MainAssumption DEF PushCas, Goto, Typed, TypeOK, Phases, Freeing, sanVars
<1> QED BY <1>2, <1>3, <1>4, <1>5, <1>6 DEF Typed

LEMMA PushReloadTyped ==
  ASSUME Hypotheses, Typed, NEW t \in Threads, PushReload(t)
  PROVE  Typed'
<1>1. SanTypeOK'
  BY DEF PushReload, Typed, TypeOK, SanTypeOK, hazards
<1>2. TypeOK'
  BY <1>1 DEF PushReload, Goto, Typed, TypeOK, program, PushLabels
<1>3. Frames'
  BY DEF PushReload, Goto, Typed, Frames
<1>4. Locals'
  BY DEF PushReload, Goto, Typed, Locals, HasOri, PopLabels
<1>5. Roles'
  BY DEF PushReload, Goto, Typed, Roles, program, PushLabels, PopLabels,
      DtorLabels
<1>6. Phases'
  BY DEF PushReload, Goto, Typed, Phases, Freeing
<1> QED BY <1>2, <1>3, <1>4, <1>5, <1>6 DEF Typed

LEMMA PushSizeTyped ==
  ASSUME Hypotheses, Typed, NEW t \in Threads, PushSize(t)
  PROVE  Typed'
<1>1. SanTypeOK'
  BY SanSame DEF PushSize, Typed, TypeOK
<1>2. TypeOK'
  BY <1>1, SizeModAssumption DEF PushSize, Leave, Goto, Set, Typed, TypeOK,
      Ptr, program
<1>3. Frames'
  BY DEF PushSize, Leave, Goto, Typed, Frames, sanVars
<1>4. Locals'
  BY DEF PushSize, Leave, Goto, Set, Typed, Locals, HasOri, PopLabels
<1>5. Roles'
  BY DEF PushSize, Leave, Goto, Typed, Roles, program, PushLabels, PopLabels,
      DtorLabels
<1>6. Phases'
  BY DEF PushSize, Leave, Goto, Typed, Phases, Freeing, sanVars
<1> QED BY <1>2, <1>3, <1>4, <1>5, <1>6 DEF Typed

LEMMA PopLoadTyped ==
  ASSUME Hypotheses, Typed, NEW t \in Threads, PopLoad(t)
  PROVE  Typed'
<1>1. SanTypeOK'
  BY SanSame DEF PopLoad, Typed, TypeOK
<1>2. TypeOK'
  BY <1>1, PopLoopTyped DEF PopLoad, Typed, TypeOK, program
<1>3. Frames'
  BY MainAssumption DEF PopLoad, PopLoop, Caller, Leave, Goto, Typed, TypeOK,
      Frames, sanVars
<1>4. Locals'
  BY DEF PopLoad, PopLoop, Caller, Leave, Goto, Set, Typed, TypeOK, Locals,
      HasOri, PopLabels
<1>5. Roles'
  BY MainAssumption DEF PopLoad, PopLoop, Caller, Leave, Goto, Typed, TypeOK,
      Roles, program, PushLabels, DtorLabels
<1>6. Phases'
  BY MainAssumption DEF PopLoad, PopLoop, Caller, Leave, Goto, Typed, TypeOK,
      Phases, Freeing, sanVars
<1> QED BY <1>2, <1>3, <1>4, <1>5, <1>6 DEF Typed

LEMMA PopAccessTyped ==
  ASSUME Hypotheses, Typed, NEW t \in Threads, PopAccess(t)
  PROVE  Typed'
<1>1. SanTypeOK'
  BY StoreSan DEF PopAccess, Typed, TypeOK
<1>2. TypeOK'
  BY <1>1 DEF PopAccess, Goto, Typed, TypeOK, program, PopLabels
<1>3. Frames'
  BY DEF PopAccess, Goto, Typed, Frames
<1>4. Locals'
  BY DEF PopAccess, Goto, Typed, Locals, HasOri, PopLabels
<1>5. Roles'
  BY DEF PopAccess, Goto, Typed, Roles, program, PushLabels, PopLabels,
      DtorLabels
<1>6. Phases'
  BY DEF PopAccess, Goto, Typed, Phases, Freeing
<1> QED BY <1>2, <1>3, <1>4, <1>5, <1>6 DEF Typed

LEMMA PopRecheckTyped ==
  ASSUME Hypotheses, Typed, NEW t \in Threads, PopRecheck(t)
  PROVE  Typed'
<1>1. SanTypeOK'
  BY SanSame DEF PopRecheck, Typed, TypeOK
<1>2. TypeOK'
  <2>1. CASE head_ # ori[t]
    BY <1>1, <2>1, PopLoopTyped DEF PopRecheck, Typed, TypeOK, program
  <2>2. CASE head_ = ori[t]
    BY <1>1, <2>2 DEF PopRecheck, Typed, TypeOK, program, Goto, Set, PopLabels
  <2> QED BY <2>1, <2>2
<1>3. Frames'
  BY MainAssumption DEF PopRecheck, PopLoop, Caller, Leave, Goto, Typed,
      TypeOK, Frames, sanVars
<1>4. Locals'
  BY DEF PopRecheck, PopLoop, Caller, Leave, Goto, Set, Typed, TypeOK, Locals,
      HasOri, PopLabels
<1>5. Roles'
  BY MainAssumption DEF PopRecheck, PopLoop, Caller, Leave, Goto, Typed,
      TypeOK, Roles, program, PushLabels, DtorLabels
<1>6. Phases'
  BY MainAssumption DEF PopRecheck, PopLoop, Caller, Leave, Goto, Typed,
      TypeOK, Phases, Freeing, sanVars
<1> QED BY <1>2, <1>3, <1>4, <1>5, <1>6 DEF Typed

LEMMA PopNextTyped ==
  ASSUME Hypotheses, Typed, NEW t \in Threads, PopNext(t)
  PROVE  Typed'
<1>1. SanTypeOK'
  BY SanSame DEF PopNext, Typed, TypeOK
<1>2. TypeOK'
  BY <1>1 DEF PopNext, Goto, Set, Typed, TypeOK, SanTypeOK, Ptr, Locals,
      HasOri, program, PopLabels
<1>3. Frames'
  BY DEF PopNext, Goto, Typed, Frames, sanVars
<1>4. Locals'
  BY DEF PopNext, Goto, Typed, Locals, HasOri, PopLabels
<1>5. Roles'
  BY DEF PopNext, Goto, Typed, Roles, program, PushLabels, PopLabels,
      DtorLabels
<1>6. Phases'
  BY DEF PopNext, Goto, Typed, Phases, Freeing, sanVars
<1> QED BY <1>2, <1>3, <1>4, <1>5, <1>6 DEF Typed

LEMMA PopCasTyped ==
  ASSUME Hypotheses, Typed, NEW t \in Threads, PopCas(t)
  PROVE  Typed'
<1>1. SanTypeOK'
  BY SanSame DEF PopCas, Typed, TypeOK
<1>2. TypeOK'
  <2>1. CASE head_ # new[t]
    BY <1>1, <2>1, PopLoopTyped DEF PopCas, Typed, TypeOK, program
  <2>2. CASE head_ = new[t]
    BY <1>1, <2>2 DEF PopCas, Typed, TypeOK, program, Goto, Set, PopLabels
  <2> QED BY <2>1, <2>2
<1>3. Frames'
  BY MainAssumption DEF PopCas, PopLoop, Caller, Leave, Goto, Typed, TypeOK,
      Frames, sanVars
<1>4. Locals'
  BY DEF PopCas, PopLoop, Caller, Goto, Set, Typed, TypeOK, Locals, HasOri,
      PopLabels
<1>5. Roles'
  BY MainAssumption DEF PopCas, PopLoop, Caller, Leave, Goto, Typed, TypeOK,
      Roles, program, PushLabels, DtorLabels
<1>6. Phases'
  BY MainAssumption DEF PopCas, PopLoop, Caller, Leave, Goto, Typed, TypeOK,
      Phases, Freeing, sanVars
<1> QED BY <1>2, <1>3, <1>4, <1>5, <1>6 DEF Typed

LEMMA PopSwapTyped ==
  ASSUME Hypotheses, Typed, NEW t \in Threads, PopSwap(t)
  PROVE  Typed'
<1>1. SanTypeOK'
  BY SanSame DEF PopSwap, Typed, TypeOK
<1>2. TypeOK'
  BY <1>1 DEF PopSwap, Goto, Set, Typed, TypeOK, Ptr, Locals, HasOri, program,
      PopLabels
<1>3. Frames'
  BY DEF PopSwap, Goto, Typed, Frames, sanVars
<1>4. Locals'
  BY DEF PopSwap, Goto, Set, Typed, Locals, HasOri, PopLabels
<1>5. Roles'
  BY DEF PopSwap, Goto, Typed, Roles, program, PushLabels, PopLabels,
      DtorLabels
<1>6. Phases'
  BY DEF PopSwap, Goto, Typed, Phases, Freeing, sanVars
<1> QED BY <1>2, <1>3, <1>4, <1>5, <1>6 DEF Typed

LEMMA PopSizeTyped ==
  ASSUME Hypotheses, Typed, NEW t \in Threads, PopSize(t)
  PROVE  Typed'
<1>1. SanTypeOK'
  BY SanSame DEF PopSize, Typed, TypeOK
<1>2. TypeOK'
  BY <1>1, SizeModAssumption DEF PopSize, Goto, Typed, TypeOK, program,
      PopLabels
<1>3. Frames'
  BY DEF PopSize, Goto, Typed, Frames, sanVars
<1>4. Locals'
  BY DEF PopSize, Goto, Typed, Locals, HasOri, PopLabels
<1>5. Roles'
  BY DEF PopSize, Goto, Typed, Roles, program, PushLabels, PopLabels,
      DtorLabels
<1>6. Phases'
  BY DEF PopSize, Goto, Typed, Phases, Freeing, sanVars
<1> QED BY <1>2, <1>3, <1>4, <1>5, <1>6 DEF Typed

LEMMA PopResetTyped ==
  ASSUME Hypotheses, Typed, NEW t \in Threads, PopReset(t)
  PROVE  Typed'
<1>1. SanTypeOK'
  BY ResetSan DEF PopReset, Typed, TypeOK, SanTypeOK
<1>2. TypeOK'
  BY <1>1 DEF PopReset, Goto, Typed, TypeOK, program, PopLabels
<1>3. Frames'
  BY DEF PopReset, Goto, Typed, Frames
<1>4. Locals'
  BY DEF PopReset, Goto, Typed, Locals, HasOri, PopLabels
<1>5. Roles'
  BY DEF PopReset, Goto, Typed, Roles, program, PushLabels, PopLabels,
      DtorLabels
<1>6. Phases'
  BY DEF PopReset, Goto, Typed, Phases, Freeing
<1> QED BY <1>2, <1>3, <1>4, <1>5, <1>6 DEF Typed

LEMMA PopReleaseTyped ==
  ASSUME Hypotheses, Typed, NEW t \in Threads, PopRelease(t)
  PROVE  Typed'
<1>1. SanTypeOK'
  <2>1. [NoDel EXCEPT !.pc = "scan", !.node = ori[t]] \in Frame
    BY NoDelTyped DEF Typed, TypeOK, Frame
  <2>2. del' \in [Agents -> Frame]
    BY <2>1, FrameTyped DEF PopRelease, StartRelease, Agents, Typed, TypeOK
  <2> QED BY <2>2, ResetSan DEF PopRelease, Typed, TypeOK, SanTypeOK
<1>2. TypeOK'
  BY <1>1 DEF PopRelease, Goto, Typed, TypeOK, program, PopLabels
<1>3. Frames'
  BY DEF PopRelease, StartRelease, NoDel, Goto, Typed, TypeOK, Frames, Locals,
      HasOri, PopLabels
<1>4. Locals'
  BY DEF PopRelease, Goto, Typed, Locals, HasOri, PopLabels
<1>5. Roles'
  BY DEF PopRelease, Goto, Typed, Roles, program, PushLabels, PopLabels,
      DtorLabels
<1>6. Phases'
  BY BackAssumption DEF PopRelease, StartRelease, Goto, Typed, Phases, Freeing
<1> QED BY <1>2, <1>3, <1>4, <1>5, <1>6 DEF Typed

LEMMA PopReturnTyped ==
  ASSUME Hypotheses, Typed, NEW t \in Threads, PopReturn(t)
  PROVE  Typed'
<1>1. SanTypeOK'
  BY SanSame DEF PopReturn, Typed, TypeOK
<1>2. TypeOK'
  BY <1>1 DEF PopReturn, Caller, Leave, Goto, Set, Typed, TypeOK, Ptr,
      program, DtorLabels
<1>3. Frames'
  BY DEF PopReturn, Releasing, Leave, Goto, Typed, Frames, sanVars
<1>4. Locals'
  BY DEF PopReturn, Caller, Leave, Goto, Set, Typed, TypeOK, Locals, HasOri,
      PopLabels
<1>5. Roles'
  BY DEF PopReturn, Caller, Leave, Goto, Typed, Roles, program, PushLabels,
      PopLabels, DtorLabels
<1>6. Phases'
  BY DEF PopReturn, Caller, Leave, Goto, Typed, Phases, Freeing, sanVars
<1> QED BY <1>2, <1>3, <1>4, <1>5, <1>6 DEF Typed

LEMMA BackWakeTyped ==
  ASSUME Hypotheses, Typed, BackWake, UNCHANGED <<head_, size_, data, locals>>
  PROVE  Typed'
<1>1. SanTypeOK'
  <2>1. [NoDel EXCEPT !.pc = "exchange"] \in Frame
    BY NoDelTyped DEF Frame
  <2>2. del' \in [Agents -> Frame]
    BY <2>1, FrameTyped DEF BackWake, Typed, TypeOK, Agents
  <2> QED BY <2>2 DEF BackWake, Typed, TypeOK, SanTypeOK, hazards
<1>2. TypeOK'
  BY <1>1 DEF BackWake, locals, Typed, TypeOK, program
<1>3. Frames'
  BY BackAssumption DEF BackWake, NoDel, locals, Typed, Frames
<1>4. Locals'
  BY DEF BackWake, locals, Typed, Locals
<1>5. Roles'
  BY DEF BackWake, locals, Typed, Roles, program
<1>6. Phases'
  BY DEF BackWake, locals, Typed, Phases, Freeing
<1> QED BY <1>2, <1>3, <1>4, <1>5, <1>6 DEF Typed

LEMMA DestroyTyped ==
  ASSUME Hypotheses, Typed, Destroy
  PROVE  Typed'
<1>1. SanTypeOK'
  BY SanSame DEF Destroy, Typed, TypeOK
<1>2. TypeOK'
  BY <1>1 DEF Destroy, Goto, Typed, TypeOK, program, DtorLabels
<1>3. Frames'
  BY DEF Destroy, Quiet, Goto, Typed, TypeOK, Frames, sanVars
<1>4. Locals'
  BY DEF Destroy, Goto, Typed, Locals, HasOri, PopLabels
<1>5. Roles'
  BY DEF Destroy, Quiet, Goto, Typed, Roles, PushLabels, PopLabels
<1>6. Phases'
  BY DEF Destroy, Quiet, Goto, Typed, TypeOK, Phases, Freeing, sanVars
<1> QED BY <1>2, <1>3, <1>4, <1>5, <1>6 DEF Typed

LEMMA DtorLoopTyped ==
  ASSUME Hypotheses, Typed, DtorLoop
  PROVE  Typed'
<1>1. SanTypeOK'
  BY SanSame DEF DtorLoop, Typed, TypeOK
<1>2. TypeOK'
  BY <1>1 DEF DtorLoop, DtorStep, Goto, Typed, TypeOK, program, PopLabels
<1>3. Frames'
  BY DEF DtorLoop, DtorStep, Goto, Typed, Frames, sanVars
<1>4. Locals'
  BY DEF DtorLoop, DtorStep, Goto, Typed, Locals, HasOri
<1>5. Roles'
  BY DEF DtorLoop, DtorStep, Goto, Typed, Roles, PushLabels, PopLabels
<1>6. Phases'
  BY DEF DtorLoop, DtorStep, Goto, Typed, Phases, Freeing, sanVars
<1> QED BY <1>2, <1>3, <1>4, <1>5, <1>6 DEF Typed

LEMMA DtorStopTyped ==
  ASSUME Hypotheses, Typed, DtorStop
  PROVE  Typed'
<1>1. SanTypeOK'
  BY DEF DtorStop, StopBack, Typed, TypeOK, SanTypeOK, hazards, sanVars
<1>2. TypeOK'
  BY <1>1 DEF DtorStop, DtorStep, Goto, Typed, TypeOK, program, DtorLabels
<1>3. Frames'
  BY DEF DtorStop, DtorStep, StopBack, Goto, Typed, TypeOK, Frames, sanVars
<1>4. Locals'
  BY DEF DtorStop, DtorStep, Goto, Typed, TypeOK, Locals, HasOri, PopLabels
<1>5. Roles'
  BY DEF DtorStop, DtorStep, Goto, Typed, TypeOK, Roles, PushLabels, PopLabels
<1>6. Phases'
  BY MainAssumption DEF DtorStop, DtorStep, StopBack, Goto, Typed, TypeOK,
      Phases, Freeing, sanVars
<1> QED BY <1>2, <1>3, <1>4, <1>5, <1>6 DEF Typed

LEMMA DtorJoinTyped ==
  ASSUME Hypotheses, Typed, DtorJoin
  PROVE  Typed'
<1>1. SanTypeOK'
  BY SanSame DEF DtorJoin, JoinBack, Typed, TypeOK
<1>2. TypeOK'
  BY <1>1 DEF DtorJoin, DtorStep, Goto, Typed, TypeOK, program, DtorLabels
<1>3. Frames'
  BY DEF DtorJoin, DtorStep, JoinBack, Goto, Typed, Frames, sanVars
<1>4. Locals'
  BY DEF DtorJoin, DtorStep, Goto, Typed, Locals, HasOri, PopLabels
<1>5. Roles'
  BY DEF DtorJoin, DtorStep, Goto, Typed, Roles, PushLabels, PopLabels
<1>6. Phases'
  BY DEF DtorJoin, DtorStep, JoinBack, Goto, Typed, Phases, Freeing, sanVars
<1> QED BY <1>2, <1>3, <1>4, <1>5, <1>6 DEF Typed

LEMMA DtorTakeTyped ==
  ASSUME Hypotheses, Typed, DtorTake
  PROVE  Typed'
<1>1. SanTypeOK'
  <2>0. del[Main] \in Frame /\ backward_deleting_list_ \in Ptr
    BY MainAssumption DEF Typed, TypeOK, SanTypeOK, Agents
  <2>1. [del[Main] EXCEPT !.rest = backward_deleting_list_] \in Frame
    BY <2>0 DEF Frame
  <2>2. del' = [del EXCEPT ![Main] = [del[Main] EXCEPT !.rest = backward_deleting_list_]]
    BY MainAssumption DEF DtorTake, DtorExchange, Typed, TypeOK, SanTypeOK, Agents
  <2>3. del' \in [Agents -> Frame]
    BY <2>1, <2>2, MainAssumption, FrameTyped DEF Typed, TypeOK, Agents
  <2> QED BY <2>3 DEF DtorTake, DtorExchange, Typed, TypeOK, SanTypeOK, hazards, Ptr
<1>2. TypeOK'
  BY <1>1 DEF DtorTake, DtorStep, Goto, Typed, TypeOK, program, DtorLabels
<1>3. Frames'
  BY MainAssumption DEF DtorTake, DtorStep, DtorExchange, Goto, Typed, TypeOK,
      Frames
<1>4. Locals'
  BY DEF DtorTake, DtorStep, Goto, Typed, Locals, HasOri, PopLabels
<1>5. Roles'
  BY DEF DtorTake, DtorStep, Goto, Typed, Roles, PushLabels, PopLabels
<1>6. Phases'
  BY DEF DtorTake, DtorStep, DtorExchange, Goto, Typed, Phases
<1> QED BY <1>2, <1>3, <1>4, <1>5, <1>6 DEF Typed

LEMMA DtorDeleteTyped ==
  ASSUME Hypotheses, Typed, DtorDelete
  PROVE  Typed'
<1>1. SanTypeOK'
  <2>0. Main \in Agents /\ del[Main] \in Frame
    BY MainAssumption DEF Typed, TypeOK, SanTypeOK, Agents
  <2>1. del[Main].rest \in Nodes
    BY <2>0 DEF DtorDelete, DtorFree, Frame, Ptr
  <2>2. [del[Main] EXCEPT !.rest = next_[del[Main].rest]] \in Frame
    BY <2>0, <2>1 DEF Typed, TypeOK, SanTypeOK, Frame
  <2>3. del' = [del EXCEPT ![Main] = [del[Main] EXCEPT !.rest = next_[del[Main].rest]]]
    BY <2>0 DEF DtorDelete, DtorFree, Typed, TypeOK, SanTypeOK
  <2>4. del' \in [Agents -> Frame]
    BY <2>0, <2>2, <2>3, FrameTyped DEF Typed, TypeOK
  <2> QED BY <2>4 DEF DtorDelete, DtorFree, Typed, TypeOK, SanTypeOK, hazards
<1>2. TypeOK'
  BY <1>1 DEF DtorDelete, DtorStep, Goto, Typed, TypeOK, program
<1>3. Frames'
  BY MainAssumption DEF DtorDelete, DtorStep, DtorFree, Goto, Typed, Frames
<1>4. Locals'
  BY DEF DtorDelete, DtorStep, Goto, Typed, Locals
<1>5. Roles'
  BY DEF DtorDelete, DtorStep, Goto, Typed, Roles, PushLabels, PopLabels
<1>6. Phases'
  BY DEF DtorDelete, DtorStep, DtorFree, Goto, Typed, Phases
<1> QED BY <1>2, <1>3, <1>4, <1>5, <1>6 DEF Typed

LEMMA DtorEndTyped ==
  ASSUME Hypotheses, Typed, DtorEnd
  PROVE  Typed'
<1>1. SanTypeOK'
  BY SanSame DEF DtorEnd, Typed, TypeOK
<1>2. TypeOK'
  BY <1>1 DEF DtorEnd, DtorStep, Goto, Typed, TypeOK, program, DtorLabels
<1>3. Frames'
  BY DEF DtorEnd, DtorStep, Goto, Typed, Frames, sanVars
<1>4. Locals'
  BY DEF DtorEnd, DtorStep, Goto, Typed, Locals, HasOri, PopLabels
<1>5. Roles'
  BY DEF DtorEnd, DtorStep, Goto, Typed, Roles, PushLabels, PopLabels
<1>6. Phases'
  BY DEF DtorEnd, DtorStep, Goto, Typed, Phases, Freeing, sanVars
<1> QED BY <1>2, <1>3, <1>4, <1>5, <1>6 DEF Typed

(* The steps of a deletion, for a thread at the end of its Pop or the         *)
(* background thread.                                                         *)
LEMMA DeleteTyped ==
  ASSUME Hypotheses, Typed, NEW a \in Agents, DeleteStep(a), UNCHANGED <<head_, size_, data, locals>>,
         a = Back \/ pc[a] = "pop_return"
  PROVE  Typed'
<1>1. SanTypeOK'
  BY DeleteSan DEF Typed, TypeOK
<1>2. TypeOK'
  BY <1>1 DEF Typed, TypeOK, locals, program
<1>3. Frames'
  <2>1. CASE ScanMiss(a)
    BY <2>1 DEF ScanMiss, locals, Typed, Frames
  <2>2. CASE ScanHit(a)
    BY <2>2 DEF ScanHit, locals, Typed, Frames
  <2>3. CASE ImmediateDelete(a)
    BY <2>3 DEF ImmediateDelete, AfterDelete, NoDel, locals, Typed, Frames
  <2>4. CASE DelayLoad(a)
    BY <2>4 DEF DelayLoad, locals, Typed, Frames
  <2>5. CASE DelayLink(a)
    BY <2>5 DEF DelayLink, locals, Typed, Frames
  <2>6. CASE DelayCas(a)
    <3>1. del[a].pc = "cas" /\ del \in [Agents -> Frame] /\ pc' = pc
      BY <2>6 DEF DelayCas, Typed, TypeOK, SanTypeOK, locals
    <3>2. CASE backward_deleting_list_ = del[a].ori
      <4>1. del' = [del EXCEPT ![a] = AfterDelete(a)]
        BY <2>6, <3>2 DEF DelayCas
      <4> QED BY <3>1, <4>1, BackAssumption DEF AfterDelete, NoDel, Typed, Frames, Agents
    <3>3. CASE backward_deleting_list_ # del[a].ori
      <4>1. del' = [del EXCEPT ![a] = [del[a] EXCEPT !.pc = "load", !.ori = NULL]]
        BY <2>6, <3>1, <3>3 DEF DelayCas
      <4>2. /\ del'[a].pc = "load" /\ del'[a].node = del[a].node
            /\ del'[a].rest = del[a].rest /\ del'[a].loop = del[a].loop
        BY <3>1, <4>1 DEF Frame
      <4> QED BY <3>1, <4>1, <4>2, BackAssumption DEF Typed, Frames, Agents
    <3> QED BY <3>2, <3>3
  <2>7. CASE BackExchange(a)
    BY <2>7 DEF BackExchange, NoDel, locals, Typed, Frames
  <2>8. CASE BackNext(a)
    BY <2>8 DEF BackNext, locals, Typed, Frames
  <2> QED BY <2>1, <2>2, <2>3, <2>4, <2>5, <2>6, <2>7, <2>8 DEF DeleteStep
<1>4. Locals'
  BY DEF Typed, Locals, locals
<1>5. Roles'
  BY DEF Typed, Roles, locals, program
<1>6. Phases'
  <2>1. CASE ScanMiss(a)
    BY <2>1 DEF ScanMiss, locals, Typed, Phases
  <2>2. CASE ScanHit(a)
    BY <2>2 DEF ScanHit, locals, Typed, Phases
  <2>3. CASE ImmediateDelete(a)
    BY <2>3 DEF ImmediateDelete, locals, Typed, Phases, Freeing
  <2>4. CASE DelayLoad(a)
    BY <2>4 DEF DelayLoad, locals, Typed, Phases
  <2>5. CASE DelayLink(a)
    BY <2>5 DEF DelayLink, locals, Typed, Phases
  <2>6. CASE DelayCas(a)
    BY <2>6 DEF DelayCas, locals, Typed, TypeOK, Phases, Roles, Freeing,
        SanTypeOK, Agents
  <2>7. CASE BackExchange(a)
    BY <2>7 DEF BackExchange, locals, Typed, Phases, Freeing
  <2>8. CASE BackNext(a)
    BY <2>8 DEF BackNext, locals, Typed, Phases, Freeing
  <2> QED BY <2>1, <2>2, <2>3, <2>4, <2>5, <2>6, <2>7, <2>8 DEF DeleteStep
<1> QED BY <1>2, <1>3, <1>4, <1>5, <1>6 DEF Typed

(* The types and these facts hold in every state.                             *)
LEMMA TypedInit == ASSUME Init PROVE Typed
<1>1. SanTypeOK
  <2>1. hps \in [SlotIds -> [0 .. Sz - 1 -> Ptr]] /\ pos \in [SlotIds -> 0 .. Sz - 1]
    BY DEF Init, SanInit, Ptr, Sz
  <2> QED BY <2>1, NoDelTyped, UsesAssumption DEF Init, SanInit, SanTypeOK, Ptr
<1>2. 0 \in 0 .. SizeMod - 1 /\ use.pushes \in Nat
  BY SizeModAssumption, UsesAssumption DEF Init
<1>3. TypeOK
  BY <1>1, <1>2 DEF Init, TypeOK, Ptr
<1>4. \A t \in Threads : pc[t] = "idle"
  BY DEF Init
<1>5. \A a \in Agents : del[a] = NoDel
  BY DEF Init, SanInit
<1>6. Frames
  BY <1>4, <1>5 DEF Frames, NoDel, Agents
<1>7. Locals /\ Roles
  BY <1>4, MainAssumption DEF Locals, Roles, HasOri, PushLabels, PopLabels, DtorLabels
<1>8. Phases
  BY <1>4, <1>5, MainAssumption DEF Phases, NoDel, Agents, Freeing
<1> QED BY <1>3, <1>6, <1>7, <1>8 DEF Typed

(* Nothing changes when no variable does.                                     *)
LEMMA StutterTyped == ASSUME Typed, UNCHANGED vars PROVE Typed'
<1>1. SanTypeOK'
  BY SanSame DEF Typed, TypeOK, vars
<1> QED BY <1>1 DEF Typed, TypeOK, Frames, Locals, Roles, Phases, vars, sanVars, locals, program

(* A thread that is in a deletion is at the end of its Pop.                   *)
LEMMA DeletingThread ==
  ASSUME Typed, NEW t \in Threads, DeleteStep(t)
  PROVE  pc[t] = "pop_return"
  BY DEF DeleteStep, ScanMiss, ScanHit, ImmediateDelete, DelayLoad, DelayLink, DelayCas,
         BackExchange, BackNext, Typed, Frames

(* The steps of a thread.                                                     *)
LEMMA StepTyped ==
  ASSUME Hypotheses, Typed, NEW t \in Threads, Call(t) \/ Step(t)
  PROVE  Typed'
<1>1. CASE Call(t)
  BY <1>1, PushCallTyped, PopCallTyped DEF Call
<1>2. CASE PushLoad(t) \/ PushNew(t) \/ PushCas(t) \/ PushReload(t) \/ PushSize(t)
  BY <1>2, PushLoadTyped, PushNewTyped, PushCasTyped, PushReloadTyped, PushSizeTyped
<1>3. CASE PopLoad(t) \/ PopAccess(t) \/ PopRecheck(t) \/ PopNext(t) \/ PopCas(t)
  BY <1>3, PopLoadTyped, PopAccessTyped, PopRecheckTyped, PopNextTyped, PopCasTyped
<1>4. CASE PopSwap(t) \/ PopSize(t) \/ PopReset(t) \/ PopRelease(t) \/ PopReturn(t)
  BY <1>4, PopSwapTyped, PopSizeTyped, PopResetTyped, PopReleaseTyped, PopReturnTyped
<1>5. CASE Deletion(t)
  <2>1. t \in Agents /\ pc[t] = "pop_return"
    BY <1>5, DeletingThread DEF Deletion, Agents
  <2> QED BY <1>5, <2>1, DeleteTyped DEF Deletion
<1> QED BY <1>1, <1>2, <1>3, <1>4, <1>5 DEF Step

(* All steps.                                                                 *)
LEMMA NextTyped ==
  ASSUME Hypotheses, Typed, [Next]_vars
  PROVE  Typed'
<1>1. CASE \E t \in Threads : Call(t) \/ Step(t)
  BY <1>1, StepTyped
<1>2. CASE BackStep
  <2>1. Back \in Agents
    BY DEF Agents
  <2> QED BY <1>2, <2>1, BackWakeTyped, DeleteTyped DEF BackStep, Deletion
<1>3. CASE Destroy \/ Destructor
  BY <1>3, DestroyTyped, DtorLoopTyped, DtorStopTyped, DtorJoinTyped, DtorTakeTyped,
     DtorDeleteTyped, DtorEndTyped DEF Destructor
<1>4. CASE UNCHANGED vars
  BY <1>4, StutterTyped
<1> QED BY <1>1, <1>2, <1>3, <1>4 DEF Next

-----------------------------------------------------------------------------
(* What the parts of the invariant say, and what keeps them.                  *)

(* A thread in a Pop has a slot that no other thread writes.                  *)
LEMMA SlotOfPop ==
  ASSUME Hypotheses, Typed, NEW t \in Threads, pc[t] \in PopLabels
  PROVE  SlotOf[t] \in SlotIds /\ \A s \in Threads \ {t} : SlotOf[s] # SlotOf[t]
<1>1. use \in Uses /\ t \in use.consumers \cup {Main}
  BY DEF Typed, TypeOK, Roles
<1>2. SlotOf[t] # 0 /\ \A s \in Threads \ {t} : SlotOf[s] # SlotOf[t]
  BY <1>1 DEF Hypotheses, OwnSlots
<1> QED BY <1>2, SlotAssumption DEF SlotIds

(* Only one thread is in a Push.                                              *)
LEMMA OnePush ==
  ASSUME Hypotheses, Typed, NEW s \in Threads, NEW t \in Threads,
         pc[s] \in PushLabels, pc[t] \in PushLabels
  PROVE  s = t
  BY DEF Hypotheses, OneProducer, Typed, TypeOK, Roles

(* The stores of a thread leave the slots of the others as they are.          *)
LEMMA StoreElsewhere ==
  ASSUME Hypotheses, Typed, NEW t \in Threads, NEW s \in Threads, s # t,
         pc[s] \in PopLabels,
         ResetFirst(t) \/ ResetLast(t) \/ \E n \in Ptr : StorePtr(t, n)
  PROVE  hps'[SlotOf[s]] = hps[SlotOf[s]]
<1>1. SlotOf[s] \in SlotIds /\ SlotOf[t] # SlotOf[s]
  BY SlotOfPop
<1> QED BY <1>1 DEF ResetFirst, ResetLast, StorePtr, hazards, Typed, TypeOK, SanTypeOK

(* The store of access is in one of the cells of the thread.                  *)
LEMMA StoreHere ==
  ASSUME Typed, NEW t \in Threads, NEW n \in Ptr, n # NULL, SlotOf[t] \in SlotIds, StorePtr(t, n)
  PROVE  \E k \in 0 .. Sz - 1 : hps'[SlotOf[t]][k] = n
<1>1. PICK s \in SlotIds : s = SlotOf[t]
  OBVIOUS
<1>2. s # 0
  BY SlotAssumption DEF SlotIds
<1>3. PICK k \in 0 .. Sz - 1 : k = pos[s]
  BY DEF Typed, TypeOK, SanTypeOK
<1>4. hps' = [hps EXCEPT ![s][k] = n]
  BY <1>1, <1>2, <1>3 DEF StorePtr
<1>5. hps'[s][k] = n
  BY <1>4 DEF Typed, TypeOK, SanTypeOK
<1> QED BY <1>1, <1>5

(* The nodes and their lists, where no step writes to them.                   *)
Nodewise(K, O, R) ==
  /\ Book(K, O, R) /\ StackList(K, R) /\ DelayedList(K, R) /\ RestLists(K, O, R) /\ InHands(K, O)

(* They stay as they are when nothing they speak of changes.                  *)
LEMMA NodesSame ==
  ASSUME NEW K, NEW O, NEW R, Nodewise(K, O, R),
         UNCHANGED <<allocated, next_, head_, backward_deleting_list_, del>>
  PROVE  Nodewise(K, O, R)'
  BY DEF Nodewise, Book, StackList, DelayedList, RestLists, InHands

(* The size, while no thread goes to or comes from where it is wrong.         *)
LEMMA CountSame ==
  ASSUME NEW K, NEW J, At(J, "list") = At(K, "list"), Counted(K), size_' = size_,
         \A t \in Threads : /\ pc'[t] = "push_size" <=> pc[t] = "push_size"
                            /\ pc'[t] \in {"pop_swap", "pop_size"} <=> pc[t] \in {"pop_swap", "pop_size"}
  PROVE  Counted(J)'
<1>1. Adding' = Adding /\ Taking' = Taking
  BY DEF Adding, Taking
<1> QED BY <1>1 DEF Counted, At

(* The three steps of Pop that write hazard pointers or rely on them: the     *)
(* store is in one of the thread's cells; a recheck that succeeds finds the   *)
(* node in the list, so nobody is deleting it and no scan for it has begun;   *)
(* reset clears the cells of a thread that no longer needs them.              *)
LEMMA PopAccessGuards ==
  ASSUME Hypotheses, Typed, NEW K, NEW O, NEW R, Inv(K, O, R),
         NEW t \in Threads, PopAccess(t)
  PROVE Guarding(K)'
<1>0. pc[t] = "pop_access" /\ ori[t] \in Ptr /\ ori[t] # NULL /\ SlotOf[t] \in SlotIds
  BY SlotOfPop DEF PopAccess, Typed, TypeOK, Locals, HasOri, PopLabels
<1>1. /\ pc' = [pc EXCEPT ![t] = "pop_recheck"] /\ pc \in [Threads -> {pc[u] : u \in Threads}]
      /\ StorePtr(t, ori[t]) /\ UNCHANGED <<next_, del, ori, new, nxt>>
  BY DEF PopAccess, Goto, Typed, TypeOK
<1>2. \E k \in 0 .. Sz - 1 : hps'[SlotOf[t]][k] = ori[t]
  BY <1>0, <1>1, StoreHere
<1>3. ASSUME NEW u \in Threads, u # t, pc[u] \in PopLabels PROVE hps'[SlotOf[u]] = hps[SlotOf[u]]
  BY <1>0, <1>1, <1>3, StoreElsewhere
<1>4. \A u \in Threads : u # t => pc'[u] = pc[u]
  BY <1>1
<1>5. pc'[t] = "pop_recheck"
  BY <1>0, <1>1 DEF Typed, TypeOK
<1>6. Guarding(K)
  BY DEF Inv
<1> QED BY <1>1, <1>2, <1>3, <1>4, <1>5, <1>6 DEF Guarding, Protects, PopLabels

LEMMA PopRecheckGuards ==
  ASSUME Hypotheses, Typed, NEW K, NEW O, NEW R, Inv(K, O, R),
         NEW t \in Threads, PopRecheck(t)
  PROVE Guarding(K)'
<1>0. pc[t] = "pop_recheck"
  BY DEF PopRecheck
<1>1. CASE head_ # ori[t]
  BY <1>1 DEF PopRecheck, PopLoop, Caller, Leave, Goto, Set, Inv, Typed, TypeOK, Guarding, Protects, sanVars, hazards
<1>2. CASE head_ = ori[t]
  <2>1. /\ pc' = [pc EXCEPT ![t] = "pop_next"] /\ new' = [new EXCEPT ![t] = head_]
        /\ UNCHANGED <<hps, del, next_, ori, nxt>>
    BY <1>2 DEF PopRecheck, Goto, Set, sanVars
  <2>2. head_ \in Nodes /\ K[head_] = "list"
    <3>1. head_ # NULL
      BY <1>0, <1>2 DEF Typed, Locals, HasOri, PopLabels
    <3> QED BY <3>1 DEF Inv, StackList, IsList, At
  <2>3. \A a \in Agents : del[a].node # head_
    BY <2>2 DEF Inv, InHands
  <2>4. \E k \in 0 .. Sz - 1 : hps[SlotOf[t]][k] = head_
    BY <1>0, <1>2 DEF Inv, Guarding
  <2>5. pc'[t] = "pop_next" /\ new'[t] = head_ /\ \A u \in Threads : u # t => pc'[u] = pc[u] /\ new'[u] = new[u]
    BY <2>1 DEF Typed, TypeOK
  <2>6. \E k \in 0 .. Sz - 1 : Protects(t, k)'
    BY <2>1, <2>3, <2>4, <2>5 DEF Protects
  <2>7. Guarding(K)
    BY DEF Inv
  <2> QED BY <2>1, <2>2, <2>5, <2>6, <2>7 DEF Guarding, Protects
<1> QED BY <1>1, <1>2

LEMMA PopResetGuards ==
  ASSUME Hypotheses, Typed, NEW K, NEW O, NEW R, Inv(K, O, R),
         NEW t \in Threads, PopReset(t)
  PROVE Guarding(K)'
<1>1. /\ pc[t] = "pop_reset" /\ pc' = [pc EXCEPT ![t] = "pop_release"] 
      /\ ResetFirst(t) /\ UNCHANGED <<next_, del, ori, new, nxt>>
  BY DEF PopReset, Goto
<1>2. ASSUME NEW u \in Threads, u # t, pc[u] \in PopLabels PROVE hps'[SlotOf[u]] = hps[SlotOf[u]]
  BY <1>1, <1>2, StoreElsewhere
<1>3. pc'[t] = "pop_release" /\ \A u \in Threads : u # t => pc'[u] = pc[u]
  BY <1>1 DEF Typed, TypeOK
<1>4. Guarding(K)
  BY DEF Inv
<1> QED BY <1>1, <1>2, <1>3, <1>4 DEF Guarding, Protects, PopLabels

-----------------------------------------------------------------------------
(* Counting modulo SizeMod.                                                   *)

(* Multiplication, in the forms in which the proofs below need it.            *)
LEMMA Distribute ==
  ASSUME NEW m \in Int, NEW k \in Int, NEW l \in Int
  PROVE  m * (k + l) = m * k + m * l
  BY Z3

(* The only multiple of m between -m and m is 0.                              *)
LEMMA SmallMultiple ==
  ASSUME NEW m \in Nat \ {0}, NEW q \in Int, -m < m * q, m * q < m
  PROVE  q = 0
  BY Z3

(* Division with a remainder.  Rem hides the operator from the provers, which *)
(* otherwise reason about it themselves and find nothing.                     *)
Rem(a, m) == a % m

(* There are a quotient and a remainder.                                      *)
LEMMA Division ==
  ASSUME NEW a \in Int, NEW m \in Nat \ {0}
  PROVE  \E q \in Int, r \in 0..(m - 1) : a = m * q + r /\ Rem(a, m) = r
<1>1. a % m \in 0..(m - 1) /\ a \div m \in Int /\ a = m * (a \div m) + (a % m)
  OBVIOUS
<1> QED BY <1>1 DEF Rem

(* The remainder is the only one.                                             *)
LEMMA RemIs ==
  ASSUME NEW a \in Int, NEW m \in Nat \ {0}, NEW q \in Int, NEW r \in 0..(m - 1), a = m * q + r
  PROVE  Rem(a, m) = r
<1>1. PICK k \in Int, s \in 0..(m - 1) : a = m * k + s /\ Rem(a, m) = s
  BY Division
<1>2. PICK d \in Int : k = q + d
  <2>1. k - q \in Int /\ k = q + (k - q)
    OBVIOUS
  <2> QED BY <2>1
<1>3. m * d = r - s
  <2>1. m * k = m * q + m * d
    BY <1>2, Distribute
  <2> QED BY <1>1, <2>1
<1>4. d = 0
  BY <1>3, SmallMultiple
<1> QED BY <1>1, <1>2, <1>4

(* A remainder taken before adding makes no difference.                       *)
LEMMA RemPlusRem ==
  ASSUME NEW m \in Nat \ {0}, NEW a \in Int, NEW b \in Int
  PROVE  Rem(Rem(a, m) + b, m) = Rem(a + b, m)
<1>1. PICK k \in Int, r \in 0..(m - 1) : a = m * k + r /\ Rem(a, m) = r
  BY Division
<1>2. PICK c \in Int : c = r + b
  OBVIOUS
<1>3. PICK l \in Int, s \in 0..(m - 1) : c = m * l + s /\ Rem(c, m) = s
  BY Division
<1>4. PICK d \in Int, q \in Int : d = a + b /\ q = k + l
  OBVIOUS
<1>5. d = m * q + s
  <2>1. m * q = m * k + m * l
    BY <1>4, Distribute
  <2> QED BY <1>1, <1>2, <1>3, <1>4, <2>1
<1>6. Rem(d, m) = s
  BY <1>5, RemIs
<1> QED BY <1>1, <1>2, <1>3, <1>4, <1>6


(* Adding to a size that has wrapped.                                         *)
LEMMA SizePlus ==
  ASSUME NEW x \in Int, NEW b \in Int
  PROVE  ((x % SizeMod) + b) % SizeMod = (x + b) % SizeMod
<1>1. Rem(Rem(x, SizeMod) + b, SizeMod) = Rem(x + b, SizeMod)
  BY RemPlusRem, SizeModAssumption
<1> QED BY <1>1 DEF Rem

(* The numbers that are counted.                                              *)
LEMMA Counts ==
  ASSUME Hypotheses, NEW K
  PROVE  /\ IsFiniteSet(At(K, "list")) /\ Cardinality(At(K, "list")) \in Nat
         /\ IsFiniteSet(Taking) /\ Cardinality(Taking) \in Nat
         /\ IsFiniteSet(Adding) /\ Cardinality(Adding) \in Nat
<1>1. At(K, "list") \subseteq Nodes /\ Taking \subseteq Threads /\ Adding \subseteq Threads
  BY DEF At, Taking, Adding
<1> QED BY <1>1, FS_Subset, FS_CardinalityType DEF Hypotheses, FiniteSystem

(* The size is written by the thread that has added a node or taken one.      *)
LEMMA CountAdd ==
  ASSUME Hypotheses, NEW K, Counted(K), NEW t \in Adding,
         size_' = (size_ + 1) % SizeMod, Adding' = Adding \ {t}, Taking' = Taking
  PROVE  Counted(K)'
<1>1. Cardinality(Adding \ {t}) = Cardinality(Adding) - 1
  BY Counts, FS_RemoveElement
<1>2. PICK l, k, m \in Int : /\ l = Cardinality(At(K, "list")) /\ k = Cardinality(Taking)
                             /\ m = Cardinality(Adding)
  BY Counts
<1>3. size_ = (l + k - m) % SizeMod
  BY <1>2 DEF Counted
<1>4. size_' = ((l + k - m) + 1) % SizeMod
  BY <1>3, SizePlus
<1>5. (l + k - m) + 1 = l + k - (m - 1)
  OBVIOUS
<1>6. At(K, "list")' = At(K, "list")
  BY DEF At
<1> QED BY <1>1, <1>2, <1>4, <1>5, <1>6 DEF Counted

(* The same of the thread whose fetch_sub it is.                              *)
LEMMA CountSub ==
  ASSUME Hypotheses, NEW K, Counted(K), NEW t \in Taking,
         size_' = (size_ - 1) % SizeMod, Taking' = Taking \ {t}, Adding' = Adding
  PROVE  Counted(K)'
<1>1. Cardinality(Taking \ {t}) = Cardinality(Taking) - 1
  BY Counts, FS_RemoveElement
<1>2. PICK l, k, m \in Int : /\ l = Cardinality(At(K, "list")) /\ k = Cardinality(Taking)
                             /\ m = Cardinality(Adding)
  BY Counts
<1>3. size_ = (l + k - m) % SizeMod
  BY <1>2 DEF Counted
<1>4. size_ - 1 = size_ + (-1)
  BY <1>3, SizeModAssumption
<1>5. size_' = ((l + k - m) + (-1)) % SizeMod
  BY <1>3, <1>4, SizePlus
<1>6. (l + k - m) + (-1) = l + (k - 1) - m
  OBVIOUS
<1>7. At(K, "list")' = At(K, "list")
  BY DEF At
<1> QED BY <1>1, <1>2, <1>5, <1>6, <1>7 DEF Counted

(* A node that comes to the list and the thread that has still to count it.   *)
LEMMA CountPush ==
  ASSUME Hypotheses, NEW K, NEW J, Counted(K), NEW n, n \notin At(K, "list"),
         At(J, "list") = At(K, "list") \cup {n},
         NEW t \in Threads \ Adding, size_' = size_, Adding' = Adding \cup {t}, Taking' = Taking
  PROVE  Counted(J)'
<1>1. Cardinality(Adding \cup {t}) = Cardinality(Adding) + 1
  BY Counts, FS_AddElement
<1>2. Cardinality(At(J, "list")) = Cardinality(At(K, "list")) + 1
  BY Counts, FS_AddElement
<1>3. PICK l, k, m \in Int : /\ l = Cardinality(At(K, "list")) /\ k = Cardinality(Taking)
                             /\ m = Cardinality(Adding)
  BY Counts
<1>4. size_ = (l + k - m) % SizeMod
  BY <1>3 DEF Counted
<1>5. l + k - m = (l + 1) + k - (m + 1)
  OBVIOUS
<1>6. At(J, "list")' = At(J, "list")
  BY DEF At
<1> QED BY <1>1, <1>2, <1>3, <1>4, <1>5, <1>6 DEF Counted

(* A node leaves the list before size_ says so.                               *)
LEMMA CountPop ==
  ASSUME Hypotheses, NEW K, NEW J, Counted(K), NEW n \in At(K, "list"),
         At(J, "list") = At(K, "list") \ {n},
         NEW t \in Threads \ Taking, size_' = size_, Taking' = Taking \cup {t}, Adding' = Adding
  PROVE  Counted(J)'
<1>1. Cardinality(Taking \cup {t}) = Cardinality(Taking) + 1
  BY Counts, FS_AddElement
<1>2. Cardinality(At(J, "list")) = Cardinality(At(K, "list")) - 1
  BY Counts, FS_RemoveElement
<1>3. PICK l, k, m \in Int : /\ l = Cardinality(At(K, "list")) /\ k = Cardinality(Taking)
                             /\ m = Cardinality(Adding)
  BY Counts
<1>4. size_ = (l + k - m) % SizeMod
  BY <1>3 DEF Counted
<1>5. l + k - m = (l - 1) + (k + 1) - m
  OBVIOUS
<1>6. At(J, "list")' = At(J, "list")
  BY DEF At
<1> QED BY <1>1, <1>2, <1>3, <1>4, <1>5, <1>6 DEF Counted

(* The fetch_add of Push and the fetch_sub of Pop.                            *)
LEMMA PushSizeCounted ==
  ASSUME Hypotheses, Typed, NEW K, Counted(K), NEW t \in Threads, PushSize(t)
  PROVE  Counted(K)'
<1>1. t \in Adding /\ Adding' = Adding \ {t} /\ Taking' = Taking
  BY DEF PushSize, Leave, Goto, Typed, TypeOK, Adding, Taking
<1>2. size_' = (size_ + 1) % SizeMod
  BY DEF PushSize
<1> QED BY <1>1, <1>2, CountAdd

LEMMA PopSizeCounted ==
  ASSUME Hypotheses, Typed, NEW K, Counted(K), NEW t \in Threads, PopSize(t)
  PROVE  Counted(K)'
<1>1. t \in Taking /\ Taking' = Taking \ {t} /\ Adding' = Adding
  BY DEF PopSize, Goto, Typed, TypeOK, Adding, Taking
<1>2. size_' = (size_ - 1) % SizeMod
  BY DEF PopSize
<1> QED BY <1>1, <1>2, CountSub

-----------------------------------------------------------------------------
(* A node that goes from one place to another.                                *)

(* The places, owners and ranks after a move: one node's is new.              *)
LEMMA MoveOne ==
  ASSUME NEW K \in [Nodes -> Kinds], NEW n \in Nodes, NEW k \in Kinds
  PROVE  \E J \in [Nodes -> Kinds] : J[n] = k /\ \A m \in Nodes : m # n => J[m] = K[m]
<1>1. PICK J : J = [K EXCEPT ![n] = k]
  OBVIOUS
<1> QED BY <1>1

LEMMA OwnOne ==
  ASSUME NEW O \in [Nodes -> Agents], NEW n \in Nodes, NEW a \in Agents
  PROVE  \E P \in [Nodes -> Agents] : P[n] = a /\ \A m \in Nodes : m # n => P[m] = O[m]
<1>1. PICK P : P = [O EXCEPT ![n] = a]
  OBVIOUS
<1> QED BY <1>1

LEMMA RankOne ==
  ASSUME NEW R \in [Nodes -> Nat], NEW n \in Nodes, NEW r \in Nat
  PROVE  \E Q \in [Nodes -> Nat] : Q[n] = r /\ \A m \in Nodes : m # n => Q[m] = R[m]
<1>1. PICK Q : Q = [R EXCEPT ![n] = r]
  OBVIOUS
<1> QED BY <1>1

(* The sets of nodes after a move.                                            *)
LEMMA AtMoved ==
  ASSUME NEW K, NEW J, NEW n \in Nodes, \A m \in Nodes : m # n => J[m] = K[m]
  PROVE  /\ \A x : x # K[n] /\ x # J[n] => At(J, x) = At(K, x)
         /\ J[n] # K[n] => /\ At(J, J[n]) = At(K, J[n]) \cup {n} /\ n \notin At(K, J[n])
                           /\ At(J, K[n]) = At(K, K[n]) \ {n} /\ n \in At(K, K[n])
  BY DEF At

(* The lists that a step leaves as they are.                                  *)
LEMMA KeepStack ==
  ASSUME NEW K, NEW R, NEW J, NEW Q, StackList(K, R), At(J, "list") = At(K, "list"),
         \A m \in At(K, "list") : Q[m] = R[m] /\ next_'[m] = next_[m], head_' = head_
  PROVE  StackList(J, Q)'
<1>1. IsList(At(K, "list"), Q, next_', head_)
  BY ListSame DEF StackList
<1>2. At(J, "list")' = At(K, "list")
  BY DEF At
<1> QED BY <1>1, <1>2 DEF StackList

(* The same of the delayed list.                                              *)
LEMMA KeepDelayed ==
  ASSUME NEW K, NEW R, NEW J, NEW Q, DelayedList(K, R), At(J, "delayed") = At(K, "delayed"),
         \A m \in At(K, "delayed") : Q[m] = R[m] /\ next_'[m] = next_[m],
         backward_deleting_list_' = backward_deleting_list_
  PROVE  DelayedList(J, Q)'
<1>1. IsList(At(K, "delayed"), Q, next_', backward_deleting_list_)
  BY ListSame DEF DelayedList
<1>2. At(J, "delayed")' = At(K, "delayed")
  BY DEF At
<1> QED BY <1>1, <1>2 DEF DelayedList

(* The same of the lists that agents have taken.                              *)
LEMMA KeepRests ==
  ASSUME NEW K, NEW O, NEW R, NEW J, NEW P, NEW Q, RestLists(K, O, R),
         \A a \in Agents : /\ RestOf(J, P, a) = RestOf(K, O, a) /\ del'[a].rest = del[a].rest
                           /\ \A m \in RestOf(K, O, a) : Q[m] = R[m] /\ next_'[m] = next_[m]
  PROVE  RestLists(J, P, Q)'
<1> SUFFICES ASSUME NEW a \in Agents PROVE IsList(RestOf(J, P, a), Q, next_', del'[a].rest)
  BY DEF RestLists, RestOf
<1>1. IsList(RestOf(K, O, a), R, next_, del[a].rest)
  BY DEF RestLists
<1> QED BY <1>1, ListSame

(* What a step that moves the node n leaves as it is.                         *)
Elsewhere(K, O, R, J, P, Q, n) ==
  \A m \in Nodes : m # n => J[m] = K[m] /\ P[m] = O[m] /\ Q[m] = R[m] /\ next_'[m] = next_[m]

(* The stack's list, when n is neither taken from it nor put into it.         *)
LEMMA StackElsewhere ==
  ASSUME NEW K, NEW O, NEW R, NEW J, NEW P, NEW Q, NEW n \in Nodes, StackList(K, R),
         Elsewhere(K, O, R, J, P, Q, n), K[n] # "list", J[n] # "list", head_' = head_
  PROVE  StackList(J, Q)'
<1>1. At(J, "list") = At(K, "list")
  BY DEF At, Elsewhere
<1>2. \A m \in At(K, "list") : Q[m] = R[m] /\ next_'[m] = next_[m]
  BY DEF At, Elsewhere
<1> QED BY <1>1, <1>2, KeepStack

(* The delayed list, when n is neither taken from it nor put into it.         *)
LEMMA DelayedElsewhere ==
  ASSUME NEW K, NEW O, NEW R, NEW J, NEW P, NEW Q, NEW n \in Nodes, DelayedList(K, R),
         Elsewhere(K, O, R, J, P, Q, n), K[n] # "delayed", J[n] # "delayed",
         backward_deleting_list_' = backward_deleting_list_
  PROVE  DelayedList(J, Q)'
<1>1. At(J, "delayed") = At(K, "delayed")
  BY DEF At, Elsewhere
<1>2. \A m \in At(K, "delayed") : Q[m] = R[m] /\ next_'[m] = next_[m]
  BY DEF At, Elsewhere
<1> QED BY <1>1, <1>2, KeepDelayed

(* The taken lists, likewise.                                                 *)
LEMMA RestsElsewhere ==
  ASSUME NEW K, NEW O, NEW R, NEW J, NEW P, NEW Q, NEW n \in Nodes, RestLists(K, O, R),
         Elsewhere(K, O, R, J, P, Q, n), K[n] # "rest", J[n] # "rest",
         \A a \in Agents : del'[a].rest = del[a].rest
  PROVE  RestLists(J, P, Q)'
<1>1. \A a \in Agents : RestOf(J, P, a) = RestOf(K, O, a)
  BY DEF RestOf, Elsewhere
<1>2. \A a \in Agents : \A m \in RestOf(K, O, a) : Q[m] = R[m] /\ next_'[m] = next_[m]
  BY DEF RestOf, Elsewhere
<1> QED BY <1>1, <1>2, KeepRests

(* The node in hand of an agent that has one.                                 *)
LEMMA HandOf ==
  ASSUME Typed, NEW K, NEW O, InHands(K, O), NEW a \in Agents,
         del[a].node # NULL
  PROVE  del[a].node \in Nodes /\ K[del[a].node] = "hand" /\ O[del[a].node] = a
<1>1. del[a].node \in Nodes
  BY DEF Typed, TypeOK, SanTypeOK, Frame, Ptr
<1> QED BY <1>1 DEF InHands

(* The place of a node that a Pop holds.                                      *)
LEMMA PopHolds ==
  ASSUME Typed, NEW K, NEW O, Popped(K, O), Guarding(K), NEW u \in Threads
  PROVE  /\ pc[u] \in {"pop_recheck"} \cup Limbo => ori[u] \in Nodes
         /\ pc[u] \in Limbo => K[ori[u]] = "limbo" /\ O[ori[u]] = u
         /\ pc[u] \in {"pop_next", "pop_cas"} => new[u] \in Nodes /\ K[new[u]] \notin {"free", "new"}
<1>1. pc[u] \in {"pop_recheck"} \cup Limbo => ori[u] \in Nodes
  BY DEF Typed, TypeOK, Locals, HasOri, PopLabels, Limbo, Ptr
<1>2. pc[u] \in Limbo => K[ori[u]] = "limbo" /\ O[ori[u]] = u
  BY <1>1 DEF Popped
<1>3. pc[u] \in {"pop_next", "pop_cas"} => new[u] \in Nodes /\ K[new[u]] \notin {"free", "new"}
  BY DEF Typed, TypeOK, Locals, HasOri, PopLabels, Ptr, Guarding
<1> QED BY <1>1, <1>2, <1>3

-----------------------------------------------------------------------------
(* The steps that move no node: each part of the invariant in turn.           *)

LEMMA PushCallInv ==
  ASSUME Hypotheses, Typed, NEW K, NEW O, NEW R, Inv(K, O, R),
         NEW t \in Threads, t \in use.producers, PushCall(t)
  PROVE  Inv(K, O, R)'
<1>1. Nodewise(K, O, R)'
  BY NodesSame DEF PushCall, Goto, Nodewise, Inv, sanVars
<1>2. Fresh(K, O)'
  BY DEF PushCall, Goto, Inv, Typed, Fresh
<1>3. Popped(K, O)'
  BY DEF PushCall, Goto, Inv, Typed, Popped, Limbo
<1>4. Producing(K)'
  BY DEF PushCall, Goto, Inv, Typed, Producing, sanVars
<1>5. Guarding(K)'
  BY DEF PushCall, Goto, Inv, Typed, Guarding, Protects, sanVars
<1>6. Filled(K)'
  BY DEF PushCall, Goto, Set, Inv, Typed, Filled
<1>7. Emptied'
  BY DEF PushCall, Goto, Inv, Typed, Emptied, Freeing
<1>8. Counted(K)'
  BY CountSame DEF PushCall, Goto, Inv, Typed
<1> QED BY <1>1, <1>2, <1>3, <1>4, <1>5, <1>6, <1>7, <1>8 DEF Inv, Nodewise

LEMMA PopCallInv ==
  ASSUME Hypotheses, Typed, NEW K, NEW O, NEW R, Inv(K, O, R),
         NEW t \in Threads, t \in use.consumers, PopCall(t)
  PROVE  Inv(K, O, R)'
<1>1. Nodewise(K, O, R)'
  BY NodesSame DEF PopCall, Goto, Nodewise, Inv, sanVars
<1>2. Fresh(K, O)'
  BY DEF PopCall, Goto, Inv, Typed, Fresh
<1>3. Popped(K, O)'
  BY DEF PopCall, Goto, Inv, Typed, Popped, Limbo
<1>4. Producing(K)'
  BY DEF PopCall, Goto, Inv, Typed, Producing, sanVars
<1>5. Guarding(K)'
  BY DEF PopCall, Goto, Inv, Typed, Guarding, Protects, sanVars
<1>6. Filled(K)'
  BY DEF PopCall, Goto, Inv, Typed, Filled
<1>7. Emptied'
  BY DEF PopCall, Goto, Inv, Typed, Emptied, Freeing
<1>8. Counted(K)'
  BY CountSame DEF PopCall, Goto, Inv, Typed
<1> QED BY <1>1, <1>2, <1>3, <1>4, <1>5, <1>6, <1>7, <1>8 DEF Inv, Nodewise

LEMMA PushLoadInv ==
  ASSUME Hypotheses, Typed, NEW K, NEW O, NEW R, Inv(K, O, R),
         NEW t \in Threads, PushLoad(t)
  PROVE  Inv(K, O, R)'
<1>1. Nodewise(K, O, R)'
  BY NodesSame DEF PushLoad, Goto, Nodewise, Inv, sanVars
<1>2. Fresh(K, O)'
  BY DEF PushLoad, Goto, Inv, Typed, Fresh
<1>3. Popped(K, O)'
  BY DEF PushLoad, Goto, Set, Inv, Typed, Popped, Limbo
<1>4. Producing(K)'
  BY DEF PushLoad, Goto, Set, Inv, Typed, TypeOK, Producing, sanVars
<1>5. Guarding(K)'
  BY DEF PushLoad, Goto, Set, Inv, Typed, Guarding, Protects, sanVars
<1>6. Filled(K)'
  BY DEF PushLoad, Goto, Set, Inv, Typed, Filled
<1>7. Emptied'
  BY DEF PushLoad, Goto, Inv, Typed, Emptied, Freeing
<1>8. Counted(K)'
  BY CountSame DEF PushLoad, Goto, Inv, Typed
<1> QED BY <1>1, <1>2, <1>3, <1>4, <1>5, <1>6, <1>7, <1>8 DEF Inv, Nodewise

LEMMA PushCasFailsInv ==
  ASSUME Hypotheses, Typed, NEW K, NEW O, NEW R, Inv(K, O, R),
         NEW t \in Threads, PushCas(t), head_ # ori[t]
  PROVE  Inv(K, O, R)'
<1>1. Nodewise(K, O, R)'
  BY NodesSame DEF PushCas, Goto, Nodewise, Inv, sanVars
<1>2. Fresh(K, O)'
  BY DEF PushCas, Goto, Inv, Typed, TypeOK, Fresh
<1>3. Popped(K, O)'
  BY DEF PushCas, Goto, Set, Inv, Typed, TypeOK, Popped, Limbo
<1>4. Producing(K)'
  BY DEF PushCas, Goto, Set, Inv, Typed, TypeOK, Producing, sanVars
<1>5. Guarding(K)'
  BY DEF PushCas, Goto, Set, Inv, Typed, TypeOK, Guarding, Protects, sanVars
<1>6. Filled(K)'
  BY DEF PushCas, Goto, Set, Inv, Typed, TypeOK, Filled
<1>7. Emptied'
  BY MainAssumption DEF PushCas, Goto, Inv, Typed, TypeOK, Emptied, Freeing
<1>8. Counted(K)'
  BY CountSame DEF PushCas, Goto, Inv, Typed, TypeOK
<1> QED BY <1>1, <1>2, <1>3, <1>4, <1>5, <1>6, <1>7, <1>8 DEF Inv, Nodewise

LEMMA PushSizeInv ==
  ASSUME Hypotheses, Typed, NEW K, NEW O, NEW R, Inv(K, O, R),
         NEW t \in Threads, PushSize(t)
  PROVE  Inv(K, O, R)'
<1>1. Nodewise(K, O, R)'
  BY NodesSame DEF PushSize, Goto, Nodewise, Inv, sanVars
<1>2. Fresh(K, O)'
  BY DEF PushSize, Leave, Goto, Set, Inv, Typed, Fresh
<1>3. Popped(K, O)'
  BY DEF PushSize, Leave, Goto, Set, Inv, Typed, Popped, Limbo
<1>4. Producing(K)'
  BY DEF PushSize, Leave, Goto, Set, Inv, Typed, Producing, sanVars
<1>5. Guarding(K)'
  BY DEF PushSize, Leave, Goto, Set, Inv, Typed, Guarding, Protects, sanVars
<1>6. Filled(K)'
  BY DEF PushSize, Leave, Goto, Set, Inv, Typed, Filled
<1>7. Emptied'
  BY DEF PushSize, Leave, Goto, Inv, Typed, Emptied, Freeing
<1>8. Counted(K)'
  BY PushSizeCounted DEF Inv
<1> QED BY <1>1, <1>2, <1>3, <1>4, <1>5, <1>6, <1>7, <1>8 DEF Inv, Nodewise

LEMMA PopLoadInv ==
  ASSUME Hypotheses, Typed, NEW K, NEW O, NEW R, Inv(K, O, R),
         NEW t \in Threads, PopLoad(t)
  PROVE  Inv(K, O, R)'
<1>1. Nodewise(K, O, R)'
  BY NodesSame DEF PopLoad, Goto, Nodewise, Inv, sanVars
<1>2. Fresh(K, O)'
  BY DEF PopLoad, PopLoop, Caller, Leave, Goto, Set, Inv, Typed, TypeOK, Fresh
<1>3. Popped(K, O)'
  BY DEF PopLoad, PopLoop, Caller, Leave, Goto, Set, Inv, Typed, TypeOK,
     Popped, Limbo
<1>4. Producing(K)'
  BY DEF PopLoad, PopLoop, Caller, Leave, Goto, Set, Inv, Typed, TypeOK,
     Producing, sanVars
<1>5. Guarding(K)'
  BY DEF PopLoad, PopLoop, Caller, Leave, Goto, Set, Inv, Typed, TypeOK,
     Guarding, Protects, sanVars
<1>6. Filled(K)'
  BY DEF PopLoad, PopLoop, Caller, Leave, Goto, Set, Inv, Typed, TypeOK, Filled
<1>7. Emptied'
  BY MainAssumption DEF PopLoad, PopLoop, Goto, Inv, Typed, TypeOK, Emptied,
     Freeing
<1>8. Counted(K)'
  BY CountSame DEF PopLoad, PopLoop, Caller, Leave, Goto, Inv, Typed, TypeOK
<1> QED BY <1>1, <1>2, <1>3, <1>4, <1>5, <1>6, <1>7, <1>8 DEF Inv, Nodewise

LEMMA PopAccessInv ==
  ASSUME Hypotheses, Typed, NEW K, NEW O, NEW R, Inv(K, O, R),
         NEW t \in Threads, PopAccess(t)
  PROVE  Inv(K, O, R)'
<1>1. Nodewise(K, O, R)'
  BY NodesSame DEF PopAccess, Goto, Nodewise, Inv
<1>2. Fresh(K, O)'
  BY DEF PopAccess, Goto, Inv, Typed, Fresh
<1>3. Popped(K, O)'
  BY DEF PopAccess, Goto, Inv, Typed, Popped, Limbo
<1>4. Producing(K)'
  BY DEF PopAccess, Goto, Inv, Typed, Producing
<1>5. Guarding(K)'
  BY PopAccessGuards
<1>6. Filled(K)'
  BY DEF PopAccess, Goto, Inv, Typed, Filled
<1>7. Emptied'
  BY DEF PopAccess, Goto, Inv, Typed, Emptied, Freeing
<1>8. Counted(K)'
  BY CountSame DEF PopAccess, Goto, Inv, Typed
<1> QED BY <1>1, <1>2, <1>3, <1>4, <1>5, <1>6, <1>7, <1>8 DEF Inv, Nodewise

LEMMA PopRecheckInv ==
  ASSUME Hypotheses, Typed, NEW K, NEW O, NEW R, Inv(K, O, R),
         NEW t \in Threads, PopRecheck(t)
  PROVE  Inv(K, O, R)'
<1>1. Nodewise(K, O, R)'
  BY NodesSame DEF PopRecheck, Goto, Nodewise, Inv, sanVars
<1>2. Fresh(K, O)'
  BY DEF PopRecheck, PopLoop, Caller, Leave, Goto, Set, Inv, Typed, TypeOK,
     Fresh
<1>3. Popped(K, O)'
  BY DEF PopRecheck, PopLoop, Caller, Leave, Goto, Set, Inv, Typed, TypeOK,
     Popped, Limbo
<1>4. Producing(K)'
  BY DEF PopRecheck, PopLoop, Caller, Leave, Goto, Set, Inv, Typed, TypeOK,
     Producing, sanVars
<1>5. Guarding(K)'
  BY PopRecheckGuards
<1>6. Filled(K)'
  BY DEF PopRecheck, PopLoop, Caller, Leave, Goto, Set, Inv, Typed, TypeOK,
     Filled
<1>7. Emptied'
  BY MainAssumption DEF PopRecheck, PopLoop, Goto, Inv, Typed, TypeOK, Emptied,
     Freeing
<1>8. Counted(K)'
  BY CountSame DEF PopRecheck, PopLoop, Caller, Leave, Goto, Inv, Typed, TypeOK
<1> QED BY <1>1, <1>2, <1>3, <1>4, <1>5, <1>6, <1>7, <1>8 DEF Inv, Nodewise

LEMMA PopNextInv ==
  ASSUME Hypotheses, Typed, NEW K, NEW O, NEW R, Inv(K, O, R),
         NEW t \in Threads, PopNext(t)
  PROVE  Inv(K, O, R)'
<1>1. Nodewise(K, O, R)'
  BY NodesSame DEF PopNext, Goto, Nodewise, Inv, sanVars
<1>2. Fresh(K, O)'
  BY DEF PopNext, Goto, Inv, Typed, Fresh
<1>3. Popped(K, O)'
  BY DEF PopNext, Goto, Inv, Typed, Popped, Limbo
<1>4. Producing(K)'
  BY DEF PopNext, Goto, Inv, Typed, Producing, sanVars
<1>5. Guarding(K)'
  BY DEF PopNext, Goto, Set, Inv, Typed, TypeOK, Guarding, Protects, sanVars
<1>6. Filled(K)'
  BY DEF PopNext, Goto, Inv, Typed, Filled
<1>7. Emptied'
  BY DEF PopNext, Goto, Inv, Typed, Emptied, Freeing
<1>8. Counted(K)'
  BY CountSame DEF PopNext, Goto, Inv, Typed
<1> QED BY <1>1, <1>2, <1>3, <1>4, <1>5, <1>6, <1>7, <1>8 DEF Inv, Nodewise

LEMMA PopCasFailsInv ==
  ASSUME Hypotheses, Typed, NEW K, NEW O, NEW R, Inv(K, O, R),
         NEW t \in Threads, PopCas(t), head_ # new[t]
  PROVE  Inv(K, O, R)'
<1>1. Nodewise(K, O, R)'
  BY NodesSame DEF PopCas, Goto, Nodewise, Inv, sanVars
<1>2. Fresh(K, O)'
  BY DEF PopCas, PopLoop, Caller, Leave, Goto, Set, Inv, Typed, TypeOK, Fresh
<1>3. Popped(K, O)'
  BY DEF PopCas, PopLoop, Caller, Leave, Goto, Set, Inv, Typed, TypeOK, Popped,
     Limbo
<1>4. Producing(K)'
  BY DEF PopCas, PopLoop, Caller, Leave, Goto, Set, Inv, Typed, TypeOK,
     Producing, sanVars
<1>5. Guarding(K)'
  BY DEF PopCas, PopLoop, Caller, Leave, Goto, Set, Inv, Typed, TypeOK,
     Guarding, Protects, sanVars
<1>6. Filled(K)'
  BY DEF PopCas, PopLoop, Caller, Leave, Goto, Set, Inv, Typed, TypeOK, Filled
<1>7. Emptied'
  BY MainAssumption DEF PopCas, PopLoop, Caller, Goto, Inv, Typed, TypeOK,
     Emptied, Freeing, Locals, PopLabels, HasOri
<1>8. Counted(K)'
  BY CountSame DEF PopCas, PopLoop, Caller, Leave, Goto, Inv, Typed, TypeOK
<1> QED BY <1>1, <1>2, <1>3, <1>4, <1>5, <1>6, <1>7, <1>8 DEF Inv, Nodewise

LEMMA PopSwapInv ==
  ASSUME Hypotheses, Typed, NEW K, NEW O, NEW R, Inv(K, O, R),
         NEW t \in Threads, PopSwap(t)
  PROVE  Inv(K, O, R)'
<1>1. Nodewise(K, O, R)'
  BY NodesSame DEF PopSwap, Goto, Nodewise, Inv, sanVars
<1>2. Fresh(K, O)'
  BY DEF PopSwap, Goto, Inv, Typed, Fresh
<1>3. Popped(K, O)'
  BY DEF PopSwap, Goto, Inv, Typed, Popped, Limbo
<1>4. Producing(K)'
  BY DEF PopSwap, Goto, Inv, Typed, Producing, sanVars
<1>5. Guarding(K)'
  BY DEF PopSwap, Goto, Inv, Typed, Guarding, Protects, sanVars
<1>6. Filled(K)'
  BY DEF PopSwap, Goto, Set, Inv, Typed, TypeOK, Filled, Popped, Limbo
<1>7. Emptied'
  BY DEF PopSwap, Goto, Inv, Typed, Emptied, Freeing
<1>8. Counted(K)'
  BY CountSame DEF PopSwap, Goto, Inv, Typed
<1> QED BY <1>1, <1>2, <1>3, <1>4, <1>5, <1>6, <1>7, <1>8 DEF Inv, Nodewise

LEMMA PopSizeInv ==
  ASSUME Hypotheses, Typed, NEW K, NEW O, NEW R, Inv(K, O, R),
         NEW t \in Threads, PopSize(t)
  PROVE  Inv(K, O, R)'
<1>1. Nodewise(K, O, R)'
  BY NodesSame DEF PopSize, Goto, Nodewise, Inv, sanVars
<1>2. Fresh(K, O)'
  BY DEF PopSize, Goto, Inv, Typed, Fresh
<1>3. Popped(K, O)'
  BY DEF PopSize, Goto, Inv, Typed, Popped, Limbo
<1>4. Producing(K)'
  BY DEF PopSize, Goto, Inv, Typed, Producing, sanVars
<1>5. Guarding(K)'
  BY DEF PopSize, Goto, Inv, Typed, Guarding, Protects, sanVars
<1>6. Filled(K)'
  BY DEF PopSize, Goto, Inv, Typed, Filled
<1>7. Emptied'
  BY DEF PopSize, Goto, Inv, Typed, Emptied, Freeing
<1>8. Counted(K)'
  BY PopSizeCounted DEF Inv
<1> QED BY <1>1, <1>2, <1>3, <1>4, <1>5, <1>6, <1>7, <1>8 DEF Inv, Nodewise

LEMMA PopResetInv ==
  ASSUME Hypotheses, Typed, NEW K, NEW O, NEW R, Inv(K, O, R),
         NEW t \in Threads, PopReset(t)
  PROVE  Inv(K, O, R)'
<1>1. Nodewise(K, O, R)'
  BY NodesSame DEF PopReset, Goto, Nodewise, Inv
<1>2. Fresh(K, O)'
  BY DEF PopReset, Goto, Inv, Typed, Fresh
<1>3. Popped(K, O)'
  BY DEF PopReset, Goto, Inv, Typed, Popped, Limbo
<1>4. Producing(K)'
  BY DEF PopReset, Goto, Inv, Typed, Producing
<1>5. Guarding(K)'
  BY PopResetGuards
<1>6. Filled(K)'
  BY DEF PopReset, Goto, Inv, Typed, Filled
<1>7. Emptied'
  BY DEF PopReset, Goto, Inv, Typed, Emptied, Freeing
<1>8. Counted(K)'
  BY CountSame DEF PopReset, Goto, Inv, Typed
<1> QED BY <1>1, <1>2, <1>3, <1>4, <1>5, <1>6, <1>7, <1>8 DEF Inv, Nodewise

LEMMA PopReturnInv ==
  ASSUME Hypotheses, Typed, NEW K, NEW O, NEW R, Inv(K, O, R),
         NEW t \in Threads, PopReturn(t)
  PROVE  Inv(K, O, R)'
<1>1. Nodewise(K, O, R)'
  BY NodesSame DEF PopReturn, Goto, Nodewise, Inv, sanVars
<1>2. Fresh(K, O)'
  BY DEF PopReturn, Caller, Leave, Goto, Set, Inv, Typed, Fresh
<1>3. Popped(K, O)'
  BY DEF PopReturn, Caller, Leave, Goto, Set, Inv, Typed, Popped, Limbo
<1>4. Producing(K)'
  BY DEF PopReturn, Caller, Leave, Goto, Set, Inv, Typed, Producing, sanVars
<1>5. Guarding(K)'
  BY DEF PopReturn, Caller, Leave, Goto, Set, Inv, Typed, Guarding, Protects,
     sanVars
<1>6. Filled(K)'
  BY DEF PopReturn, Caller, Leave, Goto, Set, Inv, Typed, TypeOK, Filled
<1>7. Emptied'
  BY DEF PopReturn, Caller, Leave, Goto, Inv, Typed, Emptied, Freeing, Filled
<1>8. Counted(K)'
  BY CountSame DEF PopReturn, Caller, Leave, Goto, Inv, Typed
<1> QED BY <1>1, <1>2, <1>3, <1>4, <1>5, <1>6, <1>7, <1>8 DEF Inv, Nodewise

LEMMA DestroyInv ==
  ASSUME Hypotheses, Typed, NEW K, NEW O, NEW R, Inv(K, O, R),
         Destroy
  PROVE  Inv(K, O, R)'
<1>1. Nodewise(K, O, R)'
  BY NodesSame DEF Destroy, Goto, Nodewise, Inv, sanVars
<1>2. Fresh(K, O)'
  BY DEF Destroy, Quiet, Goto, Inv, Typed, Fresh
<1>3. Popped(K, O)'
  BY DEF Destroy, Quiet, Goto, Inv, Typed, Popped, Limbo
<1>4. Producing(K)'
  BY DEF Destroy, Goto, Inv, Typed, Producing, sanVars
<1>5. Guarding(K)'
  BY DEF Destroy, Goto, Inv, Typed, Guarding, Protects, sanVars
<1>6. Filled(K)'
  BY DEF Destroy, Goto, Inv, Typed, Filled
<1>7. Emptied'
  BY DEF Destroy, Goto, Inv, Typed, Emptied, Freeing
<1>8. Counted(K)'
  BY CountSame DEF Destroy, Quiet, Goto, Inv, Typed
<1> QED BY <1>1, <1>2, <1>3, <1>4, <1>5, <1>6, <1>7, <1>8 DEF Inv, Nodewise

LEMMA DtorLoopInv ==
  ASSUME Hypotheses, Typed, NEW K, NEW O, NEW R, Inv(K, O, R),
         DtorLoop
  PROVE  Inv(K, O, R)'
<1>1. Nodewise(K, O, R)'
  BY NodesSame DEF DtorLoop, DtorStep, Goto, Nodewise, Inv, sanVars
<1>2. Fresh(K, O)'
  BY DEF DtorLoop, DtorStep, Goto, Inv, Typed, Fresh
<1>3. Popped(K, O)'
  BY DEF DtorLoop, DtorStep, Goto, Inv, Typed, Popped, Limbo
<1>4. Producing(K)'
  BY DEF DtorLoop, DtorStep, Goto, Inv, Typed, Producing, sanVars
<1>5. Guarding(K)'
  BY DEF DtorLoop, DtorStep, Goto, Inv, Typed, Guarding, Protects, sanVars
<1>6. Filled(K)'
  BY DEF DtorLoop, DtorStep, Goto, Inv, Typed, Filled
<1>7. Emptied'
  BY DEF DtorLoop, DtorStep, Goto, Inv, Typed, Emptied, Freeing
<1>8. Counted(K)'
  BY CountSame DEF DtorLoop, DtorStep, Goto, Inv, Typed
<1> QED BY <1>1, <1>2, <1>3, <1>4, <1>5, <1>6, <1>7, <1>8 DEF Inv, Nodewise

LEMMA DtorStopInv ==
  ASSUME Hypotheses, Typed, NEW K, NEW O, NEW R, Inv(K, O, R),
         DtorStop
  PROVE  Inv(K, O, R)'
<1>1. Nodewise(K, O, R)'
  BY NodesSame DEF DtorStop, DtorStep, StopBack, Goto, Nodewise, Inv, sanVars
<1>2. Fresh(K, O)'
  BY DEF DtorStop, DtorStep, Goto, Inv, Typed, TypeOK, Fresh
<1>3. Popped(K, O)'
  BY DEF DtorStop, DtorStep, Goto, Inv, Typed, TypeOK, Popped, Limbo
<1>4. Producing(K)'
  BY DEF DtorStop, DtorStep, StopBack, Goto, Inv, Typed, TypeOK, Producing,
     sanVars
<1>5. Guarding(K)'
  BY DEF DtorStop, DtorStep, StopBack, Goto, Inv, Typed, TypeOK, Guarding,
     Protects, sanVars, hazards
<1>6. Filled(K)'
  BY DEF DtorStop, DtorStep, Goto, Inv, Typed, TypeOK, Filled
<1>7. Emptied'
  BY DEF DtorStop, DtorStep, Goto, Inv, Typed, Emptied
<1>8. Counted(K)'
  BY CountSame DEF DtorStop, DtorStep, Goto, Inv, Typed, TypeOK
<1> QED BY <1>1, <1>2, <1>3, <1>4, <1>5, <1>6, <1>7, <1>8 DEF Inv, Nodewise

LEMMA DtorJoinInv ==
  ASSUME Hypotheses, Typed, NEW K, NEW O, NEW R, Inv(K, O, R),
         DtorJoin
  PROVE  Inv(K, O, R)'
<1>1. Nodewise(K, O, R)'
  BY NodesSame DEF DtorJoin, DtorStep, JoinBack, Goto, Nodewise, Inv, sanVars
<1>2. Fresh(K, O)'
  BY DEF DtorJoin, DtorStep, Goto, Inv, Typed, Fresh
<1>3. Popped(K, O)'
  BY DEF DtorJoin, DtorStep, Goto, Inv, Typed, Popped, Limbo
<1>4. Producing(K)'
  BY DEF DtorJoin, DtorStep, JoinBack, Goto, Inv, Typed, Producing, sanVars
<1>5. Guarding(K)'
  BY DEF DtorJoin, DtorStep, JoinBack, Goto, Inv, Typed, Guarding, Protects,
     sanVars
<1>6. Filled(K)'
  BY DEF DtorJoin, DtorStep, Goto, Inv, Typed, Filled
<1>7. Emptied'
  BY DEF DtorJoin, DtorStep, Goto, Inv, Typed, Emptied
<1>8. Counted(K)'
  BY CountSame DEF DtorJoin, DtorStep, Goto, Inv, Typed
<1> QED BY <1>1, <1>2, <1>3, <1>4, <1>5, <1>6, <1>7, <1>8 DEF Inv, Nodewise

LEMMA DtorEndInv ==
  ASSUME Hypotheses, Typed, NEW K, NEW O, NEW R, Inv(K, O, R),
         DtorEnd
  PROVE  Inv(K, O, R)'
<1>1. Nodewise(K, O, R)'
  BY NodesSame DEF DtorEnd, DtorStep, Goto, Nodewise, Inv, sanVars
<1>2. Fresh(K, O)'
  BY DEF DtorEnd, DtorStep, Goto, Inv, Typed, Fresh
<1>3. Popped(K, O)'
  BY DEF DtorEnd, DtorStep, Goto, Inv, Typed, Popped, Limbo
<1>4. Producing(K)'
  BY DEF DtorEnd, DtorStep, Goto, Inv, Typed, Producing, sanVars
<1>5. Guarding(K)'
  BY DEF DtorEnd, DtorStep, Goto, Inv, Typed, Guarding, Protects, sanVars
<1>6. Filled(K)'
  BY DEF DtorEnd, DtorStep, Goto, Inv, Typed, Filled
<1>7. Emptied'
  BY DEF DtorEnd, DtorStep, Goto, Inv, Typed, Emptied, Freeing
<1>8. Counted(K)'
  BY CountSame DEF DtorEnd, DtorStep, Goto, Inv, Typed
<1> QED BY <1>1, <1>2, <1>3, <1>4, <1>5, <1>6, <1>7, <1>8 DEF Inv, Nodewise

-----------------------------------------------------------------------------
(* The steps that move a node, or write to one.                               *)

(* new: a free node becomes the new node of the only thread that pushes.  It  *)
(* was nobody's, so no deletion, Pop or list is affected by the write to its  *)
(* next_.                                                                     *)
LEMMA PushNewInv ==
  ASSUME Hypotheses, Typed, NEW K, NEW O, NEW R, Inv(K, O, R), NEW t \in Threads, PushNew(t)
  PROVE  \E J, P, Q : Inv(J, P, Q)'
<1>1. PICK n \in Nodes : /\ n \notin allocated /\ allocated' = allocated \cup {n}
                         /\ next_' = [next_ EXCEPT ![n] = ori[t]]
                         /\ data' = [data EXCEPT ![n] = val[t]]
                         /\ new' = [new EXCEPT ![t] = n]
  BY DEF PushNew, Set
<1>2. /\ K \in [Nodes -> Kinds] /\ O \in [Nodes -> Agents] /\ R \in [Nodes -> Nat]
      /\ K[n] = "free" /\ t \in Agents
  BY <1>1 DEF Inv, Book, Agents
<1>3. PICK J \in [Nodes -> Kinds] : J[n] = "new" /\ \A m \in Nodes : m # n => J[m] = K[m]
  BY <1>2, MoveOne DEF Kinds
<1>4. PICK P \in [Nodes -> Agents] : P[n] = t /\ \A m \in Nodes : m # n => P[m] = O[m]
  BY <1>2, OwnOne
<1>5. /\ pc[t] = "push_new" /\ pc'[t] = "push_cas" /\ new'[t] = n
      /\ \A u \in Threads : u # t => pc'[u] = pc[u] /\ new'[u] = new[u]
      /\ next_'[n] = ori[t] /\ data'[n] = val[t]
      /\ \A m \in Nodes : m # n => next_'[m] = next_[m] /\ data'[m] = data[m]
      /\ UNCHANGED <<hps, del, head_, size_, backward_deleting_list_, ori, nxt, val>>
  BY <1>1 DEF PushNew, Goto, hazards, Typed, TypeOK, SanTypeOK
<1>6. Book(J, P, R)'
  BY <1>1, <1>2, <1>3, <1>4 DEF Inv, Book
<1>7. StackList(J, R)' /\ DelayedList(J, R)' /\ RestLists(J, P, R)'
  <2>1. Elsewhere(K, O, R, J, P, R, n)
    BY <1>3, <1>4, <1>5 DEF Elsewhere
  <2> QED BY <1>2, <1>3, <1>5, <2>1, StackElsewhere, DelayedElsewhere, RestsElsewhere DEF Inv
<1>8. Fresh(J, P)'
  BY <1>2, <1>3, <1>4, <1>5 DEF Inv, Fresh
<1>9. Popped(J, P)'
  BY <1>2, <1>3, <1>4, <1>5 DEF Inv, Popped, Limbo
<1>10. InHands(J, P)'
  <2>1. \A a \in Agents : del[a].pc = "cas" => del[a].node \in Nodes /\ del[a].node # n
    BY <1>2, HandOf DEF Inv, Typed, Frames
  <2> QED BY <1>2, <1>3, <1>4, <1>5, <2>1 DEF Inv, InHands
<1>11. Producing(J)'
  <2>1. \A u \in Threads : pc[u] \in PushLabels => u = t
    BY <1>5, OnePush DEF PushLabels
  <2>2. \A u \in Threads : pc'[u] \in PushLabels => u = t
    BY <1>5, <2>1
  <2>3. ori[t] # n => J[ori[t]] = K[ori[t]] \/ ori[t] = NULL
    BY <1>3 DEF Typed, TypeOK, Ptr
  <2>4. /\ ori[t] = NULL => head_ = NULL
        /\ ori[t] # NULL /\ K[ori[t]] = "list" => head_ = ori[t]
    BY <1>5 DEF Inv, Producing
  <2>5. /\ ori'[t] = NULL => head_' = NULL
        /\ ori'[t] # NULL /\ J[ori'[t]] = "list" => head_' = ori'[t]
        /\ pc'[t] = "push_cas" /\ head_' = ori'[t] => next_'[new'[t]] = ori'[t]
    BY <1>3, <1>5, <2>3, <2>4
  <2> QED BY <2>2, <2>5 DEF Producing, PushLabels
<1>12. Guarding(J)'
  <2>1. \A u \in Threads : pc'[u] \in {"pop_recheck", "pop_next", "pop_cas"} => pc'[u] = pc[u] /\ u # t
    BY <1>5
  <2>2. \A u \in Threads : pc[u] \in {"pop_next", "pop_cas"} =>
          new[u] \in Nodes /\ new[u] # n /\ K[new[u]] \notin {"free", "new"}
    BY <1>2, PopHolds DEF Inv
  <2> QED BY <1>3, <1>5, <2>1, <2>2 DEF Inv, Guarding, Protects
<1>13. Filled(J)'
  <2>1. val[t] # NoValue
    BY <1>5 DEF Typed, Locals
  <2>2. \A u \in Threads : pc[u] = "pop_swap" => ori[u] \in Nodes /\ ori[u] # n
    BY <1>2, PopHolds DEF Inv, Limbo
  <2> QED BY <1>2, <1>3, <1>5, <2>1, <2>2 DEF Inv, Filled
<1>14. Emptied'
  BY <1>5, MainAssumption DEF Inv, Emptied, Freeing
<1>15. Counted(J)'
  <2>1. At(J, "list") = At(K, "list")
    BY <1>2, <1>3, AtMoved
  <2> QED BY <1>5, <2>1, CountSame DEF Inv
<1> QED BY <1>6, <1>7, <1>8, <1>9, <1>10, <1>11, <1>12, <1>13, <1>14, <1>15 DEF Inv

(* The exchange of Push finds the head it linked to, and the new node becomes *)
(* the first of the list: next_ is right because of Producing.                *)
LEMMA PushCasOkInv ==
  ASSUME Hypotheses, Typed, NEW K, NEW O, NEW R, Inv(K, O, R), NEW t \in Threads,
         PushCas(t), head_ = ori[t]
  PROVE  \E J, P, Q : Inv(J, P, Q)'
<1>1. /\ pc[t] = "push_cas" /\ pc'[t] = "push_size"
      /\ \A u \in Threads : u # t => pc'[u] = pc[u]
      /\ head_' = new[t]
      /\ UNCHANGED <<allocated, next_, hps, backward_deleting_list_, del, size_, data, ori, new, nxt, val>>
  BY DEF PushCas, Goto, sanVars, hazards, Typed, TypeOK
<1>2. PICK n \in Nodes : n = new[t] /\ K[n] = "new"
  <2>1. new[t] \in Nodes
    BY <1>1 DEF Typed, TypeOK, Locals, Ptr
  <2>2. K[new[t]] = "new"
    BY <1>1, <2>1 DEF Inv, Fresh
  <2> QED BY <2>1, <2>2
<1>3. /\ K \in [Nodes -> Kinds] /\ O \in [Nodes -> Agents] /\ R \in [Nodes -> Nat]
      /\ Cardinality(At(K, "list")) + 1 \in Nat /\ IsFiniteSet(Nodes)
  BY Counts DEF Inv, Book, Hypotheses, FiniteSystem
<1>4. PICK J \in [Nodes -> Kinds] : J[n] = "list" /\ \A m \in Nodes : m # n => J[m] = K[m]
  BY <1>3, MoveOne DEF Kinds
<1>5. PICK Q \in [Nodes -> Nat] : /\ Q[n] = Cardinality(At(K, "list")) + 1
                                  /\ \A m \in Nodes : m # n => Q[m] = R[m]
  BY <1>3, RankOne
<1>6. At(J, "list") = At(K, "list") \cup {n} /\ n \notin At(K, "list")
  BY <1>2, <1>4 DEF At
<1>7. Elsewhere(K, O, R, J, O, Q, n)
  BY <1>1, <1>4, <1>5 DEF Elsewhere
<1>8. Book(J, O, Q)'
  BY <1>1, <1>2, <1>3, <1>4 DEF Inv, Book
<1>9. StackList(J, Q)'
  <2>1. next_[n] = head_
    BY <1>1, <1>2 DEF PushCas, Inv, Producing
  <2>2. \A m \in At(K, "list") : Q[m] = R[m] /\ next_'[m] = next_[m]
    BY <1>1, <1>5, <1>6 DEF At
  <2>3. IsList(At(K, "list") \cup {n}, Q, next_', n)
    BY <1>1, <1>3, <1>5, <1>6, <2>1, <2>2, ListPush DEF Inv, StackList
  <2>4. At(J, "list")' = At(J, "list")
    BY DEF At
  <2> QED BY <1>1, <1>2, <1>6, <2>3, <2>4 DEF StackList
<1>10. DelayedList(J, Q)' /\ RestLists(J, O, Q)'
  BY <1>1, <1>2, <1>4, <1>7, DelayedElsewhere, RestsElsewhere DEF Inv
<1>11. Fresh(J, O)'
  BY <1>1, <1>2, <1>4 DEF Inv, Fresh
<1>12. Popped(J, O)'
  BY <1>1, <1>2, <1>4 DEF Inv, Popped, Limbo
<1>13. InHands(J, O)'
  BY <1>1, <1>2, <1>4 DEF Inv, InHands
<1>14. Producing(J)'
  <2>1. \A u \in Threads : pc'[u] \notin {"push_new", "push_cas", "push_reload"}
    BY <1>1, OnePush DEF PushLabels
  <2> QED BY <2>1 DEF Producing
<1>15. Guarding(J)'
  <2>1. \A u \in Threads : pc'[u] \in {"pop_recheck", "pop_next", "pop_cas"} => pc'[u] = pc[u] /\ u # t
    BY <1>1
  <2>2. \A u \in Threads : pc[u] \in {"pop_next", "pop_cas"} =>
          new[u] \in Nodes /\ new[u] # n /\ K[new[u]] \notin {"free", "new"}
    BY <1>2, PopHolds DEF Inv
  <2> QED BY <1>1, <1>4, <2>1, <2>2 DEF Inv, Guarding, Protects
<1>16. Filled(J)'
  BY <1>1, <1>2, <1>4 DEF Inv, Filled
<1>17. Emptied'
  <2>1. pc[Main] = "idle" /\ t # Main
    <3>1. t \in use.producers /\ use \in Uses
      BY <1>1 DEF Typed, TypeOK, Roles, PushLabels
    <3>2. t # Main
      BY <3>1 DEF Hypotheses, MainApart
    <3> QED BY <1>1, <3>2 DEF Typed, Roles
  <2> QED BY <1>1, <2>1, MainAssumption DEF Emptied, Freeing
<1>18. Counted(J)'
  <2>1. t \in Threads \ Adding /\ Adding' = Adding \cup {t} /\ Taking' = Taking
    BY <1>1 DEF Adding, Taking
  <2> QED BY <1>1, <1>6, <2>1, CountPush DEF Inv
<1> QED BY <1>8, <1>9, <1>10, <1>11, <1>12, <1>13, <1>14, <1>15, <1>16, <1>17, <1>18 DEF Inv

(* The store to next_ of the inner reload, to a node nobody else knows.       *)
LEMMA PushReloadInv ==
  ASSUME Hypotheses, Typed, NEW K, NEW O, NEW R, Inv(K, O, R), NEW t \in Threads, PushReload(t)
  PROVE  Inv(K, O, R)'
<1>1. PICK n \in Nodes : n = new[t] /\ K[n] = "new"
  <2>1. new[t] \in Nodes
    BY DEF PushReload, Typed, TypeOK, Locals, Ptr
  <2>2. K[new[t]] = "new"
    BY <2>1 DEF PushReload, Inv, Fresh
  <2> QED BY <2>1, <2>2
<1>2. /\ pc[t] = "push_reload" /\ pc'[t] = "push_cas"
      /\ \A u \in Threads : u # t => pc'[u] = pc[u]
      /\ next_'[n] = head_ /\ \A m \in Nodes : m # n => next_'[m] = next_[m]
      /\ UNCHANGED <<allocated, hps, backward_deleting_list_, del, head_, size_, data, ori, new, nxt, val>>
  BY <1>1 DEF PushReload, Goto, hazards, Typed, TypeOK, SanTypeOK
<1>3. Elsewhere(K, O, R, K, O, R, n)
  BY <1>2 DEF Elsewhere
<1>4. Book(K, O, R)'
  BY <1>2 DEF Inv, Book
<1>5. StackList(K, R)' /\ DelayedList(K, R)' /\ RestLists(K, O, R)'
  BY <1>1, <1>2, <1>3, StackElsewhere, DelayedElsewhere, RestsElsewhere DEF Inv
<1>6. Fresh(K, O)'
  BY <1>2 DEF Inv, Fresh
<1>7. Popped(K, O)'
  BY <1>2 DEF Inv, Popped, Limbo
<1>8. InHands(K, O)'
  <2>1. \A a \in Agents : del[a].pc = "cas" => del[a].node \in Nodes /\ del[a].node # n
    BY <1>1, HandOf DEF Inv, Typed, Frames
  <2> QED BY <1>2, <2>1 DEF Inv, InHands
<1>9. Producing(K)'
  <2>1. \A u \in Threads : pc'[u] \in {"push_new", "push_cas", "push_reload"} => u = t
    BY <1>2, OnePush DEF PushLabels
  <2>2. /\ ori[t] = NULL => head_ = NULL
        /\ ori[t] # NULL /\ K[ori[t]] = "list" => head_ = ori[t]
    BY <1>2 DEF Inv, Producing
  <2> QED BY <1>1, <1>2, <2>1, <2>2 DEF Producing
<1>10. Guarding(K)'
  <2>1. \A u \in Threads : pc[u] \in {"pop_next", "pop_cas"} => new[u] \in Nodes /\ new[u] # n
    BY <1>1, PopHolds DEF Inv
  <2> QED BY <1>2, <2>1 DEF Inv, Guarding, Protects
<1>11. Filled(K)'
  BY <1>2 DEF Inv, Filled
<1>12. Emptied'
  BY <1>2, MainAssumption DEF Inv, Emptied, Freeing
<1>13. Counted(K)'
  BY <1>2, CountSame DEF Inv
<1> QED BY <1>4, <1>5, <1>6, <1>7, <1>8, <1>9, <1>10, <1>11, <1>12, <1>13 DEF Inv

(* The exchange of Pop unlinks the first node.  It is the node that the       *)
(* thread has validated and has in a cell, so nxt is still its next_: no node *)
(* was freed and pushed again in between (Guarding).                          *)
LEMMA PopCasOkInv ==
  ASSUME Hypotheses, Typed, NEW K, NEW O, NEW R, Inv(K, O, R), NEW t \in Threads,
         PopCas(t), head_ = new[t]
  PROVE  \E J, P, Q : Inv(J, P, Q)'
<1>1. /\ pc[t] = "pop_cas" /\ pc'[t] = "pop_swap"
      /\ \A u \in Threads : u # t => pc'[u] = pc[u]
      /\ head_' = nxt[t]
      /\ UNCHANGED <<allocated, next_, hps, backward_deleting_list_, del, size_, data, ori, new, nxt, val>>
  BY DEF PopCas, Goto, sanVars, hazards, Typed, TypeOK
<1>2. PICK n \in Nodes : /\ n = new[t] /\ n = ori[t] /\ n = head_ /\ n # NULL
                         /\ n \in At(K, "list") /\ nxt[t] = next_[n]
  <2>1. new[t] \in Nodes /\ new[t] = ori[t]
    BY <1>1, PopHolds DEF Inv, Typed, Locals
  <2>2. new[t] \in At(K, "list")
    BY <2>1, NullAssumption DEF Inv, StackList, IsList
  <2>3. nxt[t] = next_[new[t]]
    BY <1>1, <2>2 DEF Inv, Guarding, At
  <2> QED BY <2>1, <2>2, <2>3, NullAssumption
<1>3. /\ K \in [Nodes -> Kinds] /\ O \in [Nodes -> Agents] /\ R \in [Nodes -> Nat]
      /\ K[n] = "list" /\ t \in Agents /\ IsFiniteSet(Nodes)
  BY <1>2 DEF Inv, Book, Hypotheses, FiniteSystem, At, Agents
<1>4. PICK J \in [Nodes -> Kinds] : J[n] = "limbo" /\ \A m \in Nodes : m # n => J[m] = K[m]
  BY <1>3, MoveOne DEF Kinds
<1>5. PICK P \in [Nodes -> Agents] : P[n] = t /\ \A m \in Nodes : m # n => P[m] = O[m]
  BY <1>3, OwnOne
<1>6. At(J, "list") = At(K, "list") \ {n}
  BY <1>4 DEF At
<1>7. Elsewhere(K, O, R, J, P, R, n)
  BY <1>1, <1>4, <1>5 DEF Elsewhere
<1>8. Book(J, P, R)'
  BY <1>1, <1>3, <1>4, <1>5 DEF Inv, Book
<1>9. StackList(J, R)'
  <2>1. IsList(At(K, "list") \ {n}, R, next_, next_[n])
    BY <1>2, <1>3, ListPop DEF Inv, StackList
  <2>2. At(J, "list")' = At(J, "list")
    BY DEF At
  <2> QED BY <1>1, <1>2, <1>6, <2>1, <2>2 DEF StackList
<1>10. DelayedList(J, R)' /\ RestLists(J, P, R)'
  BY <1>1, <1>3, <1>4, <1>7, DelayedElsewhere, RestsElsewhere DEF Inv
<1>11. Fresh(J, P)'
  BY <1>1, <1>3, <1>4, <1>5 DEF Inv, Fresh
<1>12. Popped(J, P)'
  <2>1. \A m \in Nodes, u \in Threads :
          m # n /\ u # t => (J[m] = "limbo" /\ P[m] = u <=> pc'[u] \in Limbo /\ ori'[u] = m)
    BY <1>1, <1>4, <1>5 DEF Inv, Popped
  <2>2. \A m \in Nodes : m # n => (J[m] = "limbo" /\ P[m] = t <=> pc'[t] \in Limbo /\ ori'[t] = m)
    BY <1>1, <1>2, <1>4, <1>5 DEF Inv, Popped, Limbo
  <2>3. \A u \in Threads : J[n] = "limbo" /\ P[n] = u <=> pc'[u] \in Limbo /\ ori'[u] = n
    BY <1>1, <1>2, <1>3, <1>4, <1>5 DEF Inv, Popped, Limbo
  <2>4. \A m \in Nodes : J[m] = "limbo" => P[m] \in Threads
    BY <1>4, <1>5 DEF Inv, Popped
  <2> QED BY <2>1, <2>2, <2>3, <2>4 DEF Popped
<1>13. InHands(J, P)'
  BY <1>1, <1>3, <1>4, <1>5 DEF Inv, InHands
<1>14. Producing(J)'
  <2> SUFFICES ASSUME NEW u \in Threads, pc[u] \in {"push_new", "push_cas", "push_reload"}
               PROVE  /\ ori[u] # NULL /\ J[ori[u]] # "list" /\ head_' # ori[u]
    BY <1>1 DEF Producing
  <2>1. ori[u] # NULL
    BY <1>2 DEF Inv, Producing
  <2>2. ori[u] \in Nodes /\ J[ori[u]] # "list"
    <3>1. ori[u] \in Nodes
      BY <2>1 DEF Typed, TypeOK, Ptr
    <3>2. K[ori[u]] = "list" => ori[u] = n
      BY <1>2, <2>1 DEF Inv, Producing
    <3> QED BY <1>4, <3>1, <3>2
  <2>3. head_' # NULL => head_' \in At(J, "list")
    BY <1>9 DEF StackList, IsList, At
  <2> QED BY <2>1, <2>2, <2>3 DEF At
<1>15. Guarding(J)'
  <2>1. \A u \in Threads : pc'[u] \in {"pop_recheck", "pop_next", "pop_cas"} => pc'[u] = pc[u] /\ u # t
    BY <1>1
  <2>2. \A u \in Threads : pc[u] \in {"pop_next", "pop_cas"} =>
          new[u] \in Nodes /\ K[new[u]] \notin {"free", "new"}
    BY PopHolds DEF Inv
  <2> QED BY <1>1, <1>4, <2>1, <2>2 DEF Inv, Guarding, Protects
<1>16. Filled(J)'
  <2>1. data[ori[t]] # NoValue
    BY <1>2, <1>3 DEF Inv, Filled
  <2> QED BY <1>1, <1>3, <1>4, <2>1 DEF Inv, Filled
<1>17. Emptied'
  <2>1. pc[Main] \notin {"dtor_stop", "dtor_join", "dtor_exchange"} \cup Freeing
    BY <1>2 DEF Inv, Emptied
  <2> QED BY <1>1, <2>1, MainAssumption DEF Emptied, Freeing
<1>18. Counted(J)'
  <2>1. t \in Threads \ Taking /\ Taking' = Taking \cup {t} /\ Adding' = Adding
    BY <1>1 DEF Adding, Taking
  <2> QED BY <1>1, <1>2, <1>6, <2>1, CountPop DEF Inv
<1> QED BY <1>8, <1>9, <1>10, <1>11, <1>12, <1>13, <1>14, <1>15, <1>16, <1>17, <1>18 DEF Inv

(* Where a Pop hands its node over, the thread has no other deletion.         *)
LEMMA PopReleaseInv ==
  ASSUME Hypotheses, Typed, NEW K, NEW O, NEW R, Inv(K, O, R), NEW t \in Threads, PopRelease(t)
  PROVE  \E J, P, Q : Inv(J, P, Q)'
<1>1. /\ pc[t] = "pop_release" /\ pc'[t] = "pop_return"
      /\ \A u \in Threads : u # t => pc'[u] = pc[u]
      /\ UNCHANGED <<allocated, next_, backward_deleting_list_, head_, size_, data, ori, new, nxt, val>>
  BY DEF PopRelease, Goto, Typed, TypeOK
<1>2. PICK n \in Nodes : n = ori[t] /\ K[n] = "limbo" /\ O[n] = t
  BY <1>1, PopHolds DEF Inv, Limbo
<1>3. /\ t \in Agents
      /\ del'[t].pc = "scan" /\ del'[t].node = n /\ del'[t].i = 0 /\ del'[t].rest = NULL
      /\ \A a \in Agents : a # t => del'[a] = del[a]
  BY <1>2 DEF PopRelease, StartRelease, NoDel, Agents, Typed, TypeOK, SanTypeOK
<1>4. del[t].node = NULL /\ del[t].rest = NULL
  BY <1>1, <1>3 DEF Typed, Frames
<1>5. K \in [Nodes -> Kinds] /\ O \in [Nodes -> Agents] /\ R \in [Nodes -> Nat]
  BY DEF Inv, Book
<1>6. PICK J \in [Nodes -> Kinds] : J[n] = "hand" /\ \A m \in Nodes : m # n => J[m] = K[m]
  BY <1>5, MoveOne DEF Kinds
<1>7. Elsewhere(K, O, R, J, O, R, n)
  BY <1>1, <1>6 DEF Elsewhere
<1>8. Book(J, O, R)'
  BY <1>1, <1>2, <1>5, <1>6 DEF Inv, Book
<1>9. StackList(J, R)' /\ DelayedList(J, R)' /\ RestLists(J, O, R)'
  <2>1. \A a \in Agents : del'[a].rest = del[a].rest
    BY <1>3, <1>4
  <2> QED BY <1>1, <1>2, <1>6, <1>7, <2>1, StackElsewhere, DelayedElsewhere, RestsElsewhere DEF Inv
<1>10. Fresh(J, O)'
  BY <1>1, <1>2, <1>6 DEF Inv, Fresh
<1>11. Popped(J, O)'
  BY <1>1, <1>2, <1>6 DEF Inv, Popped, Limbo
<1>12. InHands(J, O)'
  <2>1. \A m \in Nodes : J[m] = "hand" /\ O[m] = t <=> del'[t].node = m
    <3>1. \A m \in Nodes : ~(K[m] = "hand" /\ O[m] = t)
      BY <1>3, <1>4, NullAssumption DEF Inv, InHands
    <3> QED BY <1>2, <1>3, <1>6, <3>1
  <2>2. ASSUME NEW a \in Agents, a # t
        PROVE  /\ \A m \in Nodes : J[m] = "hand" /\ O[m] = a <=> del'[a].node = m
               /\ del'[a].pc = "cas" => next_'[del'[a].node] = del'[a].ori
    BY <1>1, <1>2, <1>3, <1>6, <2>2 DEF Inv, InHands
  <2> QED BY <1>3, <2>1, <2>2 DEF InHands
<1>13. Producing(J)'
  BY <1>1, <1>2, <1>6 DEF Inv, Producing, Typed, TypeOK, Ptr
<1>14. Guarding(J)'
  <2>1. \A u \in Threads : pc'[u] \in {"pop_recheck", "pop_next", "pop_cas"} => pc'[u] = pc[u] /\ u # t
    BY <1>1
  <2>2. ASSUME NEW u \in Threads, u # t, pc[u] \in {"pop_recheck", "pop_next", "pop_cas"}
        PROVE  SlotOf[u] \in SlotIds /\ hps'[SlotOf[u]] = hps[SlotOf[u]]
    BY <2>2, StoreElsewhere, SlotOfPop DEF PopRelease, PopLabels
  <2>3. ASSUME NEW u \in Threads, u # t, pc[u] \in {"pop_next", "pop_cas"},
               NEW k \in 0 .. Sz - 1, Protects(u, k)
        PROVE  Protects(u, k)'
    <3>1. 0 <= (SlotOf[u] - 1) * Sz + k
      BY <2>2, <2>3, SlotAssumption DEF SlotIds, Sz
    <3> QED BY <1>1, <1>3, <2>2, <2>3, <3>1 DEF Protects
  <2>4. \A u \in Threads : pc[u] \in {"pop_next", "pop_cas"} =>
          new[u] \in Nodes /\ K[new[u]] \notin {"free", "new"}
    BY PopHolds DEF Inv
  <2>5. ASSUME NEW u \in Threads, pc'[u] = "pop_recheck"
        PROVE  \E k \in 0 .. Sz - 1 : hps'[SlotOf[u]][k] = ori'[u]
    BY <1>1, <2>1, <2>2, <2>5 DEF Inv, Guarding
  <2>6. ASSUME NEW u \in Threads, pc'[u] \in {"pop_next", "pop_cas"}
        PROVE  J[new'[u]] \notin {"free", "new"} /\ \E k \in 0 .. Sz - 1 : Protects(u, k)'
    BY <1>1, <1>6, <2>1, <2>3, <2>4, <2>6 DEF Inv, Guarding
  <2>7. ASSUME NEW u \in Threads, pc'[u] = "pop_cas", J[new'[u]] = "list"
        PROVE  nxt'[u] = next_'[new'[u]]
    BY <1>1, <1>6, <2>1, <2>4, <2>7 DEF Inv, Guarding
  <2> QED BY <2>5, <2>6, <2>7 DEF Guarding
<1>15. Filled(J)'
  BY <1>1, <1>2, <1>6 DEF Inv, Filled
<1>16. Emptied'
  BY <1>1, MainAssumption DEF Inv, Emptied, Freeing
<1>17. Counted(J)'
  <2>1. At(J, "list") = At(K, "list")
    BY <1>2, <1>6 DEF At
  <2> QED BY <1>1, <2>1, CountSame DEF Inv
<1> QED BY <1>8, <1>9, <1>10, <1>11, <1>12, <1>13, <1>14, <1>15, <1>16, <1>17 DEF Inv

-----------------------------------------------------------------------------
(* The steps of a deletion.                                                   *)

(* The agent that deletes, and what it leaves alone.                          *)
Deletes(a) ==
  /\ a \in Agents /\ (a = Back \/ pc[a] = "pop_return")
  /\ UNCHANGED <<head_, size_, data, locals>>

(* What a deletion leaves behind: the node is not in hand any more.           *)
LEMMA AfterDeleteIs ==
  ASSUME Typed, NEW a, Deletes(a), del[a].pc \in {"scan", "cas"}
  PROVE  /\ AfterDelete(a).node = NULL /\ AfterDelete(a).rest = del[a].rest
         /\ AfterDelete(a).pc \in {"none", "next", "exchange"}
<1>1. ~del[a].loop => del[a].rest = NULL
  BY BackAssumption, MainAssumption DEF Deletes, Typed, Frames
<1> QED BY <1>1 DEF AfterDelete, NoDel

(* The parts that a deletion cannot disturb, whatever node it moves.          *)
LEMMA DeletionLeaves ==
  ASSUME Hypotheses, Typed, NEW K, NEW O, NEW R, Inv(K, O, R), NEW a, Deletes(a),
         NEW J, NEW n \in Nodes, \A m \in Nodes : m # n => J[m] = K[m] /\ next_'[m] = next_[m],
         K[n] \notin {"new", "list", "limbo"}, J[n] \notin {"new", "list", "limbo"}
  PROVE  /\ Fresh(J, O)' /\ Popped(J, O)' /\ Producing(J)' /\ Filled(J)' /\ Emptied' /\ Counted(J)'
<1>1. UNCHANGED <<head_, size_, data, pc, ori, new, nxt, val>>
  BY DEF Deletes, locals
<1>2. Fresh(J, O)'
  BY <1>1 DEF Inv, Fresh
<1>3. Popped(J, O)'
  BY <1>1 DEF Inv, Popped
<1>4. Producing(J)'
  <2>1. \A u \in Threads : pc[u] = "push_cas" => new[u] \in Nodes /\ new[u] # n
    BY DEF Inv, Fresh, Typed, TypeOK, Locals, Ptr
  <2>2. \A u \in Threads : ori[u] = NULL \/ ori[u] \in Nodes
    BY DEF Typed, TypeOK, Ptr
  <2> QED BY <1>1, <2>1, <2>2 DEF Inv, Producing
<1>5. Filled(J)'
  BY <1>1 DEF Inv, Filled
<1>6. Emptied'
  BY <1>1 DEF Inv, Emptied
<1>7. Counted(J)'
  <2>1. At(J, "list") = At(K, "list")
    BY DEF At
  <2> QED BY <1>1, <2>1, CountSame DEF Inv
<1> QED BY <1>2, <1>3, <1>4, <1>5, <1>6, <1>7

(* A Pop is still guarded when the deletions have gone no further than its    *)
(* cell, and the node that moves is not deleted.                              *)
LEMMA DeletionGuards ==
  ASSUME Hypotheses, Typed, NEW K, NEW O, NEW R, Inv(K, O, R), NEW a, Deletes(a),
         UNCHANGED hps,
         \A b \in Agents : b # a => del'[b] = del[b],
         \A u \in Threads, k \in 0 .. Sz - 1 :
           Protects(u, k) /\ pc[u] \in {"pop_next", "pop_cas"} /\ del'[a].pc = "scan" /\ del'[a].node = new[u]
             => del'[a].i <= (SlotOf[u] - 1) * Sz + k,
         NEW J, NEW n \in Nodes, \A m \in Nodes : m # n => J[m] = K[m] /\ next_'[m] = next_[m],
         K[n] # "list", J[n] \notin {"new", "list"},
         \A u \in Threads : pc[u] \in {"pop_next", "pop_cas"} /\ new[u] = n => J[n] # "free"
  PROVE  Guarding(J)'
<1>1. UNCHANGED <<hps, pc, ori, new, nxt>> /\ a \in Agents
  BY DEF Deletes, locals
<1>2. \A u \in Threads : pc[u] \in {"pop_next", "pop_cas"} =>
        new[u] \in Nodes /\ K[new[u]] \notin {"free", "new"}
  BY PopHolds DEF Inv
<1>3. ASSUME NEW u \in Threads, NEW k \in 0 .. Sz - 1, Protects(u, k), pc[u] \in {"pop_next", "pop_cas"}
      PROVE  Protects(u, k)'
  BY <1>1, <1>3 DEF Protects
<1>4. ASSUME NEW u \in Threads, pc'[u] = "pop_recheck"
      PROVE  \E k \in 0 .. Sz - 1 : hps'[SlotOf[u]][k] = ori'[u]
  BY <1>1, <1>4 DEF Inv, Guarding
<1>5. ASSUME NEW u \in Threads, pc'[u] \in {"pop_next", "pop_cas"}
      PROVE  J[new'[u]] \notin {"free", "new"} /\ \E k \in 0 .. Sz - 1 : Protects(u, k)'
  <2>1. J[new[u]] \notin {"free", "new"}
    BY <1>1, <1>2, <1>5
  <2>2. PICK k \in 0 .. Sz - 1 : Protects(u, k)
    BY <1>1, <1>5 DEF Inv, Guarding
  <2> QED BY <1>1, <1>3, <1>5, <2>1, <2>2
<1>6. ASSUME NEW u \in Threads, pc'[u] = "pop_cas", J[new'[u]] = "list"
      PROVE  nxt'[u] = next_'[new'[u]]
  BY <1>1, <1>2, <1>6 DEF Inv, Guarding
<1> QED BY <1>4, <1>5, <1>6 DEF Guarding

(* A step of a deletion that only the agent sees: it keeps its node in hand.  *)
LEMMA HoldingInv ==
  ASSUME Hypotheses, Typed, NEW K, NEW O, NEW R, Inv(K, O, R), NEW a, Deletes(a),
         UNCHANGED <<allocated, next_, hps, backward_deleting_list_>>,
         del[a].node # NULL, del'[a].node = del[a].node, del'[a].rest = del[a].rest,
         del'[a].pc # "cas", \A b \in Agents : b # a => del'[b] = del[b],
         \A u \in Threads, k \in 0 .. Sz - 1 :
           Protects(u, k) /\ del'[a].pc = "scan" /\ del'[a].node = new[u]
             => del'[a].i <= (SlotOf[u] - 1) * Sz + k
  PROVE  Inv(K, O, R)'
<1>1. UNCHANGED <<head_, size_, data, pc, ori, new, nxt, val>> /\ a \in Agents
  BY DEF Deletes, locals
<1>2. PICK n \in Nodes : n = del[a].node /\ K[n] = "hand" /\ O[n] = a
  BY <1>1, HandOf DEF Inv
<1>3. \A m \in Nodes : m # n => K[m] = K[m] /\ next_'[m] = next_[m]
  OBVIOUS
<1>4. Book(K, O, R)'
  BY DEF Inv, Book
<1>5. StackList(K, R)' /\ DelayedList(K, R)' /\ RestLists(K, O, R)'
  <2>1. \A b \in Agents : del'[b].rest = del[b].rest
    OBVIOUS
  <2>2. Elsewhere(K, O, R, K, O, R, n)
    BY <1>3 DEF Elsewhere
  <2> QED BY <1>1, <1>2, <2>1, <2>2, StackElsewhere, DelayedElsewhere, RestsElsewhere DEF Inv
<1>6. Fresh(K, O)' /\ Popped(K, O)' /\ Producing(K)' /\ Filled(K)' /\ Emptied' /\ Counted(K)'
  BY <1>2, <1>3, DeletionLeaves
<1>7. Guarding(K)'
  BY <1>2, <1>3, DeletionGuards
<1>8. InHands(K, O)'
  BY <1>2 DEF Inv, InHands
<1> QED BY <1>4, <1>5, <1>6, <1>7, <1>8 DEF Inv

(* The scan goes past a cell that does not hold the node.                     *)
LEMMA ScanMissInv ==
  ASSUME Hypotheses, Typed, NEW K, NEW O, NEW R, Inv(K, O, R), NEW a, Deletes(a), ScanMiss(a)
  PROVE  Inv(K, O, R)'
<1>1. a \in Agents /\ del[a].node # NULL /\ del[a].pc = "scan" /\ del[a].i \in Nat
  BY SlotAssumption DEF ScanMiss, Deletes, Typed, Frames, TypeOK, SanTypeOK, Frame, Cells, Sz
<1>2. /\ del'[a].node = del[a].node /\ del'[a].rest = del[a].rest /\ del'[a].pc = "scan"
      /\ del'[a].i = del[a].i + 1 /\ \A b \in Agents : b # a => del'[b] = del[b]
      /\ UNCHANGED <<allocated, next_, hps, backward_deleting_list_>>
  BY <1>1 DEF ScanMiss, hazards, Typed, TypeOK, SanTypeOK, Frame
<1>3. ASSUME NEW u \in Threads, NEW k \in 0 .. Sz - 1, Protects(u, k), del'[a].node = new[u]
      PROVE  del'[a].i <= (SlotOf[u] - 1) * Sz + k
  <2>1. PICK s \in Int : s = SlotOf[u]
    BY SlotAssumption
  <2>2. PICK i \in Nat : i = del[a].i
    BY <1>1
  <2>3. i <= (s - 1) * 2 + k
    BY <1>1, <1>2, <1>3, <2>1, <2>2 DEF Protects, Sz
  <2>4. i # (s - 1) * 2 + k
    <3>1. ASSUME i = (s - 1) * 2 + k PROVE i \div 2 + 1 = s /\ i % 2 = k
      BY <3>1 DEF Sz
    <3>2. hps[s][k] = new[u] /\ hps[i \div 2 + 1][i % 2] # new[u]
      BY <1>2, <1>3, <2>1, <2>2 DEF Protects, ScanMiss, CellAt, Sz
    <3> QED BY <3>1, <3>2
  <2>5. i + 1 <= (s - 1) * 2 + k
    BY <2>3, <2>4 DEF Sz
  <2> QED BY <1>2, <2>1, <2>2, <2>5 DEF Sz
<1> QED BY <1>1, <1>2, <1>3, HoldingInv

(* The other steps between two writes to shared memory.                       *)
LEMMA HoldInv ==
  ASSUME Hypotheses, Typed, NEW K, NEW O, NEW R, Inv(K, O, R), NEW a, Deletes(a),
         ScanHit(a) \/ DelayLoad(a) \/ (DelayCas(a) /\ backward_deleting_list_ # del[a].ori)
  PROVE  Inv(K, O, R)'
<1>1. a \in Agents /\ del[a].node # NULL
  BY DEF ScanHit, DelayLoad, DelayCas, Deletes, Typed, Frames
<1>2. /\ del'[a].node = del[a].node /\ del'[a].rest = del[a].rest /\ del'[a].pc \in {"load", "link"}
      /\ \A b \in Agents : b # a => del'[b] = del[b]
      /\ UNCHANGED <<allocated, next_, hps, backward_deleting_list_>>
  BY <1>1 DEF ScanHit, DelayLoad, DelayCas, hazards, Typed, TypeOK, SanTypeOK, Frame
<1> QED BY <1>1, <1>2, HoldingInv

(* A scan that has seen every cell deletes the node.  No Pop relies on it:    *)
(* the cell of one that did would have been passed, against Protects.         *)
LEMMA ImmediateDeleteInv ==
  ASSUME Hypotheses, Typed, NEW K, NEW O, NEW R, Inv(K, O, R), NEW a, Deletes(a), ImmediateDelete(a)
  PROVE  \E J, P, Q : Inv(J, P, Q)'
<1>1. /\ del[a].pc = "scan" /\ del[a].i = SlotCount * Sz /\ a \in Agents
      /\ allocated' = allocated \ {del[a].node}
      /\ del'[a] = AfterDelete(a) /\ \A b \in Agents : b # a => del'[b] = del[b]
      /\ UNCHANGED <<next_, hps, backward_deleting_list_, head_>>
  BY DEF ImmediateDelete, Deletes, hazards, Typed, TypeOK, SanTypeOK
<1>2. /\ del'[a].node = NULL /\ del'[a].rest = del[a].rest
      /\ del'[a].pc \in {"none", "next", "exchange"}
  BY <1>1, AfterDeleteIs
<1>3. PICK n \in Nodes : n = del[a].node /\ K[n] = "hand" /\ O[n] = a
  BY <1>1, HandOf DEF Inv, Typed, Frames
<1>4. K \in [Nodes -> Kinds] /\ O \in [Nodes -> Agents] /\ R \in [Nodes -> Nat]
  BY DEF Inv, Book
<1>5. PICK J \in [Nodes -> Kinds] : J[n] = "free" /\ \A m \in Nodes : m # n => J[m] = K[m]
  BY <1>4, MoveOne DEF Kinds
<1>6. \A m \in Nodes : m # n => J[m] = K[m] /\ next_'[m] = next_[m]
  BY <1>1, <1>5
<1>7. Book(J, O, R)'
  BY <1>1, <1>3, <1>4, <1>5 DEF Inv, Book
<1>8. StackList(J, R)' /\ DelayedList(J, R)' /\ RestLists(J, O, R)'
  <2>1. Elsewhere(K, O, R, J, O, R, n)
    BY <1>6 DEF Elsewhere
  <2>2. \A b \in Agents : del'[b].rest = del[b].rest
    BY <1>1, <1>2
  <2> QED BY <1>1, <1>3, <1>5, <2>1, <2>2, StackElsewhere, DelayedElsewhere, RestsElsewhere DEF Inv
<1>9. Fresh(J, O)' /\ Popped(J, O)' /\ Producing(J)' /\ Filled(J)' /\ Emptied' /\ Counted(J)'
  BY <1>3, <1>5, <1>6, DeletionLeaves
<1>10. Guarding(J)'
  <2>1. ASSUME NEW u \in Threads, pc[u] \in {"pop_next", "pop_cas"} PROVE new[u] # n
    <3>1. PICK k \in 0 .. Sz - 1 : Protects(u, k)
      BY <2>1 DEF Inv, Guarding
    <3>2. PICK s \in SlotIds : s = SlotOf[u]
      BY <2>1, SlotOfPop DEF PopLabels
    <3>3. new[u] = n => SlotCount * Sz <= (s - 1) * Sz + k
      BY <1>1, <1>3, <3>1, <3>2 DEF Protects
    <3> QED BY <3>3, SlotAssumption DEF SlotIds, Sz
  <2> QED BY <1>1, <1>2, <1>3, <1>5, <1>6, <2>1, DeletionGuards
<1>11. InHands(J, O)'
  <2>1. \A m \in Nodes : ~(J[m] = "hand" /\ O[m] = a)
    BY <1>1, <1>3, <1>5 DEF Inv, InHands
  <2>2. ASSUME NEW b \in Agents, b # a
        PROVE  /\ \A m \in Nodes : J[m] = "hand" /\ O[m] = b <=> del'[b].node = m
               /\ del'[b].pc = "cas" => next_'[del'[b].node] = del'[b].ori
    BY <1>1, <1>3, <1>5, <2>2 DEF Inv, InHands
  <2> QED BY <1>2, <2>1, <2>2, NullAssumption DEF InHands
<1> QED BY <1>7, <1>8, <1>9, <1>10, <1>11 DEF Inv

(* The node in hand is written by its agent only.                             *)
LEMMA DelayLinkInv ==
  ASSUME Hypotheses, Typed, NEW K, NEW O, NEW R, Inv(K, O, R), NEW a, Deletes(a), DelayLink(a)
  PROVE  Inv(K, O, R)'
<1>1. PICK n \in Nodes : n = del[a].node /\ K[n] = "hand" /\ O[n] = a
  BY HandOf DEF DelayLink, Deletes, Inv, Typed, Frames
<1>2. /\ a \in Agents /\ next_'[n] = del[a].ori /\ \A m \in Nodes : m # n => next_'[m] = next_[m]
      /\ del'[a].node = n /\ del'[a].rest = del[a].rest /\ del'[a].pc = "cas" /\ del'[a].ori = del[a].ori
      /\ \A b \in Agents : b # a => del'[b] = del[b]
      /\ UNCHANGED <<allocated, hps, backward_deleting_list_, head_>>
  BY <1>1 DEF DelayLink, Deletes, hazards, Typed, TypeOK, SanTypeOK, Frame
<1>3. Book(K, O, R)'
  BY <1>2 DEF Inv, Book
<1>4. StackList(K, R)' /\ DelayedList(K, R)' /\ RestLists(K, O, R)'
  <2>1. Elsewhere(K, O, R, K, O, R, n)
    BY <1>2 DEF Elsewhere
  <2>2. \A b \in Agents : del'[b].rest = del[b].rest
    BY <1>2
  <2> QED BY <1>1, <1>2, <2>1, <2>2, StackElsewhere, DelayedElsewhere, RestsElsewhere DEF Inv
<1>5. Fresh(K, O)' /\ Popped(K, O)' /\ Producing(K)' /\ Filled(K)' /\ Emptied' /\ Counted(K)'
  BY <1>1, <1>2, DeletionLeaves
<1>6. Guarding(K)'
  BY <1>1, <1>2, DeletionGuards
<1>7. InHands(K, O)'
  <2>1. \A b \in Agents : b # a /\ del[b].pc = "cas" => del[b].node \in Nodes /\ del[b].node # n
    BY <1>1, HandOf DEF Inv, Typed, Frames
  <2> QED BY <1>1, <1>2, <2>1 DEF Inv, InHands
<1> QED BY <1>3, <1>4, <1>5, <1>6, <1>7 DEF Inv

(* The node in hand goes to the front of the delayed list.                    *)
LEMMA DelayCasOkInv ==
  ASSUME Hypotheses, Typed, NEW K, NEW O, NEW R, Inv(K, O, R), NEW a, Deletes(a),
         DelayCas(a), backward_deleting_list_ = del[a].ori
  PROVE  \E J, P, Q : Inv(J, P, Q)'
<1>1. /\ del[a].pc = "cas" /\ a \in Agents /\ backward_deleting_list_' = del[a].node
      /\ del'[a] = AfterDelete(a) /\ \A b \in Agents : b # a => del'[b] = del[b]
      /\ UNCHANGED <<allocated, next_, hps, head_>>
  BY DEF DelayCas, Deletes, hazards, Typed, TypeOK, SanTypeOK
<1>2. /\ del'[a].node = NULL /\ del'[a].rest = del[a].rest
      /\ del'[a].pc \in {"none", "next", "exchange"}
  BY <1>1, AfterDeleteIs
<1>3. PICK n \in Nodes : n = del[a].node /\ K[n] = "hand" /\ O[n] = a
  BY <1>1, HandOf DEF Inv, Typed, Frames
<1>4. /\ K \in [Nodes -> Kinds] /\ O \in [Nodes -> Agents] /\ R \in [Nodes -> Nat]
      /\ IsFiniteSet(Nodes) /\ Cardinality(At(K, "delayed")) + 1 \in Nat
  <2>1. At(K, "delayed") \subseteq Nodes /\ IsFiniteSet(Nodes)
    BY DEF At, Hypotheses, FiniteSystem
  <2> QED BY <2>1, FS_Subset, FS_CardinalityType DEF Inv, Book
<1>5. PICK J \in [Nodes -> Kinds] : J[n] = "delayed" /\ \A m \in Nodes : m # n => J[m] = K[m]
  BY <1>4, MoveOne DEF Kinds
<1>6. PICK Q \in [Nodes -> Nat] : /\ Q[n] = Cardinality(At(K, "delayed")) + 1
                                  /\ \A m \in Nodes : m # n => Q[m] = R[m]
  BY <1>4, RankOne
<1>7. \A m \in Nodes : m # n => J[m] = K[m] /\ next_'[m] = next_[m]
  BY <1>1, <1>5
<1>8. Elsewhere(K, O, R, J, O, Q, n)
  BY <1>6, <1>7 DEF Elsewhere
<1>9. Book(J, O, Q)'
  BY <1>1, <1>3, <1>4, <1>5 DEF Inv, Book
<1>10. StackList(J, Q)' /\ RestLists(J, O, Q)'
  <2>1. \A b \in Agents : del'[b].rest = del[b].rest
    BY <1>1, <1>2
  <2> QED BY <1>1, <1>3, <1>5, <1>8, <2>1, StackElsewhere, RestsElsewhere DEF Inv
<1>11. DelayedList(J, Q)'
  <2>1. At(J, "delayed") = At(K, "delayed") \cup {n} /\ n \notin At(K, "delayed")
    BY <1>3, <1>5 DEF At
  <2>2. next_[n] = backward_deleting_list_
    BY <1>1, <1>3 DEF DelayCas, Inv, InHands
  <2>3. \A m \in At(K, "delayed") : Q[m] = R[m] /\ next_'[m] = next_[m]
    BY <1>1, <1>6, <2>1 DEF At
  <2>4. IsList(At(K, "delayed") \cup {n}, Q, next_', n)
    BY <1>1, <1>4, <1>6, <2>1, <2>2, <2>3, ListPush DEF Inv, DelayedList
  <2>5. At(J, "delayed")' = At(J, "delayed")
    BY DEF At
  <2> QED BY <1>1, <1>3, <2>1, <2>4, <2>5 DEF DelayedList
<1>12. Fresh(J, O)' /\ Popped(J, O)' /\ Producing(J)' /\ Filled(J)' /\ Emptied' /\ Counted(J)'
  BY <1>3, <1>5, <1>7, DeletionLeaves
<1>13. Guarding(J)'
  BY <1>1, <1>2, <1>3, <1>5, <1>7, DeletionGuards
<1>14. InHands(J, O)'
  <2>1. \A m \in Nodes : ~(J[m] = "hand" /\ O[m] = a)
    BY <1>1, <1>3, <1>5 DEF Inv, InHands
  <2>2. ASSUME NEW b \in Agents, b # a
        PROVE  /\ \A m \in Nodes : J[m] = "hand" /\ O[m] = b <=> del'[b].node = m
               /\ del'[b].pc = "cas" => next_'[del'[b].node] = del'[b].ori
    BY <1>1, <1>3, <1>5, <2>2 DEF Inv, InHands
  <2> QED BY <1>2, <2>1, <2>2, NullAssumption DEF InHands
<1> QED BY <1>9, <1>10, <1>11, <1>12, <1>13, <1>14 DEF Inv

(* The first node of the part of a list that an agent has taken.              *)
LEMMA RestOfIs ==
  ASSUME Hypotheses, NEW K, NEW O, NEW R, RestLists(K, O, R), NEW a \in Agents, del[a].rest # NULL
  PROVE  del[a].rest \in Nodes /\ K[del[a].rest] = "rest" /\ O[del[a].rest] = a
<1>1. IsFiniteSet(Nodes) /\ IsList(RestOf(K, O, a), R, next_, del[a].rest)
  BY DEF RestLists, Hypotheses, FiniteSystem
<1>2. del[a].rest \in RestOf(K, O, a)
  BY <1>1, ListPop
<1> QED BY <1>2 DEF RestOf

(* An agent that takes the first of its nodes leaves a list of the others.    *)
LEMMA RestsPop ==
  ASSUME Hypotheses, NEW K, NEW O, NEW R, RestLists(K, O, R), NEW a \in Agents, del[a].rest # NULL,
         NEW J, J[del[a].rest] # "rest", \A m \in Nodes : m # del[a].rest => J[m] = K[m],
         next_' = next_, del'[a].rest = next_[del[a].rest],
         \A b \in Agents : b # a => del'[b].rest = del[b].rest
  PROVE  RestLists(J, O, R)'
<1>1. del[a].rest \in Nodes /\ K[del[a].rest] = "rest" /\ O[del[a].rest] = a
  BY RestOfIs
<1>2. IsFiniteSet(Nodes) /\ IsList(RestOf(K, O, a), R, next_, del[a].rest)
  BY DEF RestLists, Hypotheses, FiniteSystem
<1>3. IsList(RestOf(K, O, a) \ {del[a].rest}, R, next_, next_[del[a].rest])
  BY <1>2, ListPop
<1>4. RestOf(J, O, a) = RestOf(K, O, a) \ {del[a].rest}
  BY <1>1 DEF RestOf
<1>5. ASSUME NEW b \in Agents, b # a PROVE RestOf(J, O, b) = RestOf(K, O, b)
  BY <1>1, <1>5 DEF RestOf
<1>6. \A b \in Agents : IsList(RestOf(J, O, b), R, next_', del'[b].rest)
  BY <1>3, <1>4, <1>5 DEF RestLists
<1>7. \A b \in Agents : RestOf(J, O, b)' = RestOf(J, O, b)
  BY DEF RestOf
<1> QED BY <1>6, <1>7 DEF RestLists

(* _BackLoopDelete takes the next node of its list in hand.                   *)
LEMMA BackNextInv ==
  ASSUME Hypotheses, Typed, NEW K, NEW O, NEW R, Inv(K, O, R), NEW a, Deletes(a), BackNext(a)
  PROVE  \E J, P, Q : Inv(J, P, Q)'
<1>1. /\ del[a].pc = "next" /\ a \in Agents /\ del[a].node = NULL /\ del[a].rest # NULL
      /\ del'[a].pc = "scan" /\ del'[a].node = del[a].rest /\ del'[a].i = 0
      /\ del'[a].rest = next_[del[a].rest]
      /\ \A b \in Agents : b # a => del'[b] = del[b]
      /\ UNCHANGED <<allocated, next_, hps, backward_deleting_list_, head_>>
  BY DEF BackNext, NoDel, Deletes, hazards, Typed, Frames, TypeOK, SanTypeOK
<1>2. PICK n \in Nodes : n = del[a].rest /\ K[n] = "rest" /\ O[n] = a
  <2>1. /\ del[a].rest \in Nodes /\ K[del[a].rest] = "rest" /\ O[del[a].rest] = a
    BY <1>1, RestOfIs DEF Inv
  <2> QED BY <2>1
<1>3. K \in [Nodes -> Kinds] /\ O \in [Nodes -> Agents] /\ R \in [Nodes -> Nat]
  BY DEF Inv, Book
<1>4. PICK J \in [Nodes -> Kinds] : J[n] = "hand" /\ \A m \in Nodes : m # n => J[m] = K[m]
  BY <1>3, MoveOne DEF Kinds
<1>5. \A m \in Nodes : m # n => J[m] = K[m] /\ next_'[m] = next_[m]
  BY <1>1, <1>4
<1>6. Book(J, O, R)'
  BY <1>1, <1>2, <1>3, <1>4 DEF Inv, Book
<1>7. StackList(J, R)' /\ DelayedList(J, R)'
  <2>1. Elsewhere(K, O, R, J, O, R, n)
    BY <1>5 DEF Elsewhere
  <2> QED BY <1>1, <1>2, <1>4, <2>1, StackElsewhere, DelayedElsewhere DEF Inv
<1>8. RestLists(J, O, R)'
  BY <1>1, <1>2, <1>4, RestsPop DEF Inv
<1>9. Fresh(J, O)' /\ Popped(J, O)' /\ Producing(J)' /\ Filled(J)' /\ Emptied' /\ Counted(J)'
  BY <1>2, <1>4, <1>5, DeletionLeaves
<1>10. Guarding(J)'
  <2>1. ASSUME NEW u \in Threads, NEW k \in 0 .. Sz - 1, pc[u] \in {"pop_next", "pop_cas"}
        PROVE  del'[a].i <= (SlotOf[u] - 1) * Sz + k
    <3>1. PICK s \in SlotIds : s = SlotOf[u]
      BY <2>1, SlotOfPop DEF PopLabels
    <3> QED BY <1>1, <3>1, SlotAssumption DEF SlotIds, Sz
  <2> QED BY <1>1, <1>2, <1>4, <1>5, <2>1, DeletionGuards
<1>11. InHands(J, O)'
  <2>1. \A m \in Nodes : J[m] = "hand" /\ O[m] = a <=> m = n
    <3>1. \A m \in Nodes : ~(K[m] = "hand" /\ O[m] = a)
      BY <1>1, NullAssumption DEF Inv, InHands
    <3> QED BY <1>2, <1>4, <3>1
  <2>2. ASSUME NEW b \in Agents, b # a
        PROVE  /\ \A m \in Nodes : J[m] = "hand" /\ O[m] = b <=> del'[b].node = m
               /\ del'[b].pc = "cas" => next_'[del'[b].node] = del'[b].ori
    BY <1>1, <1>2, <1>4, <2>2 DEF Inv, InHands
  <2> QED BY <1>1, <1>2, <2>1, <2>2 DEF InHands
<1> QED BY <1>6, <1>7, <1>8, <1>9, <1>10, <1>11 DEF Inv

(* The background thread begins a turn with nothing in hand.                  *)
LEMMA BackWakeInv ==
  ASSUME Hypotheses, Typed, NEW K, NEW O, NEW R, Inv(K, O, R),
         BackWake, UNCHANGED <<head_, size_, data, locals>>
  PROVE  Inv(K, O, R)'
<1>1. /\ del[Back].node = NULL /\ del[Back].rest = NULL /\ Back \in Agents
      /\ UNCHANGED <<allocated, next_, hps, backward_deleting_list_, pc, ori, new, nxt, val>>
  BY BackAssumption, MainAssumption DEF BackWake, hazards, locals, Typed, Frames, Agents
<1>2. /\ del'[Back].node = NULL /\ del'[Back].rest = NULL /\ del'[Back].pc = "exchange"
      /\ \A a \in Agents : a # Back => del'[a] = del[a]
  BY <1>1 DEF BackWake, NoDel, Typed, TypeOK, SanTypeOK
<1>3. Book(K, O, R)' /\ StackList(K, R)' /\ DelayedList(K, R)'
  BY <1>1 DEF Inv, Book, StackList, DelayedList, At
<1>4. RestLists(K, O, R)'
  <2>1. \A a \in Agents : del'[a].rest = del[a].rest
    BY <1>1, <1>2
  <2> QED BY <1>1, <2>1 DEF Inv, RestLists, RestOf
<1>5. Fresh(K, O)' /\ Popped(K, O)' /\ Producing(K)' /\ Filled(K)' /\ Emptied'
  BY <1>1 DEF Inv, Fresh, Popped, Producing, Filled, Emptied
<1>6. InHands(K, O)'
  <2>1. \A a \in Agents : del'[a].node = del[a].node /\ (del'[a].pc = "cas" => del'[a] = del[a])
    BY <1>1, <1>2
  <2> QED BY <1>1, <2>1 DEF Inv, InHands
<1>7. Guarding(K)'
  <2>1. \A u \in Threads, k \in 0 .. Sz - 1 : Protects(u, k) => Protects(u, k)'
    BY <1>1, <1>2 DEF Protects
  <2> QED BY <1>1, <2>1 DEF Inv, Guarding
<1>8. Counted(K)'
  BY <1>1, CountSame DEF Inv
<1> QED BY <1>3, <1>4, <1>5, <1>6, <1>7, <1>8 DEF Inv

(* An agent with no nodes of its own takes all that are delayed.              *)
LEMMA TakeDelayed ==
  ASSUME Hypotheses, Typed, NEW K, NEW O, NEW R, Inv(K, O, R), NEW a \in Agents,
         del[a].rest = NULL, del[a].node = NULL,
         backward_deleting_list_' = NULL, del'[a].rest = backward_deleting_list_,
         del'[a].node = NULL, del'[a].pc \notin {"scan", "cas"},
         \A b \in Agents : b # a => del'[b] = del[b],
         UNCHANGED <<allocated, next_, hps, head_, size_, data, ori, new, nxt, val>>,
         \A t \in Threads : pc'[t] = pc[t] \/ {pc[t], pc'[t]} \subseteq DtorLabels,
         pc'[Main] \in {"dtor_stop", "dtor_join", "dtor_exchange"} \cup Freeing =>
           pc[Main] \in {"dtor_stop", "dtor_join", "dtor_exchange"} \cup Freeing
  PROVE  \E J, P, Q : Inv(J, P, Q)'
<1>1. /\ K \in [Nodes -> Kinds] /\ O \in [Nodes -> Agents] /\ R \in [Nodes -> Nat]
      /\ allocated = {n \in Nodes : K[n] # "free"}
  BY DEF Inv, Book
<1>2. \E J : J = [n \in Nodes |-> IF K[n] = "delayed" THEN "rest" ELSE K[n]]
  OBVIOUS
<1>3. PICK J : J = [n \in Nodes |-> IF K[n] = "delayed" THEN "rest" ELSE K[n]]
  BY <1>2
<1>4. PICK P : P = [n \in Nodes |-> IF K[n] = "delayed" THEN a ELSE O[n]]
  OBVIOUS
<1>5. /\ J \in [Nodes -> Kinds] /\ P \in [Nodes -> Agents]
      /\ \A n \in Nodes : K[n] = "delayed" => J[n] = "rest" /\ P[n] = a
      /\ \A n \in Nodes : K[n] # "delayed" => J[n] = K[n] /\ P[n] = O[n]
  BY <1>1, <1>3, <1>4 DEF Kinds
<1>6. \A t \in Threads : pc[t] # pc'[t] =>
        pc[t] \notin PushLabels \cup PopLabels /\ pc'[t] \notin PushLabels \cup PopLabels
  BY DEF DtorLabels, PushLabels, PopLabels
<1>7. Book(J, P, R)'
  BY <1>1, <1>5 DEF Book
<1>8. StackList(J, R)'
  <2>1. At(J, "list") = At(K, "list")
    BY <1>5 DEF At
  <2> QED BY <2>1, KeepStack DEF Inv
<1>9. DelayedList(J, R)'
  <2>1. At(J, "delayed") = {}
    BY <1>5 DEF At
  <2>2. At(J, "delayed")' = At(J, "delayed")
    BY DEF At
  <2> QED BY <2>1, <2>2, ListNull DEF DelayedList
<1>10. RestLists(J, P, R)'
  <2>1. \A n \in Nodes : ~(K[n] = "rest" /\ O[n] = a)
    BY DEF Inv, RestLists, IsList, RestOf
  <2>2. RestOf(J, P, a) = At(K, "delayed")
    BY <1>5, <2>1 DEF RestOf, At
  <2>3. ASSUME NEW b \in Agents, b # a PROVE RestOf(J, P, b) = RestOf(K, O, b)
    BY <1>5, <2>3 DEF RestOf
  <2>4. \A b \in Agents : IsList(RestOf(J, P, b), R, next_', del'[b].rest)
    BY <2>2, <2>3 DEF Inv, RestLists, DelayedList
  <2>5. \A b \in Agents : RestOf(J, P, b)' = RestOf(J, P, b)
    BY DEF RestOf
  <2> QED BY <2>4, <2>5 DEF RestLists
<1>11. Fresh(J, P)'
  <2>1. \A t \in Threads : pc'[t] \in {"push_cas", "push_reload"} <=> pc[t] \in {"push_cas", "push_reload"}
    BY <1>6 DEF PushLabels
  <2>2. \A n \in Nodes : J[n] = "new" <=> K[n] = "new"
    BY <1>5
  <2> QED BY <1>5, <2>1, <2>2 DEF Inv, Fresh
<1>12. Popped(J, P)'
  <2>1. \A t \in Threads : pc'[t] \in Limbo <=> pc[t] \in Limbo
    BY <1>6 DEF PopLabels, Limbo
  <2>2. \A n \in Nodes : J[n] = "limbo" <=> K[n] = "limbo"
    BY <1>5
  <2> QED BY <1>5, <2>1, <2>2 DEF Inv, Popped
<1>13. InHands(J, P)'
  <2>1. \A n \in Nodes : J[n] = "hand" <=> K[n] = "hand"
    BY <1>5
  <2>2. \A b \in Agents : del'[b].node = del[b].node /\ (del'[b].pc = "cas" => del'[b] = del[b])
    OBVIOUS
  <2> QED BY <1>5, <2>1, <2>2 DEF Inv, InHands
<1>14. Producing(J)'
  <2>1. \A t \in Threads : pc'[t] \in {"push_new", "push_cas", "push_reload"} => pc'[t] = pc[t]
    BY <1>6 DEF PushLabels
  <2>2. \A t \in Threads : ori[t] # NULL /\ J[ori[t]] = "list" => K[ori[t]] = "list"
    BY <1>5 DEF Typed, TypeOK, Ptr
  <2> QED BY <2>1, <2>2 DEF Inv, Producing
<1>15. Guarding(J)'
  <2>1. \A t \in Threads : pc'[t] \in {"pop_recheck", "pop_next", "pop_cas"} => pc'[t] = pc[t]
    BY <1>6 DEF PopLabels
  <2>2. \A t \in Threads, k \in 0 .. Sz - 1 : Protects(t, k) => Protects(t, k)'
    BY DEF Protects
  <2>3. \A t \in Threads : pc[t] \in {"pop_next", "pop_cas"} =>
          new[t] \in Nodes /\ K[new[t]] \notin {"free", "new"}
    BY PopHolds DEF Inv
  <2>4. \A n \in Nodes : /\ J[n] \in {"free", "new"} => K[n] \in {"free", "new"}
                         /\ J[n] = "list" => K[n] = "list"
    BY <1>5
  <2>5. ASSUME NEW t \in Threads, pc'[t] = "pop_recheck"
        PROVE  \E k \in 0 .. Sz - 1 : hps'[SlotOf[t]][k] = ori'[t]
    BY <2>1, <2>5 DEF Inv, Guarding
  <2>6. ASSUME NEW t \in Threads, pc'[t] \in {"pop_next", "pop_cas"}
        PROVE  J[new'[t]] \notin {"free", "new"} /\ \E k \in 0 .. Sz - 1 : Protects(t, k)'
    BY <2>1, <2>2, <2>3, <2>4, <2>6 DEF Inv, Guarding
  <2>7. ASSUME NEW t \in Threads, pc'[t] = "pop_cas", J[new'[t]] = "list"
        PROVE  nxt'[t] = next_'[new'[t]]
    BY <2>1, <2>3, <2>4, <2>7 DEF Inv, Guarding
  <2> QED BY <2>5, <2>6, <2>7 DEF Guarding
<1>16. Filled(J)'
  <2>1. \A t \in Threads : pc'[t] \in {"pop_swap", "pop_size", "pop_reset", "pop_release", "pop_return"} =>
          pc'[t] = pc[t]
    BY <1>6 DEF PopLabels
  <2>2. \A n \in Nodes : J[n] \in {"new", "list"} => K[n] = J[n]
    BY <1>5
  <2> QED BY <2>1, <2>2 DEF Inv, Filled
<1>17. Emptied'
  BY DEF Inv, Emptied
<1>18. Counted(J)'
  <2>1. At(J, "list") = At(K, "list")
    BY <1>5 DEF At
  <2>2. \A t \in Threads : /\ pc'[t] = "push_size" <=> pc[t] = "push_size"
                           /\ pc'[t] \in {"pop_swap", "pop_size"} <=> pc[t] \in {"pop_swap", "pop_size"}
    BY <1>6 DEF PushLabels, PopLabels
  <2> QED BY <2>1, <2>2, CountSame DEF Inv
<1> QED BY <1>7, <1>8, <1>9, <1>10, <1>11, <1>12, <1>13, <1>14, <1>15, <1>16, <1>17, <1>18 DEF Inv

(* _BackLoopDelete takes the whole delayed list.                              *)
LEMMA BackExchangeInv ==
  ASSUME Hypotheses, Typed, NEW K, NEW O, NEW R, Inv(K, O, R), NEW a, Deletes(a), BackExchange(a)
  PROVE  \E J, P, Q : Inv(J, P, Q)'
<1>1. /\ a \in Agents /\ del[a].rest = NULL /\ del[a].node = NULL
      /\ UNCHANGED <<allocated, next_, hps, head_, size_, data, pc, ori, new, nxt, val>>
  BY DEF BackExchange, Deletes, hazards, locals, Typed, Frames
<1>2. /\ backward_deleting_list_' = NULL /\ del'[a].rest = backward_deleting_list_
      /\ del'[a].node = NULL /\ del'[a].pc \notin {"scan", "cas"}
      /\ \A b \in Agents : b # a => del'[b] = del[b]
  BY <1>1 DEF BackExchange, NoDel, Typed, TypeOK, SanTypeOK
<1> QED BY <1>1, <1>2, TakeDelayed

(* The destructor takes the delayed nodes when its thread is in no deletion.  *)
LEMMA DtorTakeInv ==
  ASSUME Hypotheses, Typed, NEW K, NEW O, NEW R, Inv(K, O, R), DtorTake
  PROVE  \E J, P, Q : Inv(J, P, Q)'
<1>1. /\ pc[Main] = "dtor_exchange" /\ pc'[Main] = "dtor_free"
      /\ \A t \in Threads : t # Main => pc'[t] = pc[t]
      /\ UNCHANGED <<allocated, next_, hps, head_, size_, data, ori, new, nxt, val>>
  BY MainAssumption DEF DtorTake, DtorStep, DtorExchange, Goto, hazards, Typed, TypeOK
<1>2. Main \in Agents /\ del[Main].rest = NULL /\ del[Main].node = NULL /\ del[Main].pc = "none"
  BY <1>1, MainAssumption DEF Agents, Typed, Frames
<1>3. /\ backward_deleting_list_' = NULL /\ del'[Main].rest = backward_deleting_list_
      /\ del'[Main].node = NULL /\ del'[Main].pc \notin {"scan", "cas"}
      /\ \A b \in Agents : b # Main => del'[b] = del[b]
  BY <1>2 DEF DtorTake, DtorExchange, Typed, TypeOK, SanTypeOK, Frame
<1>4. \A t \in Threads : pc'[t] = pc[t] \/ {pc[t], pc'[t]} \subseteq DtorLabels
  BY <1>1 DEF DtorLabels
<1> QED BY <1>1, <1>2, <1>3, <1>4, TakeDelayed

(* The destructor deletes the first of its nodes: nobody is in a Pop.         *)
LEMMA DtorDeleteInv ==
  ASSUME Hypotheses, Typed, NEW K, NEW O, NEW R, Inv(K, O, R), DtorDelete
  PROVE  \E J, P, Q : Inv(J, P, Q)'
<1>1. /\ Main \in Threads /\ Main \in Agents /\ pc[Main] = "dtor_free" /\ del[Main].rest # NULL
      /\ \A t \in Threads : pc'[t] = pc[t]
      /\ allocated' = allocated \ {del[Main].rest}
      /\ UNCHANGED <<next_, hps, backward_deleting_list_, head_, size_, data, ori, new, nxt, val>>
  BY MainAssumption DEF DtorDelete, DtorStep, DtorFree, Goto, hazards, Agents, Typed, TypeOK
<1>2. /\ del'[Main].rest = next_[del[Main].rest] /\ del'[Main].node = del[Main].node
      /\ del'[Main].pc = del[Main].pc /\ del[Main].pc = "none"
      /\ \A b \in Agents : b # Main => del'[b] = del[b]
  BY <1>1 DEF DtorDelete, DtorFree, Typed, Frames, TypeOK, SanTypeOK, Frame
<1>3. \A t \in Threads : pc[t] \notin PushLabels \cup PopLabels
  BY <1>1, MainAssumption DEF Typed, Roles, PushLabels, PopLabels
<1>4. PICK n \in Nodes : n = del[Main].rest /\ K[n] = "rest" /\ O[n] = Main
  <2>1. /\ del[Main].rest \in Nodes /\ K[del[Main].rest] = "rest" /\ O[del[Main].rest] = Main
    BY <1>1, RestOfIs DEF Inv
  <2> QED BY <2>1
<1>5. K \in [Nodes -> Kinds] /\ O \in [Nodes -> Agents] /\ R \in [Nodes -> Nat]
  BY DEF Inv, Book
<1>6. PICK J \in [Nodes -> Kinds] : J[n] = "free" /\ \A m \in Nodes : m # n => J[m] = K[m]
  BY <1>5, MoveOne DEF Kinds
<1>7. Book(J, O, R)'
  BY <1>1, <1>4, <1>5, <1>6 DEF Inv, Book
<1>8. StackList(J, R)' /\ DelayedList(J, R)'
  <2>1. Elsewhere(K, O, R, J, O, R, n)
    BY <1>1, <1>6 DEF Elsewhere
  <2> QED BY <1>1, <1>4, <1>6, <2>1, StackElsewhere, DelayedElsewhere DEF Inv
<1>9. RestLists(J, O, R)'
  <2>1. \A b \in Agents : b # Main => del'[b].rest = del[b].rest
    BY <1>2
  <2> QED BY <1>1, <1>2, <1>4, <1>6, <2>1, RestsPop DEF Inv
<1>10. Fresh(J, O)'
  BY <1>1, <1>4, <1>6 DEF Inv, Fresh
<1>11. Popped(J, O)'
  BY <1>1, <1>4, <1>6 DEF Inv, Popped
<1>12. InHands(J, O)'
  <2>1. \A b \in Agents : del'[b].node = del[b].node /\ (del'[b].pc = "cas" => del'[b] = del[b])
    BY <1>2
  <2> QED BY <1>1, <1>4, <1>6, <2>1 DEF Inv, InHands
<1>13. Producing(J)' /\ Guarding(J)'
  BY <1>1, <1>3 DEF Producing, Guarding, PushLabels, PopLabels
<1>14. Filled(J)'
  BY <1>1, <1>4, <1>6 DEF Inv, Filled
<1>15. Emptied'
  BY <1>1 DEF Inv, Emptied
<1>16. Counted(J)'
  <2>1. At(J, "list") = At(K, "list")
    BY <1>4, <1>6 DEF At
  <2> QED BY <1>1, <2>1, CountSame DEF Inv
<1> QED BY <1>7, <1>8, <1>9, <1>10, <1>11, <1>12, <1>13, <1>14, <1>15, <1>16 DEF Inv

-----------------------------------------------------------------------------
(* The invariant.                                                             *)

(* At first all nodes are free.                                               *)
LEMMA InitInv ==
  ASSUME Hypotheses, Init
  PROVE  \E K, O, R : Inv(K, O, R)
<1>1. PICK K : K = [n \in Nodes |-> "free"]
  OBVIOUS
<1>2. PICK O : O = [n \in Nodes |-> Main]
  OBVIOUS
<1>3. PICK R : R = [n \in Nodes |-> 0]
  OBVIOUS
<1>4. /\ \A t \in Threads : pc[t] = "idle"
      /\ \A a \in Agents : del[a] = NoDel
      /\ allocated = {} /\ head_ = NULL /\ backward_deleting_list_ = NULL /\ size_ = 0
      /\ Main \in Agents
  BY MainAssumption DEF Init, SanInit, Agents
<1>5. Book(K, O, R)
  BY <1>1, <1>2, <1>3, <1>4 DEF Book, Kinds
<1>6. At(K, "list") = {} /\ At(K, "delayed") = {} /\ \A a : RestOf(K, O, a) = {}
  BY <1>1 DEF At, RestOf
<1>7. StackList(K, R) /\ DelayedList(K, R)
  BY <1>4, <1>6, ListNull DEF StackList, DelayedList
<1>8. RestLists(K, O, R)
  BY <1>4, <1>6, ListNull DEF RestLists, NoDel
<1>9. Fresh(K, O) /\ Popped(K, O) /\ Producing(K) /\ Guarding(K) /\ Filled(K) /\ Emptied
  BY <1>1, <1>4, MainAssumption DEF Fresh, Popped, Producing, Guarding, Filled, Emptied, Limbo, Freeing
<1>10. InHands(K, O)
  BY <1>1, <1>4, NullAssumption DEF InHands, NoDel
<1>11. Counted(K)
  <2>1. Adding = {} /\ Taking = {}
    BY <1>4 DEF Adding, Taking
  <2>2. Cardinality(At(K, "list")) = 0 /\ Cardinality(Adding) = 0 /\ Cardinality(Taking) = 0
    BY <1>6, <2>1, FS_EmptySet
  <2>3. Rem(0, SizeMod) = 0
    BY SizeModAssumption, RemIs
  <2> QED BY <1>4, <2>2, <2>3 DEF Counted, Rem
<1> QED BY <1>5, <1>7, <1>8, <1>9, <1>10, <1>11 DEF Inv

(* Nothing changes when no variable does.                                     *)
LEMMA StutterInv ==
  ASSUME Typed, NEW K, NEW O, NEW R, Inv(K, O, R), UNCHANGED vars
  PROVE  Inv(K, O, R)'
<1>1. UNCHANGED <<allocated, next_, hps, backward_deleting_list_, del, head_, size_, data, pc, ori, new, nxt, val>>
  BY DEF vars, sanVars, locals
<1>2. Nodewise(K, O, R)'
  BY <1>1, NodesSame DEF Inv, Nodewise
<1>3. Fresh(K, O)' /\ Popped(K, O)' /\ Producing(K)' /\ Filled(K)' /\ Emptied'
  BY <1>1 DEF Inv, Fresh, Popped, Producing, Filled, Emptied
<1>4. Guarding(K)'
  BY <1>1 DEF Inv, Guarding, Protects
<1>5. Counted(K)'
  BY <1>1, CountSame DEF Inv
<1> QED BY <1>2, <1>3, <1>4, <1>5 DEF Inv, Nodewise

(* The steps of a deletion.                                                   *)
LEMMA DeleteInv ==
  ASSUME Hypotheses, Typed, NEW K, NEW O, NEW R, Inv(K, O, R), NEW a \in Agents,
         a = Back \/ pc[a] = "pop_return", Deletion(a)
  PROVE  \E J, P, Q : Inv(J, P, Q)'
<1>1. Deletes(a)
  BY DEF Deletes, Deletion
<1>2. CASE ScanMiss(a)
  BY <1>1, <1>2, ScanMissInv
<1>3. CASE ScanHit(a) \/ DelayLoad(a)
  BY <1>1, <1>3, HoldInv
<1>4. CASE ImmediateDelete(a)
  BY <1>1, <1>4, ImmediateDeleteInv
<1>5. CASE DelayLink(a)
  BY <1>1, <1>5, DelayLinkInv
<1>6. CASE DelayCas(a)
  <2>1. CASE backward_deleting_list_ = del[a].ori
    BY <1>1, <1>6, <2>1, DelayCasOkInv
  <2>2. CASE backward_deleting_list_ # del[a].ori
    BY <1>1, <1>6, <2>2, HoldInv
  <2> QED BY <2>1, <2>2
<1>7. CASE BackExchange(a)
  BY <1>1, <1>7, BackExchangeInv
<1>8. CASE BackNext(a)
  BY <1>1, <1>8, BackNextInv
<1> QED BY <1>2, <1>3, <1>4, <1>5, <1>6, <1>7, <1>8 DEF Deletion, DeleteStep

(* The steps of a thread.                                                     *)
LEMMA StepInv ==
  ASSUME Hypotheses, Typed, NEW K, NEW O, NEW R, Inv(K, O, R), NEW t \in Threads, Call(t) \/ Step(t)
  PROVE  \E J, P, Q : Inv(J, P, Q)'
<1>1. CASE Call(t)
  BY <1>1, PushCallInv, PopCallInv DEF Call
<1>2. CASE PushLoad(t) \/ PushNew(t) \/ PushReload(t) \/ PushSize(t)
  BY <1>2, PushLoadInv, PushNewInv, PushReloadInv, PushSizeInv
<1>3. CASE PushCas(t)
  <2>1. CASE head_ = ori[t]
    BY <1>3, <2>1, PushCasOkInv
  <2>2. CASE head_ # ori[t]
    BY <1>3, <2>2, PushCasFailsInv
  <2> QED BY <2>1, <2>2
<1>4. CASE PopLoad(t) \/ PopAccess(t) \/ PopRecheck(t) \/ PopNext(t)
  BY <1>4, PopLoadInv, PopAccessInv, PopRecheckInv, PopNextInv
<1>5. CASE PopCas(t)
  <2>1. CASE head_ = new[t]
    BY <1>5, <2>1, PopCasOkInv
  <2>2. CASE head_ # new[t]
    BY <1>5, <2>2, PopCasFailsInv
  <2> QED BY <2>1, <2>2
<1>6. CASE PopSwap(t) \/ PopSize(t) \/ PopReset(t) \/ PopRelease(t) \/ PopReturn(t)
  BY <1>6, PopSwapInv, PopSizeInv, PopResetInv, PopReleaseInv, PopReturnInv
<1>7. CASE Deletion(t)
  <2>1. t \in Agents /\ pc[t] = "pop_return"
    BY <1>7, DeletingThread DEF Deletion, Agents
  <2> QED BY <1>7, <2>1, DeleteInv
<1> QED BY <1>1, <1>2, <1>3, <1>4, <1>5, <1>6, <1>7 DEF Step

(* All steps: there are new places after each.                                *)
LEMMA NextInv ==
  ASSUME Hypotheses, Typed, NEW K, NEW O, NEW R, Inv(K, O, R), [Next]_vars
  PROVE  \E J, P, Q : Inv(J, P, Q)'
<1>1. CASE \E t \in Threads : Call(t) \/ Step(t)
  BY <1>1, StepInv
<1>2. CASE BackStep
  <2>1. Back \in Agents
    BY DEF Agents
  <2> QED BY <1>2, <2>1, BackWakeInv, DeleteInv DEF BackStep
<1>3. CASE Destroy \/ DtorLoop \/ DtorStop \/ DtorJoin \/ DtorEnd
  BY <1>3, DestroyInv, DtorLoopInv, DtorStopInv, DtorJoinInv, DtorEndInv
<1>4. CASE DtorTake \/ DtorDelete
  BY <1>4, DtorTakeInv, DtorDeleteInv
<1>5. CASE UNCHANGED vars
  BY <1>5, StutterInv
<1> QED BY <1>1, <1>2, <1>3, <1>4, <1>5 DEF Next, Destructor

(* Every reachable state has the invariant.                                   *)
THEOREM Inductive == ASSUME Hypotheses PROVE Spec => []IInv
<1>1. Init => IInv
  BY TypedInit, InitInv DEF IInv
<1>2. IInv /\ [Next]_vars => IInv'
  <2> SUFFICES ASSUME Typed, NEW K, NEW O, NEW R, Inv(K, O, R), [Next]_vars PROVE IInv'
    BY DEF IInv
  <2>1. Typed'
    BY NextTyped
  <2>2. \E J, P, Q : Inv(J, P, Q)'
    BY NextInv
  <2> QED BY <2>1, <2>2 DEF IInv
<1> QED BY <1>1, <1>2, PTL DEF Spec

-----------------------------------------------------------------------------
(* What follows from it.                                                      *)

(* The lists of the invariant are what the pointers reach.                    *)
LEMMA Reached ==
  ASSUME Hypotheses, Typed, NEW K, NEW O, NEW R, Inv(K, O, R)
  PROVE  /\ Chain(head_) = At(K, "list") /\ Chain(backward_deleting_list_) = At(K, "delayed")
         /\ \A a \in Agents : Chain(del[a].rest) = RestOf(K, O, a)
         /\ \A a \in Agents : \A n \in InHand(a) : n \in Nodes /\ K[n] = "hand" /\ O[n] = a
<1>1. /\ next_ \in [Nodes -> Ptr] /\ IsFiniteSet(Nodes)
      /\ head_ \in Ptr /\ backward_deleting_list_ \in Ptr
      /\ \A a \in Agents : del[a].rest \in Ptr
  BY DEF Typed, TypeOK, SanTypeOK, Hypotheses, FiniteSystem, Frame
<1>2. Chain(head_) = At(K, "list")
  BY <1>1, ChainIsList DEF Inv, StackList
<1>3. Chain(backward_deleting_list_) = At(K, "delayed")
  BY <1>1, ChainIsList DEF Inv, DelayedList
<1>4. ASSUME NEW a \in Agents PROVE Chain(del[a].rest) = RestOf(K, O, a)
  <2>1. IsList(RestOf(K, O, a), R, next_, del[a].rest)
    BY DEF Inv, RestLists
  <2> QED BY <1>1, <2>1, ChainIsList
<1>5. ASSUME NEW a \in Agents, NEW n \in InHand(a) PROVE n \in Nodes /\ K[n] = "hand" /\ O[n] = a
  BY HandOf DEF Inv, InHand
<1> QED BY <1>2, <1>3, <1>4, <1>5

(* The node that a thread follows has a place of its own, and that is not free. *)
LEMMA InvNoUse ==
  ASSUME Hypotheses, Typed, NEW K, NEW O, NEW R, Inv(K, O, R)
  PROVE  NoUseAfterFree
<1>1. allocated = {n \in Nodes : K[n] # "free"}
  BY DEF Inv, Book
<1>2. ASSUME NEW a \in Agents, del[a].rest # NULL PROVE del[a].rest \in allocated
  <2>1. RestLists(K, O, R)
    BY DEF Inv
  <2> QED BY <1>1, <1>2, <2>1, RestOfIs
<1>3. ASSUME NEW a \in Agents, del[a].node # NULL PROVE del[a].node \in allocated
  BY <1>1, <1>3, HandOf DEF Inv
<1>4. ASSUME NEW t \in Threads PROVE Touches(t) \subseteq allocated
  <2>1. CASE pc[t] = "push_reload"
    <3>1. new[t] \in Nodes /\ K[new[t]] = "new"
      BY <2>1 DEF Inv, Fresh, Typed, TypeOK, Locals, Ptr
    <3> QED BY <1>1, <2>1, <3>1 DEF Touches
  <2>2. CASE pc[t] = "pop_next"
    <3>1. new[t] \in Nodes /\ K[new[t]] # "free"
      BY <2>2, PopHolds DEF Inv
    <3> QED BY <1>1, <2>2, <3>1 DEF Touches
  <2>3. CASE pc[t] = "pop_swap"
    <3>1. ori[t] \in Nodes /\ K[ori[t]] = "limbo"
      BY <2>3, PopHolds DEF Inv, Limbo
    <3> QED BY <1>1, <2>3, <3>1 DEF Touches
  <2>4. CASE pc[t] = "dtor_free"
    <3>1. t \in Agents
      BY DEF Agents
    <3> QED BY <1>2, <2>4, <3>1 DEF Touches
  <2>5. CASE pc[t] \notin {"push_reload", "pop_next", "pop_swap", "dtor_free"}
    BY <2>5 DEF Touches
  <2> QED BY <2>1, <2>2, <2>3, <2>4, <2>5
<1>5. ASSUME NEW a \in Agents PROVE DeleteTouches(a) \subseteq allocated
  <2>1. CASE del[a].pc = "scan" \/ del[a].pc = "link"
    <3>1. del[a].node \in allocated
      BY <1>3, <2>1 DEF Typed, Frames
    <3> QED BY <2>1, <3>1 DEF DeleteTouches
  <2>2. CASE del[a].pc = "next"
    <3>1. del[a].rest \in allocated
      BY <1>2, <2>2 DEF Typed, Frames
    <3> QED BY <2>2, <3>1 DEF DeleteTouches
  <2>3. CASE del[a].pc \notin {"scan", "link", "next"}
    BY <2>3 DEF DeleteTouches
  <2> QED BY <2>1, <2>2, <2>3
<1> QED BY <1>4, <1>5 DEF NoUseAfterFree

(* Different places hold different nodes.                                     *)
LEMMA InvOnce ==
  ASSUME Hypotheses, Typed, NEW K, NEW O, NEW R, Inv(K, O, R)
  PROVE  RetiredOnce
<1>1. ASSUME NEW n \in Chain(backward_deleting_list_) PROVE n \in Nodes /\ K[n] = "delayed"
  BY Reached DEF At
<1>2. ASSUME NEW a \in Agents, NEW n \in InHand(a) PROVE n \in Nodes /\ K[n] = "hand" /\ O[n] = a
  BY Reached
<1>3. ASSUME NEW a \in Agents, NEW n \in Chain(del[a].rest) PROVE n \in Nodes /\ K[n] = "rest" /\ O[n] = a
  <2>1. n \in RestOf(K, O, a)
    BY Reached
  <2> QED BY <2>1 DEF RestOf
<1>4. ASSUME NEW a \in Agents, NEW n \in InHand(a) \cup Chain(del[a].rest)
      PROVE  n \in Nodes /\ K[n] # "delayed" /\ O[n] = a
  BY <1>2, <1>3
<1>5. \A a \in Agents : \A n \in InHand(a) \cup Chain(del[a].rest) : n \notin Chain(backward_deleting_list_)
  BY <1>1, <1>4
<1>6. \A a \in Agents : \A n \in InHand(a) : n \notin Chain(del[a].rest)
  BY <1>2, <1>3
<1>7. \A a, b \in Agents : a # b => \A n \in InHand(a) \cup Chain(del[a].rest) : n \notin InHand(b) \cup Chain(del[b].rest)
  BY <1>4
<1> QED BY <1>5, <1>6, <1>7 DEF RetiredOnce

(* At the end of the destructor each place is empty: nobody is in a call, the *)
(* stack was emptied by its loop, and the lists by the background thread and  *)
(* by the final deletions.                                                    *)
LEMMA InvEmpty ==
  ASSUME Hypotheses, Typed, NEW K, NEW O, NEW R, Inv(K, O, R)
  PROVE  NothingLeaks
<1> SUFFICES ASSUME pc[Main] = "destroyed", NEW n \in Nodes PROVE K[n] = "free"
  BY DEF NothingLeaks, Inv, Book
<1>1. \A t \in Threads : t # Main => pc[t] = "idle"
  BY DEF Typed, Roles
<1>2. head_ = NULL /\ backward_deleting_list_ = NULL /\ ~isBackSanitizer_
  BY DEF Typed, Phases, Inv, Emptied, Freeing
<1>3. \A a \in Agents : del[a].pc = "none"
  <2>1. del[Back].pc = "none"
    BY <1>2 DEF Typed, Phases
  <2>2. \A t \in Threads : pc[t] # "pop_return"
    BY <1>1
  <2> QED BY <2>1, <2>2 DEF Agents, Typed, Frames
<1>4. \A a \in Agents : del[a].node = NULL /\ del[a].rest = NULL
  <2>1. \A a \in Agents : del[a].node = NULL
    BY <1>3 DEF Typed, Frames
  <2>2. \A a \in Agents : ~del[a].loop
    BY <1>3 DEF Typed, Frames
  <2>3. \A a \in Agents : del[a].rest # NULL => FALSE
    BY <2>2 DEF Typed, Frames
  <2> QED BY <2>1, <2>3
<1>5. K[n] # "list"
  BY <1>2 DEF Inv, StackList, IsList, At
<1>6. K[n] # "delayed"
  BY <1>2 DEF Inv, DelayedList, IsList, At
<1>7. K[n] # "rest"
  <2>1. O[n] \in Agents
    BY DEF Inv, Book
  <2>2. IsList(RestOf(K, O, O[n]), R, next_, NULL)
    BY <1>4, <2>1 DEF Inv, RestLists
  <2>3. RestOf(K, O, O[n]) = {}
    BY <2>2 DEF IsList
  <2> QED BY <2>3 DEF RestOf
<1>8. K[n] # "hand"
  BY <1>4, NullAssumption DEF Inv, Book, InHands
<1>9. K[n] # "new" /\ K[n] # "limbo"
  BY <1>1 DEF Inv, Fresh, Popped, Limbo
<1> QED BY <1>5, <1>6, <1>7, <1>8, <1>9 DEF Inv, Book, Kinds

(* The nodes of the list are allocated and nowhere else.                      *)
LEMMA InvLive ==
  ASSUME Hypotheses, Typed, NEW K, NEW O, NEW R, Inv(K, O, R)
  PROVE  ListIsLive
<1>1. \A n \in Chain(head_) : n \in Nodes /\ K[n] = "list"
  BY Reached DEF At
<1>2. ASSUME NEW n \in Retired PROVE K[n] # "list"
  <2>1. CASE n \in Chain(backward_deleting_list_)
    BY <2>1, Reached DEF At
  <2>2. ASSUME NEW a \in Agents, n \in InHand(a) PROVE K[n] # "list"
    BY <2>2, Reached
  <2>3. ASSUME NEW a \in Agents, n \in Chain(del[a].rest) PROVE K[n] # "list"
    <3>1. n \in RestOf(K, O, a)
      BY <2>3, Reached
    <3> QED BY <3>1 DEF RestOf
  <2> QED BY <2>1, <2>2, <2>3 DEF Retired
<1>3. allocated = {n \in Nodes : K[n] # "free"}
  BY DEF Inv, Book
<1>4. \A n \in Chain(head_) : n \in allocated /\ n \notin Retired
  BY <1>1, <1>2, <1>3
<1> QED BY <1>4 DEF ListIsLive

(* The list of the invariant is the one that size_ counts.                    *)
LEMMA InvSize ==
  ASSUME Hypotheses, Typed, NEW K, NEW O, NEW R, Inv(K, O, R)
  PROVE  SizeAccounts
<1>1. Counted(K) /\ Chain(head_) = At(K, "list")
  BY Reached DEF Inv
<1> QED BY <1>1 DEF SizeAccounts, Counted, Adding, Taking

(* No thread follows a pointer to a node that has been deleted, whatever the  *)
(* interleaving of its access, its recheck and the scans of the others        *)
(* (Concurrent.hpp, Pop; Sanitizer.hpp, _Delete); a node is retired in one    *)
(* place; and the destructor leaves none allocated.                           *)
THEOREM MemoryIsSafe == ASSUME Hypotheses PROVE Spec => []MemorySafe
<1>1. IInv => MemorySafe
  BY InvNoUse, InvOnce, InvEmpty DEF IInv, MemorySafe
<1> QED BY <1>1, Inductive, PTL

(* The list of the stack holds nodes that are allocated and not retired, and  *)
(* size_ counts them but for the operations that have moved head_ and not yet *)
(* reached their fetch_add or fetch_sub.                                      *)
THEOREM StackKeepsShape == ASSUME Hypotheses PROVE Spec => []StackShape
<1>1. IInv => StackShape
  BY InvLive, InvSize DEF IInv, Typed, StackShape
<1> QED BY <1>1, Inductive, PTL

-----------------------------------------------------------------------------
(* What Contents computes.                                                    *)

(* Contents of the list that starts at h.                                     *)
ContentsOf(nx, d, h) ==
  LET walk[k \in 0 .. Cardinality(Nodes)] ==
        [n \in Ptr |-> IF n = NULL \/ k = 0 THEN <<>> ELSE <<d[n]>> \o walk[k - 1][nx[n]]]
  IN walk[Cardinality(Nodes)][h]

(* Its recursion, to the depth N.                                             *)
Walks(g, N, nx, d) ==
  g = [k \in 0 .. N |-> [n \in Ptr |->
         IF n = NULL \/ k = 0 THEN <<>> ELSE <<d[n]>> \o g[k - 1][nx[n]]]]

(* One more level can always be added.                                        *)
LEMMA WalkMore ==
  ASSUME NEW N \in Nat, NEW nx \in [Nodes -> Ptr], NEW d, NEW g, Walks(g, N, nx, d)
  PROVE  \E h : Walks(h, N + 1, nx, d)
<1>1. PICK h : h = [k \in 0 .. (N+1) |-> [n \in Ptr |->
                     IF n = NULL \/ k = 0 THEN <<>> ELSE <<d[n]>> \o g[k - 1][nx[n]]]]
  OBVIOUS
<1>2. \A k \in 0..N : g[k] = [n \in Ptr |->
                     IF n = NULL \/ k = 0 THEN <<>> ELSE <<d[n]>> \o g[k - 1][nx[n]]]
  BY DEF Walks
<1>3. \A k \in 0..(N+1) : h[k] = [n \in Ptr |->
                     IF n = NULL \/ k = 0 THEN <<>> ELSE <<d[n]>> \o g[k - 1][nx[n]]]
  BY <1>1
<1>4. ASSUME NEW k \in 0..N PROVE h[k] = g[k]
  <2>1. k \in 0..(N+1)
    OBVIOUS
  <2>2. PICK f : f = [n \in Ptr |-> IF n = NULL \/ k = 0 THEN <<>> ELSE <<d[n]>> \o g[k - 1][nx[n]]]
    OBVIOUS
  <2>3. h[k] = f
    BY <1>3, <2>1, <2>2
  <2>4. g[k] = f
    BY <1>2, <2>2
  <2> QED BY <2>3, <2>4
<1>5. \A k \in 0..(N+1) : k = 0 \/ h[k-1] = g[k-1]
  BY <1>4
<1>6. h = [k \in 0 .. (N+1) |-> [n \in Ptr |->
             IF n = NULL \/ k = 0 THEN <<>> ELSE <<d[n]>> \o h[k - 1][nx[n]]]]
  <2>1. ASSUME NEW k \in 0..(N+1)
        PROVE  h[k] = [n \in Ptr |->
                 IF n = NULL \/ k = 0 THEN <<>> ELSE <<d[n]>> \o h[k - 1][nx[n]]]
    <3>1. CASE k = 0
      BY <1>3, <3>1
    <3>2. CASE k # 0
      BY <1>3, <1>5, <3>2
    <3> QED BY <3>1, <3>2
  <2>2. h = [k \in 0 .. (N+1) |-> h[k]]
    BY <1>1
  <2> QED BY <2>1, <2>2
<1> QED BY <1>6 DEF Walks

(* For every depth there is such a recursion.                                 *)
LEMMA WalkExists ==
  ASSUME NEW nx \in [Nodes -> Ptr], NEW d, NEW N \in Nat
  PROVE  \E g : Walks(g, N, nx, d)
<1>1. PICK P : P = {n \in Nat : \E g : Walks(g, n, nx, d)}
  OBVIOUS
<1>2. 0 \in P
  <2>1. PICK g : g = [k \in 0 .. 0 |-> [n \in Ptr |-> <<>>]]
    OBVIOUS
  <2>2. g = [k \in 0 .. 0 |-> [n \in Ptr |->
               IF n = NULL \/ k = 0 THEN <<>> ELSE <<d[n]>> \o g[k - 1][nx[n]]]]
    BY <2>1
  <2>3. Walks(g, 0, nx, d)
    BY <2>2 DEF Walks
  <2> QED BY <1>1, <2>3
<1>3. \A n \in Nat : n \in P => n + 1 \in P
  BY <1>1, WalkMore
<1>4. N \in P
  BY <1>2, <1>3, SetInduction
<1> QED BY <1>1, <1>4

(* Contents reads it at the depth of all nodes.                               *)
LEMMA ContentsWalk ==
  ASSUME NEW nx \in [Nodes -> Ptr], NEW d, IsFiniteSet(Nodes)
  PROVE  \E g : /\ Walks(g, Cardinality(Nodes), nx, d)
                /\ \A h : ContentsOf(nx, d, h) = g[Cardinality(Nodes)][h]
<1>1. \E g : Walks(g, Cardinality(Nodes), nx, d)
  BY WalkExists, FS_CardinalityType
<1>2. PICK g : g = CHOOSE f : Walks(f, Cardinality(Nodes), nx, d)
  OBVIOUS
<1>3. Walks(g, Cardinality(Nodes), nx, d)
  BY <1>1, <1>2
<1>4. \A h : ContentsOf(nx, d, h) = g[Cardinality(Nodes)][h]
  BY <1>2 DEF ContentsOf, Walks
<1> QED BY <1>3, <1>4

(* One level of the recursion.                                                *)
LEMMA WalkUnfolds ==
  ASSUME NEW N \in Nat, NEW nx \in [Nodes -> Ptr], NEW d, NEW g, Walks(g, N, nx, d)
  PROVE  /\ \A m \in Ptr : g[0][m] = <<>>
         /\ \A k \in 0..N : g[k][NULL] = <<>>
<1>1. \A k \in 0..N : g[k] = [n \in Ptr |->
         IF n = NULL \/ k = 0 THEN <<>> ELSE <<d[n]>> \o g[k - 1][nx[n]]]
  BY DEF Walks
<1>2. \A m \in Ptr : g[0][m] = <<>>
  <2>1. 0 \in 0..N
    OBVIOUS
  <2>2. g[0] = [n \in Ptr |-> IF n = NULL \/ 0 = 0 THEN <<>> ELSE <<d[n]>> \o g[0 - 1][nx[n]]]
    BY <1>1, <2>1
  <2> QED BY <2>2
<1>3. \A k \in 0..N : g[k][NULL] = <<>>
  BY <1>1 DEF Ptr
<1> QED BY <1>2, <1>3

(* And the next one.                                                          *)
LEMMA WalkNext ==
  ASSUME NEW N \in Nat, NEW nx \in [Nodes -> Ptr], NEW d, NEW g, Walks(g, N, nx, d),
         NEW i \in Nat, i + 1 <= N, NEW m \in Nodes
  PROVE  g[i + 1][m] = <<d[m]>> \o g[i][nx[m]]
<1>1. PICK k \in 0..N : k = i + 1
  OBVIOUS
<1>2. m \in Ptr /\ m # NULL /\ k # 0
  BY <1>1, NullAssumption DEF Ptr
<1>3. g[k] = [n \in Ptr |-> IF n = NULL \/ k = 0 THEN <<>> ELSE <<d[n]>> \o g[k - 1][nx[n]]]
  BY DEF Walks
<1>4. g[k][m] = IF m = NULL \/ k = 0 THEN <<>> ELSE <<d[m]>> \o g[k - 1][nx[m]]
  BY <1>2, <1>3
<1>5. PICK x : x = k - 1
  OBVIOUS
<1>6. g[k][m] = <<d[m]>> \o g[x][nx[m]]
  BY <1>2, <1>4, <1>5
<1>7. x = i
  BY <1>1, <1>5
<1> QED BY <1>1, <1>6, <1>7

(* An empty list has no contents.                                             *)
LEMMA ContentsOfNull ==
  ASSUME NEW nx \in [Nodes -> Ptr], NEW d, IsFiniteSet(Nodes)
  PROVE  ContentsOf(nx, d, NULL) = <<>>
<1>1. PICK N \in Nat : N = Cardinality(Nodes)
  BY FS_CardinalityType
<1>2. PICK g : Walks(g, N, nx, d) /\ \A h : ContentsOf(nx, d, h) = g[N][h]
  BY <1>1, ContentsWalk
<1>3. g[N][NULL] = <<>>
  BY <1>2, WalkUnfolds
<1> QED BY <1>2, <1>3

(* The contents are a sequence of values.                                     *)
LEMMA ContentsType ==
  ASSUME NEW D, NEW nx \in [Nodes -> Ptr], NEW d \in [Nodes -> D], IsFiniteSet(Nodes), NEW h \in Ptr
  PROVE  ContentsOf(nx, d, h) \in Seq(D)
<1>1. PICK N \in Nat : N = Cardinality(Nodes)
  BY FS_CardinalityType
<1>2. PICK g : Walks(g, N, nx, d) /\ \A x : ContentsOf(nx, d, x) = g[N][x]
  BY <1>1, ContentsWalk
<1>3. PICK P : P = {k \in Nat : k <= N => \A m \in Ptr : g[k][m] \in Seq(D)}
  OBVIOUS
<1>4. 0 \in P
  <2>1. \A m \in Ptr : g[0][m] = <<>>
    BY <1>2, WalkUnfolds
  <2>2. <<>> \in Seq(D)
    OBVIOUS
  <2> QED BY <1>3, <2>1, <2>2
<1>5. ASSUME NEW k \in Nat, k \in P, k + 1 <= N, NEW m \in Ptr PROVE g[k + 1][m] \in Seq(D)
  <2>1. CASE m = NULL
    <3>1. PICK j \in 0..N : j = k + 1
      BY <1>5
    <3>2. g[j][NULL] = <<>>
      BY <1>2, WalkUnfolds
    <3>3. <<>> \in Seq(D)
      OBVIOUS
    <3> QED BY <2>1, <3>1, <3>2, <3>3
  <2>2. CASE m \in Nodes
    <3>1. k <= N
      BY <1>5
    <3>2. g[k + 1][m] = <<d[m]>> \o g[k][nx[m]]
      BY <1>2, <1>5, <2>2, WalkNext
    <3>3. g[k][nx[m]] \in Seq(D)
      BY <1>3, <1>5, <2>2, <3>1
    <3>4. <<d[m]>> \in Seq(D)
      BY <2>2
    <3> QED BY <3>2, <3>3, <3>4
  <2> QED BY <2>1, <2>2 DEF Ptr
<1>6. \A k \in Nat : k \in P => k + 1 \in P
  BY <1>3, <1>5
<1>7. N \in P
  BY <1>4, <1>6, SetInduction
<1> QED BY <1>2, <1>3, <1>7

(* A walk deeper than the rest of the list finds no more.                     *)
LEMMA WalkEnough ==
  ASSUME NEW N \in Nat, NEW nx \in [Nodes -> Ptr], NEW d, NEW g, Walks(g, N, nx, d),
         IsFiniteSet(Nodes), NEW S, NEW R, NEW h, IsList(S, R, nx, h)
  PROVE  \A k \in Nat : k < N => \A m \in S : R[m] <= k => g[k + 1][m] = g[k][m]
<1>0. /\ S \subseteq Nodes /\ Cardinality(S) \in Nat
      /\ \A m \in S : R[m] \in Nat /\ R[m] >= 1
  <2>1. S \subseteq Nodes /\ Cardinality(S) \in Nat
    BY FS_Subset, FS_CardinalityType DEF IsList
  <2> QED BY <2>1 DEF IsList
<1>1. PICK P : P = {k \in Nat : k < N => \A m \in S : R[m] <= k => g[k + 1][m] = g[k][m]}
  OBVIOUS
<1>2. 0 \in P
  <2>1. \A m \in S : ~ (R[m] <= 0)
    BY <1>0
  <2> QED BY <1>1, <2>1
<1>3. ASSUME NEW k \in Nat, k \in P, NEW j \in Nat, j = k + 1, j < N, NEW m \in S, R[m] <= j
      PROVE  g[j + 1][m] = g[j][m]
  <2>1. g[j + 1][m] = <<d[m]>> \o g[j][nx[m]]
    <3>1. j + 1 <= N /\ m \in Nodes
      BY <1>0, <1>3
    <3> QED BY <3>1, WalkNext
  <2>2. g[j][m] = <<d[m]>> \o g[k][nx[m]]
    <3>1. k + 1 <= N /\ m \in Nodes
      BY <1>0, <1>3
    <3>2. g[k + 1][m] = <<d[m]>> \o g[k][nx[m]]
      BY <3>1, WalkNext
    <3> QED BY <1>3, <3>2
  <2>3. g[j][nx[m]] = g[k][nx[m]]
    <3>1. CASE R[m] = 1
      <4>1. nx[m] = NULL
        BY <3>1 DEF IsList
      <4>2. j \in 0..N /\ k \in 0..N
        BY <1>3
      <4>3. g[j][NULL] = <<>> /\ g[k][NULL] = <<>>
        BY <4>2, WalkUnfolds
      <4> QED BY <4>1, <4>3
    <3>2. CASE R[m] # 1
      <4>1. nx[m] \in S /\ R[nx[m]] = R[m] - 1
        BY <3>2 DEF IsList
      <4>2. R[nx[m]] <= k /\ k < N
        BY <1>0, <1>3, <4>1
      <4>3. g[k + 1][nx[m]] = g[k][nx[m]]
        BY <1>1, <1>3, <4>1, <4>2
      <4> QED BY <1>3, <4>3
    <3> QED BY <3>1, <3>2
  <2> QED BY <2>1, <2>2, <2>3
<1>4. ASSUME NEW k \in Nat, k \in P PROVE k + 1 \in P
  <2>1. PICK j \in Nat : j = k + 1
    OBVIOUS
  <2>2. j < N => \A m \in S : R[m] <= j => g[j + 1][m] = g[j][m]
    BY <1>3, <1>4, <2>1
  <2> QED BY <1>1, <2>1, <2>2
<1>5. \A k \in Nat : k \in P
  BY <1>2, <1>4, SetInduction
<1> QED BY <1>1, <1>5

(* The contents begin with the value of the first node; those of the rest     *)
(* follow.                                                                    *)
LEMMA ContentsFirst ==
  ASSUME NEW nx \in [Nodes -> Ptr], NEW d, IsFiniteSet(Nodes), NEW S, NEW R, NEW h,
         IsList(S, R, nx, h), h # NULL
  PROVE  ContentsOf(nx, d, h) = <<d[h]>> \o ContentsOf(nx, d, nx[h])
<1>1. PICK N \in Nat : N = Cardinality(Nodes)
  BY FS_CardinalityType
<1>2. PICK g : Walks(g, N, nx, d) /\ \A x : ContentsOf(nx, d, x) = g[N][x]
  BY <1>1, ContentsWalk
<1>3. /\ S \subseteq Nodes /\ Cardinality(S) \in Nat /\ Cardinality(S) <= N
      /\ h \in S /\ R[h] = Cardinality(S) /\ R[h] >= 1
  BY <1>1, FS_Subset, FS_CardinalityType DEF IsList
<1>4. PICK M \in Nat : N = M + 1
  <2>1. N - 1 \in Nat /\ N = (N - 1) + 1
    BY <1>3
  <2> QED BY <2>1
<1>5. g[N][h] = <<d[h]>> \o g[M][nx[h]]
  <2>1. M + 1 <= N /\ h \in Nodes
    BY <1>3, <1>4
  <2>2. g[M + 1][h] = <<d[h]>> \o g[M][nx[h]]
    BY <1>2, <2>1, WalkNext
  <2> QED BY <1>4, <2>2
<1>6. g[N][nx[h]] = g[M][nx[h]]
  <2>1. CASE R[h] = 1
    <3>1. nx[h] = NULL
      BY <1>3, <2>1 DEF IsList
    <3>2. N \in 0..N /\ M \in 0..N
      BY <1>4
    <3>3. g[N][NULL] = <<>> /\ g[M][NULL] = <<>>
      BY <1>2, <3>2, WalkUnfolds
    <3> QED BY <3>1, <3>3
  <2>2. CASE R[h] # 1
    <3>1. nx[h] \in S /\ R[nx[h]] = R[h] - 1
      BY <1>3, <2>2 DEF IsList
    <3>2. R[nx[h]] <= M /\ M < N
      BY <1>3, <1>4, <3>1
    <3>3. g[M + 1][nx[h]] = g[M][nx[h]]
      BY <1>2, <3>1, <3>2, WalkEnough
    <3> QED BY <1>4, <3>3
  <2> QED BY <2>1, <2>2
<1> QED BY <1>2, <1>5, <1>6

(* The contents depend only on the nodes of the list.                         *)
LEMMA ContentsSame ==
  ASSUME NEW nx \in [Nodes -> Ptr], NEW d, NEW ny \in [Nodes -> Ptr], NEW e, IsFiniteSet(Nodes),
         NEW S, NEW R, NEW h, IsList(S, R, nx, h), \A m \in S : ny[m] = nx[m] /\ e[m] = d[m]
  PROVE  ContentsOf(ny, e, h) = ContentsOf(nx, d, h)
<1>1. PICK N \in Nat : N = Cardinality(Nodes)
  BY FS_CardinalityType
<1>2. PICK g : Walks(g, N, nx, d) /\ \A x : ContentsOf(nx, d, x) = g[N][x]
  BY <1>1, ContentsWalk
<1>3. PICK f : Walks(f, N, ny, e) /\ \A x : ContentsOf(ny, e, x) = f[N][x]
  BY <1>1, ContentsWalk
<1>4. S \subseteq Nodes
  BY DEF IsList
<1>5. PICK P : P = {k \in Nat : k <= N => \A m \in S : f[k][m] = g[k][m]}
  OBVIOUS
<1>6. 0 \in P
  <2>1. \A m \in S : f[0][m] = <<>> /\ g[0][m] = <<>>
    BY <1>2, <1>3, <1>4, WalkUnfolds DEF Ptr
  <2> QED BY <1>5, <2>1
<1>7. ASSUME NEW k \in Nat, k \in P, k + 1 <= N, NEW m \in S PROVE f[k + 1][m] = g[k + 1][m]
  <2>1. k \in 0..N /\ k <= N /\ m \in Nodes
    BY <1>4, <1>7
  <2>2. g[k + 1][m] = <<d[m]>> \o g[k][nx[m]]
    BY <1>2, <1>7, <2>1, WalkNext
  <2>3. f[k + 1][m] = <<d[m]>> \o f[k][ny[m]]
    <3>1. f[k + 1][m] = <<e[m]>> \o f[k][ny[m]]
      BY <1>3, <1>7, <2>1, WalkNext
    <3> QED BY <3>1
  <2>4. f[k][nx[m]] = g[k][nx[m]]
    <3>1. CASE nx[m] = NULL
      BY <1>2, <1>3, <2>1, <3>1, WalkUnfolds
    <3>2. CASE nx[m] # NULL
      <4>1. nx[m] \in S
        BY <3>2 DEF IsList
      <4> QED BY <1>5, <1>7, <2>1, <4>1
    <3> QED BY <3>1, <3>2
  <2>5. ny[m] = nx[m]
    OBVIOUS
  <2> QED BY <2>2, <2>3, <2>4, <2>5
<1>8. \A k \in Nat : k \in P => k + 1 \in P
  BY <1>5, <1>7
<1>9. N \in P
  BY <1>6, <1>8, SetInduction
<1>10. CASE h = NULL
  BY <1>10, ContentsOfNull
<1>11. CASE h # NULL
  BY <1>2, <1>3, <1>5, <1>9, <1>11 DEF IsList
<1> QED BY <1>10, <1>11

(* A sequence with one more value in front.                                   *)
LEMMA PushedFirst ==
  ASSUME NEW D, NEW v \in D, NEW s \in Seq(D)
  PROVE  /\ <<v>> \o s # <<>>
         /\ Head(<<v>> \o s) = v
         /\ Tail(<<v>> \o s) = s
<1>1. PICK q : q = <<v>> \o s
  OBVIOUS
<1>2. q \in Seq(D) /\ Len(q) = Len(s) + 1 /\ q[1] = v /\ \A i \in 1 .. Len(s) : q[i + 1] = s[i]
  BY <1>1
<1>3. Len(s) \in Nat /\ Len(q) # 0
  BY <1>2
<1>4. q # <<>>
  BY <1>3
<1>5. Head(q) = v
  BY <1>2, <1>4
<1>6. Tail(q) = s
  <2>1. Tail(q) \in Seq(D) /\ Len(Tail(q)) = Len(s)
    BY <1>2, <1>3, <1>4
  <2>2. \A i \in 1 .. Len(s) : Tail(q)[i] = s[i]
    BY <1>2, <1>3, <1>4
  <2> QED BY <2>1, <2>2
<1> QED BY <1>1, <1>4, <1>5, <1>6

-----------------------------------------------------------------------------
(* Each step is one of the atomic container, or none.                         *)

(* What the Push under way has put into its node is what it was called with.  *)
Carried == \A t \in Threads : pc[t] \in {"push_cas", "push_reload"} => data[new[t]] = val[t]

Ops == [t \in Threads |-> Op(t)]

(* Op as a function of what it reads.                                         *)
OpAt(l, v, d) ==
  CASE l \in {"push_load", "push_new", "push_cas", "push_reload"} -> [kind |-> "push", val |-> v]
    [] l = "push_size" -> [kind |-> "pushed", val |-> NoValue]
    [] l \in {"pop_load", "pop_access", "pop_recheck", "pop_next", "pop_cas"} ->
         [kind |-> "pop", val |-> NoValue]
    [] l = "pop_swap" -> [kind |-> "popped", val |-> d]
    [] l \in {"pop_size", "pop_reset", "pop_release", "pop_return"} -> [kind |-> "popped", val |-> v]
    [] OTHER -> [kind |-> "idle", val |-> NoValue]

(* What Op reads before a step, and after it.                                 *)
LEMMA OpReads ==
  ASSUME NEW u
  PROVE  Op(u) = OpAt(pc[u], val[u], data[ori[u]]) /\ Op(u)' = OpAt(pc'[u], val'[u], data'[ori'[u]])
  BY DEF Op, OpAt

(* Its value at each label.                                                   *)
LEMMA OpCases ==
  ASSUME NEW l, NEW v, NEW d
  PROVE  /\ l \in {"push_load", "push_new", "push_cas", "push_reload"} =>
              OpAt(l, v, d) = [kind |-> "push", val |-> v]
         /\ l = "push_size" => OpAt(l, v, d) = [kind |-> "pushed", val |-> NoValue]
         /\ l \in {"pop_load", "pop_access", "pop_recheck", "pop_next", "pop_cas"} =>
              OpAt(l, v, d) = [kind |-> "pop", val |-> NoValue]
         /\ l = "pop_swap" => OpAt(l, v, d) = [kind |-> "popped", val |-> d]
         /\ l \in {"pop_size", "pop_reset", "pop_release", "pop_return"} =>
              OpAt(l, v, d) = [kind |-> "popped", val |-> v]
         /\ l \in {"idle"} \cup DtorLabels => OpAt(l, v, d) = [kind |-> "idle", val |-> NoValue]
  BY DEF OpAt, DtorLabels

(* Only the Pop about to take its value looks at the data.                    *)
LEMMA OpData ==
  ASSUME NEW l, NEW v, NEW d, NEW e, l = "pop_swap" => e = d
  PROVE  OpAt(l, v, d) = OpAt(l, v, e)
<1>1. CASE l = "pop_swap"
  BY <1>1
<1>2. CASE l # "pop_swap"
  BY <1>2 DEF OpAt
<1> QED BY <1>1, <1>2

(* The operations of all threads, when the step moves that of t.              *)
LEMMA OpsMove ==
  ASSUME NEW t \in Threads, \A u \in Threads : u # t => Op(u)' = Op(u)
  PROVE  Ops' = [Ops EXCEPT ![t] = Op(t)']
  BY DEF Ops

(* And when it moves none.                                                    *)
LEMMA OpsKeep ==
  ASSUME \A u \in Threads : Op(u)' = Op(u)
  PROVE  Ops' = Ops
  BY DEF Ops

(* What a step of t writes into the memory: nothing, a new node, or what its  *)
(* Pop has taken.                                                             *)
Writes(K, t) ==
  \/ data' = data
  \/ \E n \in Nodes : K[n] = "free" /\ \A m \in Nodes : m # n => data'[m] = data[m]
  \/ pc[t] = "pop_swap" /\ \A m \in Nodes : m # ori[t] => data'[m] = data[m]

(* The operations of the other threads: the value that another Pop is about   *)
(* to take is in a node of its own.                                           *)
LEMMA OthersOp ==
  ASSUME Typed, NEW K, NEW O, NEW R, Inv(K, O, R), NEW t \in Threads, Writes(K, t),
         \A u \in Threads : u # t => pc'[u] = pc[u] /\ val'[u] = val[u] /\ ori'[u] = ori[u]
  PROVE  \A u \in Threads : u # t => Op(u)' = Op(u)
<1> SUFFICES ASSUME NEW u \in Threads, u # t PROVE Op(u)' = Op(u)
  OBVIOUS
<1>1. ASSUME pc[u] = "pop_swap" PROVE data'[ori[u]] = data[ori[u]]
  <2>1. ori[u] \in Nodes /\ K[ori[u]] = "limbo" /\ O[ori[u]] = u
    BY <1>1, PopHolds DEF Inv, Limbo
  <2>2. pc[t] = "pop_swap" => O[ori[t]] = t
    BY PopHolds DEF Inv, Limbo
  <2> QED BY <2>1, <2>2 DEF Writes
<1>2. OpAt(pc[u], val[u], data[ori[u]]) = OpAt(pc[u], val[u], data'[ori[u]])
  BY <1>1, OpData
<1> QED BY <1>2, OpReads

(* The contents, while the step leaves the nodes of the list as they are.     *)
LEMMA ContentsAre == Contents = ContentsOf(next_, data, head_) /\ Contents' = ContentsOf(next_', data', head_')
  BY DEF Contents, ContentsOf

LEMMA ContentsKept ==
  ASSUME Hypotheses, Typed, Typed', NEW K, NEW O, NEW R, Inv(K, O, R), head_' = head_,
         \A n \in Nodes : K[n] = "list" => next_'[n] = next_[n] /\ data'[n] = data[n]
  PROVE  Contents' = Contents
<1>1. IsList(At(K, "list"), R, next_, head_)
  BY DEF Inv, StackList
<1>2. next_ \in [Nodes -> Ptr] /\ next_' \in [Nodes -> Ptr] /\ IsFiniteSet(Nodes)
  BY DEF Typed, TypeOK, SanTypeOK, Hypotheses, FiniteSystem
<1>3. \A n \in At(K, "list") : next_'[n] = next_[n] /\ data'[n] = data[n]
  BY DEF At
<1>4. ContentsOf(next_', data', head_) = ContentsOf(next_, data, head_)
  BY <1>1, <1>2, <1>3, ContentsSame
<1> QED BY <1>4, ContentsAre

(* Carried, when no Push reaches its exchange: its node is nobody else's.     *)
LEMMA CarriedKept ==
  ASSUME Typed, NEW K, NEW O, NEW R, Inv(K, O, R), Carried,
         NEW t \in Threads, Writes(K, t),
         \A u \in Threads : pc'[u] \in {"push_cas", "push_reload"} =>
           pc[u] \in {"push_cas", "push_reload"} /\ val'[u] = val[u] /\ new'[u] = new[u]
  PROVE  Carried'
<1> SUFFICES ASSUME NEW u \in Threads, pc[u] \in {"push_cas", "push_reload"}
             PROVE  data'[new[u]] = data[new[u]]
  BY DEF Carried
<1>1. new[u] \in Nodes /\ K[new[u]] = "new"
  BY DEF Inv, Fresh, Typed, TypeOK, Locals, Ptr
<1>2. pc[t] = "pop_swap" => K[ori[t]] = "limbo"
  BY PopHolds DEF Inv, Limbo
<1> QED BY <1>1, <1>2 DEF Writes

(* What each step does to the container.                                      *)
Moves == Carried' /\ (Atomic!Next \/ (Contents' = Contents /\ Ops' = Ops))

(* A step of t that does not write to the list, nor change Carried.           *)
Aside(K, t) ==
  /\ Writes(K, t) /\ head_' = head_
  /\ \A n \in Nodes : K[n] = "list" => next_'[n] = next_[n] /\ data'[n] = data[n]
  /\ \A u \in Threads : u # t => pc'[u] = pc[u] /\ val'[u] = val[u] /\ ori'[u] = ori[u]
  /\ \A u \in Threads : pc'[u] \in {"push_cas", "push_reload"} =>
       pc[u] \in {"push_cas", "push_reload"} /\ val'[u] = val[u] /\ new'[u] = new[u]

(* What follows for the container.                                            *)
LEMMA AsideKeeps ==
  ASSUME Hypotheses, Typed, Typed', NEW K, NEW O, NEW R, Inv(K, O, R), Carried,
         NEW t \in Threads, Aside(K, t)
  PROVE  Contents' = Contents /\ Ops' = [Ops EXCEPT ![t] = Op(t)'] /\ Carried'
<1>1. Contents' = Contents
  BY ContentsKept DEF Aside
<1>2. Carried'
  BY CarriedKept DEF Aside
<1>3. Ops' = [Ops EXCEPT ![t] = Op(t)']
  BY OthersOp, OpsMove DEF Aside
<1> QED BY <1>1, <1>2, <1>3

(* If the operation of t does not move either, the container does not step.   *)
LEMMA SilentMoves ==
  ASSUME Hypotheses, Typed, Typed', NEW K, NEW O, NEW R, Inv(K, O, R), Carried,
         NEW t \in Threads, Aside(K, t), Op(t)' = Op(t)
  PROVE  Moves
<1>1. [Ops EXCEPT ![t] = Op(t)'] = Ops
  BY DEF Ops
<1> QED BY <1>1, AsideKeeps DEF Moves

(* The call of Push.                                                          *)
LEMMA CallPushMoves ==
  ASSUME Hypotheses, Typed, Typed', NEW K, NEW O, NEW R, Inv(K, O, R), Carried,
         NEW t \in Threads, Aside(K, t), NEW v \in Values,
         Op(t) = [kind |-> "idle", val |-> NoValue], Op(t)' = [kind |-> "push", val |-> v]
  PROVE  Moves
<1>1. Contents' = Contents /\ Ops' = [Ops EXCEPT ![t] = [kind |-> "push", val |-> v]] /\ Carried'
  BY AsideKeeps
<1>2. Ops'[t] # Ops[t] /\ Ops[t] = Op(t)
  BY <1>1 DEF Ops
<1>3. Atomic!CallPush(t, v)
  BY <1>1, <1>2 DEF Atomic!CallPush, Atomic!Idle, Ops
<1>4. Atomic!Next
  BY <1>2, <1>3 DEF Atomic!Next, Ops
<1> QED BY <1>1, <1>4 DEF Moves

(* The call of Pop.                                                           *)
LEMMA CallPopMoves ==
  ASSUME Hypotheses, Typed, Typed', NEW K, NEW O, NEW R, Inv(K, O, R), Carried,
         NEW t \in Threads, Aside(K, t),
         Op(t) = [kind |-> "idle", val |-> NoValue], Op(t)' = [kind |-> "pop", val |-> NoValue]
  PROVE  Moves
<1>1. Contents' = Contents /\ Ops' = [Ops EXCEPT ![t] = [kind |-> "pop", val |-> NoValue]] /\ Carried'
  BY AsideKeeps
<1>2. Ops'[t] # Ops[t] /\ Ops[t] = Op(t)
  BY <1>1 DEF Ops
<1>3. Atomic!CallPop(t)
  BY <1>1, <1>2 DEF Atomic!CallPop, Atomic!Idle, Ops
<1>4. Atomic!Next
  BY <1>2, <1>3 DEF Atomic!Next, Ops
<1> QED BY <1>1, <1>4 DEF Moves

(* The return of either.                                                      *)
LEMMA ReturnMoves ==
  ASSUME Hypotheses, Typed, Typed', NEW K, NEW O, NEW R, Inv(K, O, R), Carried,
         NEW t \in Threads, Aside(K, t), NEW v, NEW k \in {"pushed", "popped"},
         Op(t) = [kind |-> k, val |-> v], Op(t)' = [kind |-> "idle", val |-> NoValue]
  PROVE  Moves
<1>1. Contents' = Contents /\ Ops' = [Ops EXCEPT ![t] = [kind |-> "idle", val |-> NoValue]] /\ Carried'
  BY AsideKeeps
<1>2. Ops'[t] # Ops[t] /\ Ops[t] = Op(t)
  BY <1>1 DEF Ops
<1>3. Atomic!Return(t)
  BY <1>1, <1>2 DEF Atomic!Return, Atomic!Idle, Ops
<1>4. Atomic!Next
  BY <1>2, <1>3 DEF Atomic!Next, Ops
<1> QED BY <1>1, <1>4 DEF Moves

(* A Pop takes effect at the load that finds nullptr, for then the stack is empty. *)
LEMMA PopEmptyMoves ==
  ASSUME Hypotheses, Typed, Typed', NEW K, NEW O, NEW R, Inv(K, O, R), Carried,
         NEW t \in Threads, Aside(K, t), head_ = NULL,
         Op(t) = [kind |-> "pop", val |-> NoValue], Op(t)' = [kind |-> "idle", val |-> NoValue]
  PROVE  Moves
<1>1. Contents' = Contents /\ Ops' = [Ops EXCEPT ![t] = [kind |-> "idle", val |-> NoValue]] /\ Carried'
  BY AsideKeeps
<1>2. Ops'[t] # Ops[t] /\ Ops[t] = Op(t)
  BY <1>1 DEF Ops
<1>3. next_ \in [Nodes -> Ptr] /\ IsFiniteSet(Nodes)
  BY DEF Typed, TypeOK, SanTypeOK, Hypotheses, FiniteSystem
<1>4. Contents = <<>>
  BY <1>3, ContentsAre, ContentsOfNull
<1>5. Atomic!PopEmpty(t)
  BY <1>1, <1>2, <1>4 DEF Atomic!PopEmpty, Atomic!Idle, Ops
<1>6. Atomic!Next
  BY <1>2, <1>5 DEF Atomic!Next, Ops
<1> QED BY <1>1, <1>6 DEF Moves

(* The steps that only read, or write what nobody else sees.                  *)
LEMMA PushLoadMoves ==
  ASSUME Hypotheses, Typed, Typed', NEW K, NEW O, NEW R, Inv(K, O, R), Carried,
         NEW t \in Threads, PushLoad(t)
  PROVE  Moves
<1>1. /\ pc[t] = "push_load" /\ pc'[t] = "push_new" /\ val'[t] = val[t]
  BY DEF PushLoad, Goto, Typed, TypeOK, Set
<1>2. Aside(K, t)
  BY <1>1 DEF PushLoad, Aside, Writes, Goto, sanVars, program, Typed, TypeOK, Set
<1>3. Op(t) = [kind |-> "push", val |-> val[t]] /\ Op(t)' = [kind |-> "push", val |-> val'[t]]
  BY <1>1, OpReads, OpCases
<1> QED BY <1>1, <1>2, <1>3, SilentMoves

LEMMA PushSizeMoves ==
  ASSUME Hypotheses, Typed, Typed', NEW K, NEW O, NEW R, Inv(K, O, R), Carried,
         NEW t \in Threads, PushSize(t)
  PROVE  Moves
<1>1. /\ pc[t] = "push_size" /\ pc'[t] = "idle"
  BY DEF PushSize, Goto, Typed, TypeOK, Leave, Set
<1>2. Aside(K, t)
  BY <1>1 DEF PushSize, Aside, Writes, Goto, sanVars, program, Typed, TypeOK, Leave, Set
<1>3. Op(t) = [kind |-> "pushed", val |-> NoValue] /\ Op(t)' = [kind |-> "idle", val |-> NoValue]
  BY <1>1, OpReads, OpCases
<1> QED BY <1>1, <1>2, <1>3, ReturnMoves

LEMMA PopCallMoves ==
  ASSUME Hypotheses, Typed, Typed', NEW K, NEW O, NEW R, Inv(K, O, R), Carried,
         NEW t \in Threads, PopCall(t)
  PROVE  Moves
<1>1. /\ pc[t] = "idle" /\ pc'[t] = "pop_load"
  BY DEF PopCall, Goto, Typed, TypeOK
<1>2. Aside(K, t)
  BY <1>1 DEF PopCall, Aside, Writes, Goto, sanVars, program, Typed, TypeOK
<1>3. Op(t) = [kind |-> "idle", val |-> NoValue] /\ Op(t)' = [kind |-> "pop", val |-> NoValue]
  BY <1>1, OpReads, OpCases
<1> QED BY <1>1, <1>2, <1>3, CallPopMoves

LEMMA PopAccessMoves ==
  ASSUME Hypotheses, Typed, Typed', NEW K, NEW O, NEW R, Inv(K, O, R), Carried,
         NEW t \in Threads, PopAccess(t)
  PROVE  Moves
<1>1. /\ pc[t] = "pop_access" /\ pc'[t] = "pop_recheck"
  BY DEF PopAccess, Goto, Typed, TypeOK
<1>2. Aside(K, t)
  BY <1>1 DEF PopAccess, Aside, Writes, Goto, sanVars, program, Typed, TypeOK
<1>3. Op(t) = [kind |-> "pop", val |-> NoValue] /\ Op(t)' = [kind |-> "pop", val |-> NoValue]
  BY <1>1, OpReads, OpCases
<1> QED BY <1>1, <1>2, <1>3, SilentMoves

LEMMA PopNextMoves ==
  ASSUME Hypotheses, Typed, Typed', NEW K, NEW O, NEW R, Inv(K, O, R), Carried,
         NEW t \in Threads, PopNext(t)
  PROVE  Moves
<1>1. /\ pc[t] = "pop_next" /\ pc'[t] = "pop_cas"
  BY DEF PopNext, Goto, Typed, TypeOK, Set
<1>2. Aside(K, t)
  BY <1>1 DEF PopNext, Aside, Writes, Goto, sanVars, program, Typed, TypeOK, Set
<1>3. Op(t) = [kind |-> "pop", val |-> NoValue] /\ Op(t)' = [kind |-> "pop", val |-> NoValue]
  BY <1>1, OpReads, OpCases
<1> QED BY <1>1, <1>2, <1>3, SilentMoves

LEMMA PopSizeMoves ==
  ASSUME Hypotheses, Typed, Typed', NEW K, NEW O, NEW R, Inv(K, O, R), Carried,
         NEW t \in Threads, PopSize(t)
  PROVE  Moves
<1>1. /\ pc[t] = "pop_size" /\ pc'[t] = "pop_reset" /\ val'[t] = val[t]
  BY DEF PopSize, Goto, Typed, TypeOK
<1>2. Aside(K, t)
  BY <1>1 DEF PopSize, Aside, Writes, Goto, sanVars, program, Typed, TypeOK
<1>3. Op(t) = [kind |-> "popped", val |-> val[t]] /\ Op(t)' = [kind |-> "popped", val |-> val'[t]]
  BY <1>1, OpReads, OpCases
<1> QED BY <1>1, <1>2, <1>3, SilentMoves

LEMMA PopResetMoves ==
  ASSUME Hypotheses, Typed, Typed', NEW K, NEW O, NEW R, Inv(K, O, R), Carried,
         NEW t \in Threads, PopReset(t)
  PROVE  Moves
<1>1. /\ pc[t] = "pop_reset" /\ pc'[t] = "pop_release" /\ val'[t] = val[t]
  BY DEF PopReset, Goto, Typed, TypeOK
<1>2. Aside(K, t)
  BY <1>1 DEF PopReset, Aside, Writes, Goto, sanVars, program, Typed, TypeOK
<1>3. Op(t) = [kind |-> "popped", val |-> val[t]] /\ Op(t)' = [kind |-> "popped", val |-> val'[t]]
  BY <1>1, OpReads, OpCases
<1> QED BY <1>1, <1>2, <1>3, SilentMoves

LEMMA PopReleaseMoves ==
  ASSUME Hypotheses, Typed, Typed', NEW K, NEW O, NEW R, Inv(K, O, R), Carried,
         NEW t \in Threads, PopRelease(t)
  PROVE  Moves
<1>1. /\ pc[t] = "pop_release" /\ pc'[t] = "pop_return" /\ val'[t] = val[t]
  BY DEF PopRelease, Goto, Typed, TypeOK
<1>2. Aside(K, t)
  BY <1>1 DEF PopRelease, Aside, Writes, Goto, sanVars, program, Typed, TypeOK
<1>3. Op(t) = [kind |-> "popped", val |-> val[t]] /\ Op(t)' = [kind |-> "popped", val |-> val'[t]]
  BY <1>1, OpReads, OpCases
<1> QED BY <1>1, <1>2, <1>3, SilentMoves

(* The store to next_ of a node that is not in the list yet.                  *)
LEMMA PushReloadMoves ==
  ASSUME Hypotheses, Typed, Typed', NEW K, NEW O, NEW R, Inv(K, O, R), Carried,
         NEW t \in Threads, PushReload(t)
  PROVE  Moves
<1>1. /\ pc[t] = "push_reload" /\ pc'[t] = "push_cas" /\ val'[t] = val[t]
  BY DEF PushReload, Goto, Typed, TypeOK
<1>2. Aside(K, t)
  <2>1. new[t] \in Nodes /\ K[new[t]] = "new"
    BY <1>1 DEF Typed, TypeOK, Locals, Ptr, Inv, Fresh
  <2> QED BY <1>1, <2>1 DEF PushReload, Aside, Writes, Goto, sanVars, program, Typed, TypeOK
<1>3. Op(t) = [kind |-> "push", val |-> val[t]] /\ Op(t)' = [kind |-> "push", val |-> val'[t]]
  BY <1>1, OpReads, OpCases
<1> QED BY <1>1, <1>2, <1>3, SilentMoves

(* A failed exchange reads only.                                              *)
LEMMA PushCasFailsMoves ==
  ASSUME Hypotheses, Typed, Typed', NEW K, NEW O, NEW R, Inv(K, O, R), Carried,
         NEW t \in Threads, PushCas(t), head_ # ori[t]
  PROVE  Moves
<1>1. /\ pc[t] = "push_cas" /\ pc'[t] = "push_reload" /\ val'[t] = val[t]
  BY DEF PushCas, Goto, Typed, TypeOK, Set
<1>2. Aside(K, t)
  BY <1>1 DEF PushCas, Aside, Writes, Goto, sanVars, program, Typed, TypeOK, Set
<1>3. Op(t) = [kind |-> "push", val |-> val[t]] /\ Op(t)' = [kind |-> "push", val |-> val'[t]]
  BY <1>1, OpReads, OpCases
<1> QED BY <1>1, <1>2, <1>3, SilentMoves

(* The value moves from the node to the local that Op then speaks of.         *)
LEMMA PopSwapMoves ==
  ASSUME Hypotheses, Typed, Typed', NEW K, NEW O, NEW R, Inv(K, O, R), Carried,
         NEW t \in Threads, PopSwap(t)
  PROVE  Moves
<1>1. /\ pc[t] = "pop_swap" /\ pc'[t] = "pop_size" /\ val'[t] = data[ori[t]]
  BY DEF PopSwap, Goto, Typed, TypeOK, Set
<1>2. Aside(K, t)
  <2>1. ori[t] \in Nodes /\ K[ori[t]] = "limbo"
    BY <1>1, PopHolds DEF Inv, Limbo
  <2> QED BY <1>1, <2>1 DEF PopSwap, Aside, Writes, Goto, sanVars, program, Typed, TypeOK, Set
<1>3. Op(t) = [kind |-> "popped", val |-> data[ori[t]]] /\ Op(t)' = [kind |-> "popped", val |-> val'[t]]
  BY <1>1, OpReads, OpCases
<1> QED BY <1>1, <1>2, <1>3, SilentMoves

(* The loads of head_ in Pop: on with the loop, or the early return.          *)
LEMMA PopLoadAgainMoves ==
  ASSUME Hypotheses, Typed, Typed', NEW K, NEW O, NEW R, Inv(K, O, R), Carried,
         NEW t \in Threads, PopLoad(t), head_ # NULL
  PROVE  Moves
<1>1. /\ pc[t] = "pop_load" /\ pc'[t] = "pop_access"
  BY DEF PopLoad, PopLoop, Goto, Typed, TypeOK
<1>2. Aside(K, t)
  BY <1>1 DEF PopLoad, PopLoop, Aside, Writes, Goto, Set, sanVars, program, Typed, TypeOK
<1>3. Op(t) = [kind |-> "pop", val |-> NoValue] /\ Op(t)' = [kind |-> "pop", val |-> NoValue]
  BY <1>1, OpReads, OpCases
<1> QED BY <1>1, <1>2, <1>3, SilentMoves

LEMMA PopLoadEmptyMoves ==
  ASSUME Hypotheses, Typed, Typed', NEW K, NEW O, NEW R, Inv(K, O, R), Carried,
         NEW t \in Threads, PopLoad(t), head_ = NULL
  PROVE  Moves
<1>1. /\ pc[t] = "pop_load" /\ pc'[t] \in {"idle", "dtor_stop"}
  BY DEF PopLoad, PopLoop, Leave, Caller, Goto, Typed, TypeOK
<1>2. Aside(K, t)
  <2>1. /\ head_' = head_ /\ next_' = next_ /\ data' = data
        /\ \A u \in Threads : u # t => pc'[u] = pc[u] /\ val'[u] = val[u] /\ ori'[u] = ori[u] /\ new'[u] = new[u]
    BY DEF PopLoad, PopLoop, Leave, Goto, Set, sanVars, Typed, TypeOK
  <2> QED BY <1>1, <2>1 DEF Aside, Writes
<1>3. Op(t) = [kind |-> "pop", val |-> NoValue] /\ Op(t)' = [kind |-> "idle", val |-> NoValue]
  BY <1>1, OpReads, OpCases DEF DtorLabels
<1> QED BY <1>1, <1>2, <1>3, PopEmptyMoves

LEMMA PopRecheckAgainMoves ==
  ASSUME Hypotheses, Typed, Typed', NEW K, NEW O, NEW R, Inv(K, O, R), Carried,
         NEW t \in Threads, PopRecheck(t), head_ # ori[t], head_ # NULL
  PROVE  Moves
<1>1. /\ pc[t] = "pop_recheck" /\ pc'[t] = "pop_access"
  BY DEF PopRecheck, PopLoop, Goto, Typed, TypeOK
<1>2. Aside(K, t)
  BY <1>1 DEF PopRecheck, PopLoop, Aside, Writes, Goto, Set, sanVars, program, Typed, TypeOK
<1>3. Op(t) = [kind |-> "pop", val |-> NoValue] /\ Op(t)' = [kind |-> "pop", val |-> NoValue]
  BY <1>1, OpReads, OpCases
<1> QED BY <1>1, <1>2, <1>3, SilentMoves

LEMMA PopRecheckEmptyMoves ==
  ASSUME Hypotheses, Typed, Typed', NEW K, NEW O, NEW R, Inv(K, O, R), Carried,
         NEW t \in Threads, PopRecheck(t), head_ # ori[t], head_ = NULL
  PROVE  Moves
<1>1. /\ pc[t] = "pop_recheck" /\ pc'[t] \in {"idle", "dtor_stop"}
  BY DEF PopRecheck, PopLoop, Leave, Caller, Goto, Typed, TypeOK
<1>2. Aside(K, t)
  <2>1. /\ head_' = head_ /\ next_' = next_ /\ data' = data
        /\ \A u \in Threads : u # t => pc'[u] = pc[u] /\ val'[u] = val[u] /\ ori'[u] = ori[u] /\ new'[u] = new[u]
    BY DEF PopRecheck, PopLoop, Leave, Goto, Set, sanVars, Typed, TypeOK
  <2> QED BY <1>1, <2>1 DEF Aside, Writes
<1>3. Op(t) = [kind |-> "pop", val |-> NoValue] /\ Op(t)' = [kind |-> "idle", val |-> NoValue]
  BY <1>1, OpReads, OpCases DEF DtorLabels
<1> QED BY <1>1, <1>2, <1>3, PopEmptyMoves

LEMMA PopRecheckOkMoves ==
  ASSUME Hypotheses, Typed, Typed', NEW K, NEW O, NEW R, Inv(K, O, R), Carried,
         NEW t \in Threads, PopRecheck(t), head_ = ori[t]
  PROVE  Moves
<1>1. /\ pc[t] = "pop_recheck" /\ pc'[t] = "pop_next"
  BY DEF PopRecheck, Goto, Typed, TypeOK
<1>2. Aside(K, t)
  BY <1>1 DEF PopRecheck, Aside, Writes, Goto, Set, sanVars, program, Typed, TypeOK
<1>3. Op(t) = [kind |-> "pop", val |-> NoValue] /\ Op(t)' = [kind |-> "pop", val |-> NoValue]
  BY <1>1, OpReads, OpCases
<1> QED BY <1>1, <1>2, <1>3, SilentMoves

LEMMA PopCasFailsMoves ==
  ASSUME Hypotheses, Typed, Typed', NEW K, NEW O, NEW R, Inv(K, O, R), Carried,
         NEW t \in Threads, PopCas(t), head_ # new[t]
  PROVE  Moves
<1>0. ori[t] # NULL
  BY DEF PopCas, Typed, Locals, HasOri, PopLabels
<1>1. /\ pc[t] = "pop_cas" /\ pc'[t] = "pop_access"
  BY <1>0 DEF PopCas, PopLoop, Goto, Typed, TypeOK
<1>2. Aside(K, t)
  BY <1>0, <1>1 DEF PopCas, PopLoop, Aside, Writes, Goto, Set, sanVars, program, Typed, TypeOK
<1>3. Op(t) = [kind |-> "pop", val |-> NoValue] /\ Op(t)' = [kind |-> "pop", val |-> NoValue]
  BY <1>1, OpReads, OpCases
<1> QED BY <1>1, <1>2, <1>3, SilentMoves

(* The end of Pop, with a value.                                              *)
LEMMA PopReturnMoves ==
  ASSUME Hypotheses, Typed, Typed', NEW K, NEW O, NEW R, Inv(K, O, R), Carried,
         NEW t \in Threads, PopReturn(t)
  PROVE  Moves
<1>1. /\ pc[t] = "pop_return" /\ pc'[t] \in {"idle", "dtor_stop", "dtor_loop"}
  BY DEF PopReturn, Leave, Caller, Goto, Typed, TypeOK
<1>2. Aside(K, t)
  BY <1>1 DEF PopReturn, Leave, Aside, Writes, Goto, Set, sanVars, program, Typed, TypeOK
<1>3. Op(t) = [kind |-> "popped", val |-> val[t]] /\ Op(t)' = [kind |-> "idle", val |-> NoValue]
  BY <1>1, OpReads, OpCases DEF DtorLabels
<1> QED BY <1>2, <1>3, ReturnMoves

(* The n-th Push is called with the value n.                                  *)
LEMMA PushCallMoves ==
  ASSUME Hypotheses, Typed, Typed', NEW K, NEW O, NEW R, Inv(K, O, R), Carried,
         NEW t \in Threads, PushCall(t)
  PROVE  Moves
<1>1. /\ pc[t] = "idle" /\ pc'[t] = "push_load" /\ val'[t] = pushes + 1 /\ pushes + 1 \in Values
  BY ValuesTyped DEF PushCall, Goto, Set, Typed, TypeOK
<1>2. Aside(K, t)
  BY <1>1 DEF PushCall, Aside, Writes, Goto, Set, sanVars, Typed, TypeOK
<1>3. Op(t) = [kind |-> "idle", val |-> NoValue] /\ Op(t)' = [kind |-> "push", val |-> val'[t]]
  BY <1>1, OpReads, OpCases
<1> QED BY <1>1, <1>2, <1>3, CallPushMoves

(* new: the node is nobody's, and carries the value of the Push from here on. *)
LEMMA PushNewMoves ==
  ASSUME Hypotheses, Typed, Typed', NEW K, NEW O, NEW R, Inv(K, O, R), Carried,
         NEW t \in Threads, PushNew(t)
  PROVE  Moves
<1>1. PICK n \in Nodes : /\ n \notin allocated /\ next_' = [next_ EXCEPT ![n] = ori[t]]
                         /\ data' = [data EXCEPT ![n] = val[t]] /\ new' = [new EXCEPT ![t] = n]
  BY DEF PushNew, Set
<1>2. /\ pc[t] = "push_new" /\ pc'[t] = "push_cas"
      /\ \A u \in Threads : u # t => pc'[u] = pc[u] /\ new'[u] = new[u]
      /\ head_' = head_ /\ ori' = ori /\ val' = val
      /\ data'[n] = val[t] /\ new'[t] = n
  BY <1>1 DEF PushNew, Goto, program, Typed, TypeOK
<1>3. K[n] = "free"
  BY <1>1 DEF Inv, Book
<1>4. \A m \in Nodes : m # n => next_'[m] = next_[m] /\ data'[m] = data[m]
  BY <1>1 DEF Typed, TypeOK, SanTypeOK
<1>5. Contents' = Contents
  BY <1>2, <1>3, <1>4, ContentsKept
<1>6. Op(t)' = Op(t)
  <2>1. Op(t) = [kind |-> "push", val |-> val[t]] /\ Op(t)' = [kind |-> "push", val |-> val'[t]]
    BY <1>2, OpReads, OpCases
  <2> QED BY <1>2, <2>1
<1>7. Ops' = Ops
  <2>1. Writes(K, t)
    BY <1>3, <1>4 DEF Writes
  <2>2. \A u \in Threads : u # t => Op(u)' = Op(u)
    BY <1>2, <2>1, OthersOp
  <2> QED BY <1>6, <2>2, OpsKeep
<1>8. Carried'
  <2>1. \A u \in Threads : pc'[u] \in {"push_cas", "push_reload"} => u = t
    BY <1>2, OnePush DEF PushLabels
  <2> QED BY <1>2, <2>1 DEF Carried
<1> QED BY <1>5, <1>7, <1>8 DEF Moves

(* A Push takes effect where its exchange succeeds.                           *)
LEMMA PushCasOkMoves ==
  ASSUME Hypotheses, Typed, Typed', NEW K, NEW O, NEW R, Inv(K, O, R), Carried,
         NEW t \in Threads, PushCas(t), head_ = ori[t]
  PROVE  Moves
<1>1. /\ pc[t] = "push_cas" /\ pc'[t] = "push_size" /\ head_' = new[t]
      /\ \A u \in Threads : u # t => pc'[u] = pc[u]
      /\ UNCHANGED <<next_, data, ori, new, val>>
  BY DEF PushCas, Goto, sanVars, Typed, TypeOK
<1>2. PICK n \in Nodes : n = new[t] /\ K[n] = "new" /\ next_[n] = head_ /\ data[n] = val[t]
  <2>1. new[t] \in Nodes
    BY <1>1 DEF Typed, TypeOK, Locals, Ptr
  <2>2. K[new[t]] = "new" /\ next_[new[t]] = head_
    BY <1>1, <2>1 DEF PushCas, Inv, Fresh, Producing
  <2> QED BY <1>1, <2>1, <2>2 DEF Carried
<1>3. /\ IsFiniteSet(Nodes) /\ next_ \in [Nodes -> Ptr] /\ R \in [Nodes -> Nat]
      /\ Cardinality(At(K, "list")) + 1 \in Nat
  BY Counts DEF Inv, Book, Hypotheses, FiniteSystem, Typed, TypeOK, SanTypeOK
<1>4. Contents' = <<val[t]>> \o Contents
  <2>1. PICK Q \in [Nodes -> Nat] : /\ Q[n] = Cardinality(At(K, "list")) + 1
                                    /\ \A m \in Nodes : m # n => Q[m] = R[m]
    BY <1>3, RankOne
  <2>2. n \notin At(K, "list") /\ n # NULL
    BY <1>2, NullAssumption DEF At
  <2>3. IsList(At(K, "list"), R, next_, head_) /\ \A m \in At(K, "list") : Q[m] = R[m]
    BY <1>2, <2>1 DEF Inv, StackList, At
  <2>4. IsList(At(K, "list") \cup {n}, Q, next_, n)
    BY <1>2, <1>3, <2>1, <2>2, <2>3, ListPush
  <2>5. ContentsOf(next_, data, n) = <<data[n]>> \o ContentsOf(next_, data, next_[n])
    BY <1>3, <2>2, <2>4, ContentsFirst
  <2> QED BY <1>1, <1>2, <2>5, ContentsAre
<1>5. Op(t) = [kind |-> "push", val |-> val[t]] /\ Op(t)' = [kind |-> "pushed", val |-> NoValue]
  BY <1>1, OpReads, OpCases
<1>6. Ops' = [Ops EXCEPT ![t] = [kind |-> "pushed", val |-> NoValue]]
  <2>1. Writes(K, t)
    BY <1>1 DEF Writes
  <2> QED BY <1>1, <1>5, <2>1, OthersOp, OpsMove
<1>7. Ops'[t] # Ops[t] /\ Ops[t] = [kind |-> "push", val |-> val[t]]
  BY <1>5, <1>6 DEF Ops
<1>8. Atomic!Push(t)
  BY <1>4, <1>6, <1>7 DEF Atomic!Push, Ops
<1>9. Atomic!Next
  BY <1>7, <1>8 DEF Atomic!Next, Ops
<1>10. Carried'
  BY <1>1 DEF Carried
<1> QED BY <1>9, <1>10 DEF Moves

(* And so does a Pop, which takes the first of the contents.                  *)
LEMMA PopCasOkMoves ==
  ASSUME Hypotheses, Typed, Typed', NEW K, NEW O, NEW R, Inv(K, O, R), Carried,
         NEW t \in Threads, PopCas(t), head_ = new[t]
  PROVE  Moves
<1>1. /\ pc[t] = "pop_cas" /\ pc'[t] = "pop_swap" /\ head_' = nxt[t]
      /\ \A u \in Threads : u # t => pc'[u] = pc[u]
      /\ UNCHANGED <<next_, data, ori, new, val>>
  BY DEF PopCas, Goto, sanVars, Typed, TypeOK
<1>2. /\ head_ # NULL /\ head_ = ori[t] /\ head_ \in Nodes /\ nxt[t] = next_[head_]
  <2>1. new[t] \in Nodes /\ new[t] = ori[t]
    BY <1>1, PopHolds DEF Inv, Typed, Locals
  <2>2. new[t] \in At(K, "list")
    BY <2>1, NullAssumption DEF Inv, StackList, IsList
  <2>3. nxt[t] = next_[new[t]]
    BY <1>1, <2>2 DEF Inv, Guarding, At
  <2> QED BY <2>1, <2>3, NullAssumption
<1>3. /\ IsFiniteSet(Nodes) /\ next_ \in [Nodes -> Ptr] /\ next_[head_] \in Ptr
      /\ data \in [Nodes -> Values \cup {NoValue}]
  BY <1>2 DEF Hypotheses, FiniteSystem, Typed, TypeOK, SanTypeOK
<1>4. PICK rest \in Seq(Values \cup {NoValue}) : rest = Contents' /\ Contents = <<data[head_]>> \o rest
  <2>1. IsList(At(K, "list"), R, next_, head_)
    BY DEF Inv, StackList
  <2>2. ContentsOf(next_, data, head_) = <<data[head_]>> \o ContentsOf(next_, data, next_[head_])
    BY <1>2, <1>3, <2>1, ContentsFirst
  <2>3. ContentsOf(next_, data, next_[head_]) \in Seq(Values \cup {NoValue})
    BY <1>3, ContentsType
  <2> QED BY <1>1, <1>2, <2>2, <2>3, ContentsAre
<1>5. Contents # <<>> /\ Head(Contents) = data[head_] /\ Tail(Contents) = Contents'
  <2>1. data[head_] \in Values \cup {NoValue}
    BY <1>2, <1>3
  <2> QED BY <1>4, <2>1, PushedFirst
<1>6. /\ Op(t) = [kind |-> "pop", val |-> NoValue]
      /\ Op(t)' = [kind |-> "popped", val |-> Head(Contents)]
  BY <1>1, <1>2, <1>5, OpReads, OpCases
<1>7. Ops' = [Ops EXCEPT ![t] = [kind |-> "popped", val |-> Head(Contents)]]
  <2>1. Writes(K, t)
    BY <1>1 DEF Writes
  <2> QED BY <1>1, <1>6, <2>1, OthersOp, OpsMove
<1>8. Ops'[t] # Ops[t] /\ Ops[t] = [kind |-> "pop", val |-> NoValue]
  BY <1>6, <1>7 DEF Ops
<1>9. Atomic!Pop(t)
  BY <1>5, <1>7, <1>8 DEF Atomic!Pop, Ops
<1>10. Atomic!Next
  BY <1>8, <1>9 DEF Atomic!Next, Ops
<1>11. Carried'
  BY <1>1 DEF Carried
<1> QED BY <1>10, <1>11 DEF Moves

(* A step that leaves the list alone, and moves no thread into a call or out  *)
(* of one.                                                                    *)
Apart(K) ==
  /\ head_' = head_ /\ data' = data /\ ori' = ori /\ new' = new /\ val' = val
  /\ \A n \in Nodes : K[n] = "list" => next_'[n] = next_[n]
  /\ \A u \in Threads : \/ pc'[u] = pc[u]
                        \/ pc[u] \in {"idle"} \cup DtorLabels /\ pc'[u] \in {"idle"} \cup DtorLabels

(* Deletions, the background thread and the destructor are of this kind.      *)
LEMMA ApartMoves ==
  ASSUME Hypotheses, Typed, Typed', NEW K, NEW O, NEW R, Inv(K, O, R), Carried,
         Apart(K)
  PROVE  Moves
<1>1. Contents' = Contents
  BY ContentsKept DEF Apart
<1>2. ASSUME NEW u \in Threads PROVE Op(u)' = Op(u)
  <2>1. CASE pc'[u] = pc[u]
    <3>1. OpAt(pc'[u], val'[u], data'[ori'[u]]) = OpAt(pc[u], val[u], data[ori[u]])
      BY <2>1 DEF Apart
    <3> QED BY <3>1, OpReads
  <2>2. CASE pc[u] \in {"idle"} \cup DtorLabels /\ pc'[u] \in {"idle"} \cup DtorLabels
    <3>1. /\ OpAt(pc[u], val[u], data[ori[u]]) = [kind |-> "idle", val |-> NoValue]
          /\ OpAt(pc'[u], val'[u], data'[ori'[u]]) = [kind |-> "idle", val |-> NoValue]
      BY <2>2, OpCases
    <3> QED BY <3>1, OpReads
  <2> QED BY <2>1, <2>2 DEF Apart
<1>3. Ops' = Ops
  BY <1>2, OpsKeep
<1>4. Carried'
  BY DEF Apart, Carried, DtorLabels
<1> QED BY <1>1, <1>3, <1>4 DEF Moves

(* A deletion writes to next_ of the node in hand only.                       *)
LEMMA DeletionMoves ==
  ASSUME Hypotheses, Typed, Typed', NEW K, NEW O, NEW R, Inv(K, O, R), Carried,
         NEW a \in Agents, Deletion(a)
  PROVE  Moves
<1>1. head_' = head_ /\ UNCHANGED <<data, pc, ori, new, val>>
  BY DEF Deletion, locals
<1>2. ASSUME NEW n \in Nodes, K[n] = "list" PROVE next_'[n] = next_[n]
  <2>1. CASE DelayLink(a)
    <3>1. del[a].node # NULL
      BY <2>1 DEF DelayLink, Typed, Frames
    <3>2. K[del[a].node] = "hand"
      BY <3>1, HandOf DEF Inv
    <3> QED BY <1>2, <2>1, <3>2 DEF DelayLink, Typed, TypeOK, SanTypeOK
  <2>2. CASE ~DelayLink(a)
    BY <2>2 DEF Deletion, DeleteStep, ScanMiss, ScanHit, ImmediateDelete, DelayLoad, DelayCas,
                BackExchange, BackNext
  <2> QED BY <2>1, <2>2
<1>3. Apart(K)
  BY <1>1, <1>2 DEF Apart
<1> QED BY <1>3, ApartMoves

(* The background thread wakes.                                               *)
LEMMA BackWakeMoves ==
  ASSUME Hypotheses, Typed, Typed', NEW K, NEW O, NEW R, Inv(K, O, R), Carried,
         BackWake, UNCHANGED <<head_, size_, data, locals>>
  PROVE  Moves
<1>1. head_' = head_ /\ next_' = next_ /\ UNCHANGED <<data, pc, ori, new, val>>
  BY DEF BackWake, locals
<1>2. Apart(K)
  BY <1>1 DEF Apart
<1> QED BY <1>2, ApartMoves

(* No variable changes.                                                       *)
LEMMA StutterMoves ==
  ASSUME Hypotheses, Typed, Typed', NEW K, NEW O, NEW R, Inv(K, O, R), Carried, UNCHANGED vars
  PROVE  Moves
<1>1. head_' = head_ /\ next_' = next_ /\ UNCHANGED <<data, pc, ori, new, val>>
  BY DEF vars, sanVars, locals
<1>2. Apart(K)
  BY <1>1 DEF Apart
<1> QED BY <1>2, ApartMoves

(* The destructor outside its loop.                                           *)
LEMMA DestructorMoves ==
  ASSUME Hypotheses, Typed, Typed', NEW K, NEW O, NEW R, Inv(K, O, R), Carried,
         Destroy \/ DtorStop \/ DtorJoin \/ DtorTake \/ DtorDelete \/ DtorEnd
  PROVE  Moves
<1>1. head_' = head_ /\ UNCHANGED <<next_, data, ori, new, val>>
  BY DEF Destroy, DtorStop, DtorJoin, DtorTake, DtorDelete, DtorEnd, DtorStep, StopBack, JoinBack,
         DtorExchange, DtorFree, sanVars
<1>2. /\ \A u \in Threads : u # Main => pc'[u] = pc[u]
      /\ pc[Main] \in {"idle"} \cup DtorLabels /\ pc'[Main] \in {"idle"} \cup DtorLabels
  BY MainAssumption DEF Destroy, Quiet, DtorStop, DtorJoin, DtorTake, DtorDelete, DtorEnd, DtorStep,
         Goto, DtorLabels, Typed, TypeOK
<1>3. Apart(K)
  BY <1>1, <1>2 DEF Apart
<1> QED BY <1>3, ApartMoves

(* The loop of the destructor calls Pop.                                      *)
LEMMA DtorLoopMoves ==
  ASSUME Hypotheses, Typed, Typed', NEW K, NEW O, NEW R, Inv(K, O, R), Carried, DtorLoop
  PROVE  Moves
<1>1. PICK t \in Threads : t = Main
  BY MainAssumption
<1>2. pc[t] = "dtor_loop" /\ pc'[t] = "pop_load"
  BY <1>1 DEF DtorLoop, DtorStep, Goto, Typed, TypeOK
<1>3. Aside(K, t)
  BY <1>1, <1>2 DEF DtorLoop, DtorStep, Aside, Writes, Goto, sanVars, Typed, TypeOK
<1>4. Op(t) = [kind |-> "idle", val |-> NoValue] /\ Op(t)' = [kind |-> "pop", val |-> NoValue]
  BY <1>2, OpReads, OpCases DEF DtorLabels
<1> QED BY <1>3, <1>4, CallPopMoves

(* The steps of a thread.                                                     *)
LEMMA StepMoves ==
  ASSUME Hypotheses, Typed, Typed', NEW K, NEW O, NEW R, Inv(K, O, R), Carried,
         NEW t \in Threads, Call(t) \/ Step(t)
  PROVE  Moves
<1>1. CASE Call(t)
  BY <1>1, PushCallMoves, PopCallMoves DEF Call
<1>2. CASE PushLoad(t) \/ PushNew(t) \/ PushReload(t) \/ PushSize(t)
  BY <1>2, PushLoadMoves, PushNewMoves, PushReloadMoves, PushSizeMoves
<1>3. CASE PushCas(t)
  BY <1>3, PushCasOkMoves, PushCasFailsMoves
<1>4. CASE PopLoad(t)
  BY <1>4, PopLoadAgainMoves, PopLoadEmptyMoves
<1>5. CASE PopRecheck(t)
  BY <1>5, PopRecheckOkMoves, PopRecheckAgainMoves, PopRecheckEmptyMoves
<1>6. CASE PopAccess(t) \/ PopNext(t)
  BY <1>6, PopAccessMoves, PopNextMoves
<1>7. CASE PopCas(t)
  BY <1>7, PopCasOkMoves, PopCasFailsMoves
<1>8. CASE PopSwap(t) \/ PopSize(t) \/ PopReset(t) \/ PopRelease(t) \/ PopReturn(t)
  BY <1>8, PopSwapMoves, PopSizeMoves, PopResetMoves, PopReleaseMoves, PopReturnMoves
<1>9. CASE Deletion(t)
  <2>1. t \in Agents
    BY DEF Agents
  <2> QED BY <1>9, <2>1, DeletionMoves
<1> QED BY <1>1, <1>2, <1>3, <1>4, <1>5, <1>6, <1>7, <1>8, <1>9 DEF Step

(* All steps.                                                                 *)
LEMMA NextMoves ==
  ASSUME Hypotheses, IInv, IInv', Carried, [Next]_vars
  PROVE  Moves
<1> SUFFICES ASSUME Typed, Typed', NEW K, NEW O, NEW R, Inv(K, O, R) PROVE Moves
  BY DEF IInv
<1>1. CASE \E t \in Threads : Call(t) \/ Step(t)
  BY <1>1, StepMoves
<1>2. CASE BackStep
  <2>1. Back \in Agents
    BY DEF Agents
  <2> QED BY <1>2, <2>1, BackWakeMoves, DeletionMoves DEF BackStep
<1>3. CASE Destroy \/ Destructor
  BY <1>3, DestructorMoves, DtorLoopMoves DEF Destructor
<1>4. CASE UNCHANGED vars
  BY <1>4, StutterMoves
<1> QED BY <1>1, <1>2, <1>3, <1>4 DEF Next

(* The stack is linearizable (Concurrent.hpp, Push and Pop): every behaviour  *)
(* is one of a stack on which each Push and each Pop takes effect at once, so *)
(* that no value is lost, none is returned twice, and the last one pushed is  *)
(* the first to come back.                                                    *)
THEOREM StackIsLinearizable == ASSUME Hypotheses PROVE Spec => Linearizable
<1>1. Init => Atomic!Init /\ Carried
  <2> SUFFICES ASSUME Init PROVE Atomic!Init /\ Carried
    OBVIOUS
  <2>1. next_ \in [Nodes -> Ptr] /\ IsFiniteSet(Nodes) /\ head_ = NULL
    BY DEF Init, SanInit, Hypotheses, FiniteSystem, Ptr
  <2>2. Contents = <<>>
    BY <2>1, ContentsOfNull, ContentsAre
  <2>3. \A t \in Threads : Op(t) = [kind |-> "idle", val |-> NoValue]
    BY OpReads, OpCases DEF Init
  <2>4. Carried
    BY DEF Init, Carried
  <2> QED BY <2>2, <2>3, <2>4 DEF Atomic!Init, Atomic!Idle
<1>2. IInv /\ IInv' /\ Carried /\ [Next]_vars
        => Carried' /\ [Atomic!Next]_<<Contents, [t \in Threads |-> Op(t)]>>
  BY NextMoves DEF Moves, Ops
<1> QED BY <1>1, <1>2, Inductive, PTL DEF Spec, Linearizable, Atomic!Spec
=============================================================================
