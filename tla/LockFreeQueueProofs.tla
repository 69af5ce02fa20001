------------------------- MODULE LockFreeQueueProofs -------------------------
(***************************************************************************)
(* Proofs about LockFreeQueue, for any number of nodes, threads and pushes,  *)
(* in the uses that the code supports: one consumer, and one producer if     *)
(* there is a consumer; with or without the background thread; and a thread  *)
(* that destroys the queue.  The parts are those of LockFreeStackProofs: Inv *)
(* says for each address where its node is, K is the place, O the agent that *)
(* has it there, R the distance to the end of its list.                     *)
(***************************************************************************)
EXTENDS LockFreeQueue, FiniteSetTheorems, SequenceTheorems, WellFoundedInduction, TLAPS

-----------------------------------------------------------------------------
(* What a use of the queue must keep to.  A second consumer may follow       *)
(* head_->next_ of a node that the first has deleted, and a second producer  *)
(* may append behind a node that a consumer has taken (see the run           *)
(* queue_lost_push).  With only one, the hazard pointers are not needed: the *)
(* theorems ask nothing of SlotOf.                                          *)

OneConsumer == \A u \in Uses : \A c, d \in u.consumers : c = d
OneProducer == \A u \in Uses : u.consumers # {} => \A p, q \in u.producers : p = q
MainApart == \A u \in Uses : Main \notin u.producers \cup u.consumers
FiniteSystem == IsFiniteSet(Nodes) /\ IsFiniteSet(Threads) /\ Nodes # {}
Hypotheses == OneConsumer /\ OneProducer /\ MainApart /\ FiniteSystem

-----------------------------------------------------------------------------
(* Where the program is.                                                    *)

Freeing == {"dtor_free", "destroyed"}
Gone == {"dtor_stop", "dtor_join", "dtor_exchange"} \cup Freeing
Unlinked == PushLabels \ {"push_new", "push_swing", "push_size"}
Linking == {"push_next", "push_help", "push_append"}
Limbo == {"pop_swap", "pop_size", "pop_reset", "pop_release"}
Found == {"pop_access_head", "pop_access_next", "pop_cas"}

(* TypeOK, one local after the other.                                       *)
Types ==
  /\ SanTypeOK
  /\ head_ \in Nodes /\ tail_ \in Nodes /\ size_ \in 0 .. SizeMod - 1
  /\ data \in [Nodes -> Values \cup {NoValue}]
  /\ pc \in [Threads -> {"idle"} \cup PushLabels \cup PopLabels \cup DtorLabels]
  /\ val \in [Threads -> Values \cup {NoValue}]
  /\ pre \in [Threads -> Ptr] /\ ori \in [Threads -> Ptr] /\ new \in [Threads -> Ptr]
  /\ h \in [Threads -> Ptr] /\ tl \in [Threads -> Ptr] /\ nxt \in [Threads -> Ptr]
  /\ use \in Uses /\ pushes \in 0 .. use.pushes

(* The deletion of an agent: the node in hand goes with the part of _Delete  *)
(* it is in; a rest outside _BackLoopDelete is the destructor's; a thread    *)
(* deletes at the end of a Pop.                                             *)
Frames ==
  /\ \A a \in Agents :
       /\ del[a].node # NULL <=> del[a].pc \in {"scan", "load", "link", "cas"}
       /\ del[a].pc = "next" => del[a].rest # NULL
       /\ del[a].pc = "exchange" => del[a].rest = NULL
       /\ ~del[a].loop /\ del[a].rest # NULL => a = Main /\ pc[Main] = "dtor_free"
  /\ \A t \in Threads : pc[t] # "pop_return" => del[t].pc = "none"
  /\ \A a \in Agents : del[a].pc = "none" => ~del[a].loop

(* The locals of Push and Pop where they have a value.                      *)
Locals ==
  \A t \in Threads :
    /\ pc[t] \in Linking \cup {"push_swing"} => ori[t] # NULL
    /\ pc[t] \in Unlinked \cup {"push_swing"} => new[t] # NULL
    /\ pc[t] \in Unlinked \cup {"push_new"} => val[t] # NoValue
    /\ pc[t] \in PopLabels \ {"pop_head"} => h[t] # NULL
    /\ pc[t] \in {"push_help", "pop_help"} => nxt[t] # NULL
    /\ pc[t] = "pop_help" => tl[t] = h[t]

(* Who calls what, and that nobody does once the destructor has begun.      *)
Roles ==
  \A t \in Threads :
    /\ pc[t] \in PushLabels => t \in use.producers
    /\ pc[t] \in PopLabels => t \in use.consumers \cup {Main}
    /\ pc[t] \in DtorLabels => t = Main
    /\ pc[Main] # "idle" /\ t # Main => pc[t] = "idle"

(* The order of the destructor: the background thread has ended before the  *)
(* delayed list is taken, and nothing fills the list again.                 *)
Phases ==
  /\ ~isBackSanitizer_ /\ pc[Main] # "dtor_join" => del[Back].pc = "none"
  /\ pc[Main] \in {"dtor_join", "dtor_exchange"} \cup Freeing => ~isBackSanitizer_
  /\ pc[Main] \in Freeing => backward_deleting_list_ = NULL
  /\ pc[Main] = "destroyed" => del[Main].rest = NULL

Typed == Types /\ Frames /\ Locals /\ Roles /\ Phases

-----------------------------------------------------------------------------
(* Where a node is: free to allocate; new, allocated by a Push that has not  *)
(* yet linked it; in the list, from the dummy to the last node; in limbo,    *)
(* unlinked by a Pop that has not released it; in the hand of an agent that  *)
(* deletes it; delayed; or in the rest of a list that an agent has taken.    *)

Kinds == {"free", "new", "list", "limbo", "hand", "delayed", "rest"}
At(K, k) == {n \in Nodes : K[n] = k}
RestOf(K, O, a) == {n \in Nodes : K[n] = "rest" /\ O[n] = a}

(* The nodes of S, and no others, are reached from first: R counts down to 1.*)
IsList(S, R, nx, first) ==
  /\ S \subseteq Nodes
  /\ IF first = NULL THEN S = {} ELSE first \in S /\ R[first] = Cardinality(S)
  /\ \A n \in S : /\ R[n] \in 1 .. Cardinality(S)
                  /\ IF R[n] = 1 THEN nx[n] = NULL ELSE nx[n] \in S /\ R[nx[n]] = R[n] - 1
  /\ \A m, n \in S : R[m] = R[n] => m = n

(* The places are those of all nodes, and those in use are allocated.  The   *)
(* dummy stays in its place when the destructor has deleted it.             *)
Deleted == IF pc[Main] \in Gone THEN {head_} ELSE {}
Book(K, O, R) ==
  /\ K \in [Nodes -> Kinds] /\ O \in [Nodes -> Agents] /\ R \in [Nodes -> Nat]
  /\ allocated = {n \in Nodes : K[n] # "free"} \ Deleted

(* The three kinds of list: head_, backward_deleting_list_ and the rests.    *)
(* The tail is the last node of the queue or the one before it.             *)
QueueList(K, R) ==
  /\ IsList(At(K, "list"), R, next_, head_)
  /\ K[tail_] = "list" /\ R[tail_] \in {1, 2}
DelayedList(K, R) == IsList(At(K, "delayed"), R, next_, backward_deleting_list_)
RestLists(K, O, R) == \A a \in Agents : IsList(RestOf(K, O, a), R, next_, del[a].rest)

(* The node that an agent deletes, linked to what it found before the        *)
(* exchange.                                                                *)
InHands(K, O) == \A a \in Agents :
  /\ \A n \in Nodes : K[n] = "hand" /\ O[n] = a <=> del[a].node = n
  /\ del[a].pc = "cas" => next_[del[a].node] = del[a].ori

(* The node that a Push has allocated and not yet linked.                   *)
Fresh(K, O) == \A n \in Nodes :
  /\ \A t \in Threads : K[n] = "new" /\ O[n] = t <=> pc[t] \in Unlinked /\ new[t] = n
  /\ K[n] = "new" => O[n] \in Threads /\ next_[n] = NULL

(* The node that a Pop has unlinked and not yet released.                   *)
Popped(K, O) == \A n \in Nodes :
  /\ \A t \in Threads : K[n] = "limbo" /\ O[n] = t <=> pc[t] \in Limbo /\ h[t] = n
  /\ K[n] = "limbo" => O[n] \in Threads

(* A tail that is behind is the affair of a Push that has linked its node.  *)
Behind == next_[tail_] # NULL => \E t \in Threads : pc[t] = "push_swing" /\ ori[t] = tail_

(* The node behind which a Push links its own is in the list, at the tail or *)
(* before it.  While there is a consumer it is the tail, which is the last:  *)
(* no other producer is there to append.                                    *)
Producing(K, R) == \A t \in Threads :
  /\ pc[t] \in Linking =>
       /\ K[ori[t]] = "list" /\ R[tail_] <= R[ori[t]]
       /\ use.consumers # {} => ori[t] = tail_ /\ pc[t] # "push_help"
  /\ pc[t] = "push_help" => nxt[t] = next_[ori[t]]
  /\ pc[t] = "push_swing" =>
       /\ use.consumers = {} => K[ori[t]] = "list"
       /\ K[ori[t]] = "list" => next_[ori[t]] = new[t]

(* Only one thread pops, so head_ and what follows it are what it has read;  *)
(* and the tail is past a node that a Pop goes on to unlink.                *)
Popping == \A t \in Threads :
  /\ pc[t] \in {"pop_tail", "pop_next", "pop_help"} \cup Found => h[t] = head_
  /\ pc[t] = "pop_next" /\ h[t] # tl[t] => tail_ # head_
  /\ pc[t] \in {"pop_help"} \cup Found => nxt[t] = next_[head_]
  /\ pc[t] \in Found => tail_ # head_
  /\ pc[t] = "pop_swap" => nxt[t] = head_

(* A node carries its value until the Pop that made it the dummy has taken   *)
(* it, and then the Pop does.  So only an empty queue ends the loop of the   *)
(* destructor.                                                              *)
Filled(K) ==
  /\ \A n \in Nodes : K[n] = "new" \/ (K[n] = "list" /\ n # head_) => data[n] # NoValue
  /\ \A t \in Threads :
       /\ pc[t] = "pop_swap" => data[nxt[t]] # NoValue
       /\ pc[t] \in {"pop_size", "pop_reset", "pop_release", "pop_return"} => val[t] # NoValue

(* The destructor goes on from its loop when the queue is empty.            *)
Emptied == pc[Main] \in {"dtor_head"} \cup Gone => next_[head_] = NULL

(* size_ lags behind the list by the threads between their exchange and     *)
(* their fetch_add or fetch_sub; the dummy does not count.                  *)
Adding == {t \in Threads : pc[t] \in {"push_swing", "push_size"}}
Taking == {t \in Threads : pc[t] \in {"pop_swap", "pop_size"}}
Counted(K) ==
  size_ = (Cardinality(At(K, "list")) - 1 + Cardinality(Taking) - Cardinality(Adding)) % SizeMod

Inv(K, O, R) ==
  /\ Book(K, O, R) /\ QueueList(K, R) /\ DelayedList(K, R) /\ RestLists(K, O, R)
  /\ InHands(K, O) /\ Fresh(K, O) /\ Popped(K, O)
  /\ Behind /\ Producing(K, R) /\ Popping /\ Filled(K) /\ Emptied /\ Counted(K)

IInv == Typed /\ \E K, O, R : Inv(K, O, R)

-----------------------------------------------------------------------------
(* The two forms of the type invariant say the same.                        *)
LEMMA TypesAre == TypeOK <=> Types
<1>1. (\A local \in {pre, ori, new, h, tl, nxt} : local \in [Threads -> Ptr])
        <=> /\ pre \in [Threads -> Ptr] /\ ori \in [Threads -> Ptr] /\ new \in [Threads -> Ptr]
            /\ h \in [Threads -> Ptr] /\ tl \in [Threads -> Ptr] /\ nxt \in [Threads -> Ptr]
  OBVIOUS
<1> QED BY <1>1 DEF TypeOK, Types
-----------------------------------------------------------------------------
(* Natural numbers.                                                         *)

(* A set of natural numbers that is not empty has a least element.           *)
LEMMA LeastNumber ==
  ASSUME NEW T \in SUBSET Nat, T # {}
  PROVE  \E n \in T : \A k \in T : n <= k
<1>1. IsWellFoundedOn(OpToRel(<, Nat), Nat)
  BY NatLessThanWellFounded
<1>2. PICK R : R = OpToRel(<, Nat)
  OBVIOUS
<1>3. PICK n \in T : \A k \in T : ~ (<<k, n>> \in R)
  BY <1>1, <1>2, WFMin
<1>4. \A k \in T : ~ (k < n)
  BY <1>2, <1>3 DEF OpToRel
<1> QED BY <1>3, <1>4

(* Induction over the natural numbers, for a set instead of a predicate.     *)
LEMMA SetInduction ==
  ASSUME NEW P, 0 \in P, \A n \in Nat : n \in P => n + 1 \in P
  PROVE  \A n \in Nat : n \in P
<1> SUFFICES ASSUME NEW m \in Nat, m \notin P PROVE FALSE
  OBVIOUS
<1>1. PICK T : T = {n \in Nat : n \notin P}
  OBVIOUS
<1>2. PICK n \in T : \A k \in T : n <= k
  BY <1>1, LeastNumber
<1>3. n \in Nat /\ n # 0 /\ n - 1 \in Nat
  BY <1>1, <1>2
<1>4. n - 1 \in P
  BY <1>1, <1>2, <1>3
<1>5. (n - 1) + 1 = n
  BY <1>3
<1> QED BY <1>1, <1>2, <1>3, <1>4, <1>5

-----------------------------------------------------------------------------
(* What Chain computes.                                                     *)

(* The recursion of Chain, to the depth N.                                  *)
Reaches(g, N) ==
  g = [k \in 0 .. N |-> [m \in Ptr |->
         IF m = NULL \/ k = 0 THEN {} ELSE {m} \cup g[k - 1][next_[m]]]]

(* One more level can always be added.                                      *)
LEMMA ReachMore ==
  ASSUME NEW N \in Nat, next_ \in [Nodes -> Ptr], NEW g, Reaches(g, N)
  PROVE  \E first : Reaches(first, N + 1)
<1>1. PICK first : first = [k \in 0 .. (N+1) |-> [m \in Ptr |->
                     IF m = NULL \/ k = 0 THEN {} ELSE {m} \cup g[k - 1][next_[m]]]]
  OBVIOUS
<1>2. \A k \in 0..N : g[k] = [m \in Ptr |->
                     IF m = NULL \/ k = 0 THEN {} ELSE {m} \cup g[k - 1][next_[m]]]
  BY DEF Reaches
<1>3. \A k \in 0..(N+1) : first[k] = [m \in Ptr |->
                     IF m = NULL \/ k = 0 THEN {} ELSE {m} \cup g[k - 1][next_[m]]]
  BY <1>1
<1>4. ASSUME NEW k \in 0..N PROVE first[k] = g[k]
  <2>1. k \in 0..(N+1)
    OBVIOUS
  <2>2. PICK f : f = [m \in Ptr |-> IF m = NULL \/ k = 0 THEN {} ELSE {m} \cup g[k - 1][next_[m]]]
    OBVIOUS
  <2>3. first[k] = f
    BY <1>3, <2>1, <2>2
  <2>4. g[k] = f
    BY <1>2, <2>2
  <2> QED BY <2>3, <2>4
<1>5. \A k \in 0..(N+1) : k = 0 \/ first[k-1] = g[k-1]
  BY <1>4
<1>6. first = [k \in 0 .. (N+1) |-> [m \in Ptr |->
             IF m = NULL \/ k = 0 THEN {} ELSE {m} \cup first[k - 1][next_[m]]]]
  <2>1. ASSUME NEW k \in 0..(N+1)
        PROVE  first[k] = [m \in Ptr |->
                 IF m = NULL \/ k = 0 THEN {} ELSE {m} \cup first[k - 1][next_[m]]]
    <3>1. CASE k = 0
      BY <1>3, <3>1
    <3>2. CASE k # 0
      BY <1>3, <1>5, <3>2
    <3> QED BY <3>1, <3>2
  <2>2. first = [k \in 0 .. (N+1) |-> first[k]]
    BY <1>1
  <2> QED BY <2>1, <2>2
<1> QED BY <1>6 DEF Reaches

(* For every depth there is such a recursion, so Chain is what it says.       *)
LEMMA ReachExists ==
  ASSUME next_ \in [Nodes -> Ptr], NEW N \in Nat
  PROVE  \E g : Reaches(g, N)
<1>1. PICK P : P = {n \in Nat : \E g : Reaches(g, n)}
  OBVIOUS
<1>2. 0 \in P
  <2>1. PICK g : g = [k \in 0 .. 0 |-> [m \in Ptr |-> {}]]
    OBVIOUS
  <2>2. g = [k \in 0 .. 0 |-> [m \in Ptr |->
               IF m = NULL \/ k = 0 THEN {} ELSE {m} \cup g[k - 1][next_[m]]]]
    BY <2>1
  <2>3. Reaches(g, 0)
    BY <2>2 DEF Reaches
  <2> QED BY <1>1, <2>3
<1>3. \A n \in Nat : n \in P => n + 1 \in P
  BY <1>1, ReachMore
<1>4. N \in P
  BY <1>2, <1>3, SetInduction
<1> QED BY <1>1, <1>4

(* Chain reads the recursion at the depth of all nodes.                       *)
LEMMA ChainReaches ==
  ASSUME next_ \in [Nodes -> Ptr], IsFiniteSet(Nodes), NEW n
  PROVE  \E g : Reaches(g, Cardinality(Nodes)) /\ Chain(n) = g[Cardinality(Nodes)][n]
<1>1. \E g : Reaches(g, Cardinality(Nodes))
  BY ReachExists, FS_CardinalityType
<1>2. PICK g : g = CHOOSE f : Reaches(f, Cardinality(Nodes))
  OBVIOUS
<1>3. Reaches(g, Cardinality(Nodes))
  BY <1>1, <1>2
<1>4. Chain(n) = g[Cardinality(Nodes)][n]
  BY <1>2 DEF Chain, Reaches
<1> QED BY <1>3, <1>4

(* One level of the recursion.                                                *)
LEMMA ReachUnfolds ==
  ASSUME NEW N \in Nat, NEW g, Reaches(g, N), next_ \in [Nodes -> Ptr]
  PROVE  /\ \A m \in Ptr : g[0][m] = {}
         /\ \A k \in 0..N : g[k][NULL] = {}
         /\ \A m \in Nodes, k \in 1..N : g[k][m] = {m} \cup g[k - 1][next_[m]]
<1>1. \A k \in 0..N : g[k] = [m \in Ptr |->
         IF m = NULL \/ k = 0 THEN {} ELSE {m} \cup g[k - 1][next_[m]]]
  BY DEF Reaches
<1>2. \A m \in Ptr : g[0][m] = {}
  <2>1. 0 \in 0..N
    OBVIOUS
  <2>2. g[0] = [m \in Ptr |-> IF m = NULL \/ 0 = 0 THEN {} ELSE {m} \cup g[0 - 1][next_[m]]]
    BY <1>1, <2>1
  <2> QED BY <2>2
<1>3. \A k \in 0..N : g[k][NULL] = {}
  BY <1>1 DEF Ptr
<1>4. ASSUME NEW m \in Nodes, NEW k \in 1..N PROVE g[k][m] = {m} \cup g[k - 1][next_[m]]
  <2>1. m \in Ptr /\ m # NULL /\ k \in 0..N /\ k # 0
    BY NullAssumption DEF Ptr
  <2>2. g[k] = [x \in Ptr |-> IF x = NULL \/ k = 0 THEN {} ELSE {x} \cup g[k - 1][next_[x]]]
    BY <1>1, <2>1
  <2>3. g[k][m] = IF m = NULL \/ k = 0 THEN {} ELSE {m} \cup g[k - 1][next_[m]]
    BY <2>1, <2>2
  <2> QED BY <2>1, <2>3
<1> QED BY <1>2, <1>3, <1>4

(* The chain of a list's first node is the list.                             *)
LEMMA ChainIsList ==
  ASSUME next_ \in [Nodes -> Ptr], IsFiniteSet(Nodes),
         NEW S, NEW R, NEW first \in Ptr, IsList(S, R, next_, first)
  PROVE  Chain(first) = S
<1>1. PICK g : Reaches(g, Cardinality(Nodes)) /\ Chain(first) = g[Cardinality(Nodes)][first]
  BY ChainReaches
<1>2. PICK N \in Nat : N = Cardinality(Nodes)
  BY FS_CardinalityType
<1>3. S \subseteq Nodes /\ IsFiniteSet(S) /\ Cardinality(S) \in Nat /\ Cardinality(S) <= N
  BY <1>2, FS_Subset, FS_CardinalityType DEF IsList
<1>4. PICK P : P = {k \in Nat : k <= N => \A m \in S :
                     g[k][m] = {x \in S : R[x] <= R[m] /\ R[x] > R[m] - k}}
  OBVIOUS
<1>r. \A m \in S : R[m] \in Nat /\ R[m] >= 1
  BY <1>3 DEF IsList
<1>5. 0 \in P
  <2>1. \A m \in S : g[0][m] = {}
    BY <1>1, <1>2, <1>3, ReachUnfolds DEF Ptr
  <2>2. \A m \in S : {x \in S : R[x] <= R[m] /\ R[x] > R[m] - 0} = {}
    BY <1>r
  <2> QED BY <1>4, <2>1, <2>2
<1>6. ASSUME NEW k \in Nat, k \in P, k + 1 <= N PROVE \A m \in S :
         g[k + 1][m] = {x \in S : R[x] <= R[m] /\ R[x] > R[m] - (k + 1)}
  <2> SUFFICES ASSUME NEW m \in S
               PROVE  g[k + 1][m] = {x \in S : R[x] <= R[m] /\ R[x] > R[m] - (k + 1)}
    OBVIOUS
  <2>1. g[k + 1][m] = {m} \cup g[k][next_[m]]
    <3>1. k + 1 \in 1..N /\ (k + 1) - 1 = k
      BY <1>6
    <3> QED BY <1>1, <1>2, <1>3, <3>1, ReachUnfolds
  <2>2. CASE R[m] = 1
    <3>1. g[k][next_[m]] = {}
      BY <1>1, <1>2, <1>6, <2>2, ReachUnfolds DEF IsList
    <3>2. \A x \in S : R[x] <= R[m] /\ R[x] > R[m] - (k + 1) <=> x = m
      BY <1>r, <2>2 DEF IsList
    <3> QED BY <2>1, <3>1, <3>2
  <2>3. CASE R[m] # 1
    <3>1. next_[m] \in S /\ R[next_[m]] = R[m] - 1
      BY <2>3 DEF IsList
    <3>2. PICK x1 \in S : x1 = next_[m]
      BY <3>1
    <3>3. g[k][x1] = {x \in S : R[x] <= R[x1] /\ R[x] > R[x1] - k}
      BY <1>4, <1>6
    <3>4. R[x1] = R[m] - 1
      BY <3>1, <3>2
    <3>5. \A x \in S : R[x] = R[m] <=> x = m
      BY DEF IsList
    <3>6. \A x \in S : R[x] <= R[m] /\ R[x] > R[m] - (k + 1)
                        <=> x = m \/ (R[x] <= R[x1] /\ R[x] > R[x1] - k)
      <4> TAKE x \in S
      <4>1. R[x] \in Nat /\ R[m] \in Nat /\ R[x1] \in Nat
        BY <1>r
      <4> QED BY <4>1, <3>4, <3>5
    <3> QED BY <2>1, <3>2, <3>3, <3>6
  <2> QED BY <2>2, <2>3
<1>7. \A k \in Nat : k \in P => k + 1 \in P
  BY <1>4, <1>6
<1>8. N \in P
  BY <1>5, <1>7, SetInduction
<1>9. CASE first = NULL
  <2>1. S = {}
    BY <1>9 DEF IsList
  <2>2. g[N][NULL] = {}
    BY <1>1, <1>2, ReachUnfolds
  <2> QED BY <1>1, <1>2, <1>9, <2>1, <2>2
<1>10. CASE first # NULL
  <2>1. first \in S /\ R[first] = Cardinality(S)
    BY <1>10 DEF IsList
  <2>2. g[N][first] = {x \in S : R[x] <= R[first] /\ R[x] > R[first] - N}
    BY <1>4, <1>8, <2>1
  <2>3. \A x \in S : R[x] <= R[first] /\ R[x] > R[first] - N
    <3> TAKE x \in S
    <3>1. R[x] \in 1 .. Cardinality(S)
      BY DEF IsList
    <3> QED BY <1>3, <2>1, <3>1
  <2> QED BY <1>1, <1>2, <2>2, <2>3
<1> QED BY <1>9, <1>10

(* A list depends only on its own nodes.                                     *)
LEMMA ListSame ==
  ASSUME NEW S, NEW R, NEW nx, NEW first, IsList(S, R, nx, first), NEW Q, NEW ny,
         \A n \in S : Q[n] = R[n] /\ ny[n] = nx[n]
  PROVE  IsList(S, Q, ny, first)
  BY DEF IsList

(* A node that is linked to the first one becomes the first.                 *)
LEMMA ListPush ==
  ASSUME IsFiniteSet(Nodes), NEW S, NEW R, NEW nx, NEW first, IsList(S, R, nx, first),
         NEW n \in Nodes, n \notin S, NEW Q, NEW ny, ny[n] = first, Q[n] = Cardinality(S) + 1,
         \A m \in S : Q[m] = R[m] /\ ny[m] = nx[m]
  PROVE  IsList(S \cup {n}, Q, ny, n)
<1>1. IsFiniteSet(S) /\ Cardinality(S) \in Nat /\ (Cardinality(S) = 0 <=> S = {})
  BY FS_Subset, FS_CardinalityType, FS_EmptySet DEF IsList
<1>2. Cardinality(S \cup {n}) = Cardinality(S) + 1
  BY <1>1, FS_AddElement
<1>3. n # NULL
  BY NullAssumption
<1>4. S \cup {n} \subseteq Nodes
  BY DEF IsList
<1>5. ASSUME NEW m \in S
      PROVE  /\ Q[m] \in 1 .. Cardinality(S) + 1
             /\ IF Q[m] = 1 THEN ny[m] = NULL
                ELSE ny[m] \in S \cup {n} /\ Q[ny[m]] = Q[m] - 1
             /\ Q[m] # Q[n]
  BY <1>1, <1>5 DEF IsList
<1>6. IF Q[n] = 1 THEN ny[n] = NULL ELSE ny[n] \in S \cup {n} /\ Q[ny[n]] = Q[n] - 1
  <2>1. CASE first = NULL
    BY <1>1, <2>1 DEF IsList
  <2>2. CASE first # NULL
    <3>1. first \in S /\ R[first] = Cardinality(S) /\ Q[first] = R[first]
      BY <2>2 DEF IsList
    <3>2. Q[n] # 1
      BY <1>1, <3>1
    <3> QED BY <1>1, <3>1, <3>2
  <2> QED BY <2>1, <2>2
<1>7. Q[n] \in 1 .. Cardinality(S) + 1
  BY <1>1
<1>8. \A m, x \in S : Q[m] = Q[x] => m = x
  BY DEF IsList
<1>9. \A m, x \in S \cup {n} : Q[m] = Q[x] => m = x
  BY <1>5, <1>8
<1>10. \A m \in S \cup {n} :
         /\ Q[m] \in 1 .. Cardinality(S) + 1
         /\ IF Q[m] = 1 THEN ny[m] = NULL
            ELSE ny[m] \in S \cup {n} /\ Q[ny[m]] = Q[m] - 1
  BY <1>5, <1>6, <1>7
<1> QED BY <1>2, <1>3, <1>4, <1>9, <1>10 DEF IsList

(* Without its first node, the rest is a list.                               *)
LEMMA ListPop ==
  ASSUME IsFiniteSet(Nodes), NEW S, NEW R, NEW nx, NEW first, IsList(S, R, nx, first), first # NULL
  PROVE  /\ first \in S /\ first \in Nodes
         /\ nx[first] = NULL \/ nx[first] \in Nodes
         /\ Cardinality(S) \in Nat /\ Cardinality(S \ {first}) = Cardinality(S) - 1
         /\ IsList(S \ {first}, R, nx, nx[first])
<1>1. IsFiniteSet(S) /\ Cardinality(S) \in Nat /\ (Cardinality(S) = 0 <=> S = {})
  BY FS_Subset, FS_CardinalityType, FS_EmptySet DEF IsList
<1>2. first \in S /\ R[first] = Cardinality(S) /\ S \subseteq Nodes
  BY DEF IsList
<1>3. IsFiniteSet(S \ {first}) /\ Cardinality(S \ {first}) = Cardinality(S) - 1
  BY <1>1, <1>2, FS_RemoveElement
<1>4. Cardinality(S \ {first}) = 0 <=> S \ {first} = {}
  BY <1>3, FS_EmptySet
<1>5. \A m, x \in S : R[m] = R[x] => m = x
  BY DEF IsList
<1>6. ASSUME NEW m \in S \ {first}
      PROVE  /\ R[m] \in 1 .. Cardinality(S \ {first})
             /\ IF R[m] = 1 THEN nx[m] = NULL
                ELSE nx[m] \in S \ {first} /\ R[nx[m]] = R[m] - 1
  <2>1. R[m] \in 1 .. Cardinality(S) /\ R[m] # R[first]
    BY <1>2, <1>5, <1>6 DEF IsList
  <2>2. R[m] = 1 => nx[m] = NULL
    BY <1>6 DEF IsList
  <2>3. R[m] # 1 => nx[m] \in S /\ R[nx[m]] = R[m] - 1
    BY <1>6 DEF IsList
  <2>4. R[m] # 1 => nx[m] # first
    BY <1>1, <1>2, <2>1, <2>3
  <2> QED BY <1>1, <1>2, <1>3, <2>1, <2>2, <2>3, <2>4
<1>7. IF R[first] = 1 THEN nx[first] = NULL ELSE nx[first] \in S /\ R[nx[first]] = R[first] - 1
  BY <1>2 DEF IsList
<1>8. nx[first] = NULL \/ nx[first] \in Nodes
  BY <1>2, <1>7
<1>9. IF nx[first] = NULL THEN S \ {first} = {}
      ELSE nx[first] \in S \ {first} /\ R[nx[first]] = Cardinality(S \ {first})
  <2>1. CASE R[first] = 1
    BY <1>1, <1>2, <1>3, <1>4, <1>7, <2>1
  <2>2. CASE R[first] # 1
    <3>1. nx[first] \in S /\ R[nx[first]] = R[first] - 1
      BY <1>7, <2>2
    <3>2. nx[first] # first
      BY <1>1, <1>2, <3>1
    <3>3. nx[first] # NULL
      BY <1>2, <3>1, NullAssumption
    <3> QED BY <1>2, <1>3, <3>1, <3>2, <3>3
  <2> QED BY <2>1, <2>2
<1> QED BY <1>1, <1>2, <1>3, <1>5, <1>6, <1>8, <1>9 DEF IsList

(* The empty list.                                                          *)
LEMMA ListNull ==
  ASSUME NEW R, NEW nx
  PROVE  IsList({}, R, nx, NULL)
  BY DEF IsList

(* All nodes of a list are one further from its end, and only the last, l, is  *)
(* linked to another node.                                                    *)
Shifted(S, R, nx, Q, ny, l) == \A m \in S : Q[m] = R[m] + 1 /\ (m # l => ny[m] = nx[m])

(* A node whose next_ is null becomes the last, when the last is linked to it.*)
LEMMA ListAppend ==
  ASSUME IsFiniteSet(Nodes), NEW S, NEW R, NEW nx, NEW first, IsList(S, R, nx, first), first # NULL,
         NEW n \in Nodes, n \notin S, nx[n] = NULL, NEW l \in S, nx[l] = NULL,
         NEW Q, NEW ny, ny[l] = n, ny[n] = NULL, Q[n] = 1,
         Shifted(S, R, nx, Q, ny, l)
  PROVE  IsList(S \cup {n}, Q, ny, first) /\ R[l] = 1
<1> USE DEF Shifted
<1>1. IsFiniteSet(S) /\ Cardinality(S) \in Nat /\ S \subseteq Nodes
  BY FS_Subset, FS_CardinalityType DEF IsList
<1>2. Cardinality(S \cup {n}) = Cardinality(S) + 1
  BY <1>1, FS_AddElement
<1>3. \A m \in S : R[m] \in 1 .. Cardinality(S)
  BY DEF IsList
<1>4. R[l] = 1
  BY <1>1, NullAssumption DEF IsList
<1>5. \A m, x \in S \cup {n} : Q[m] = Q[x] => m = x
  <2>1. \A m \in S : Q[m] # 1
    BY <1>1, <1>3
  <2>2. \A m, x \in S : Q[m] = Q[x] => m = x
    <3> TAKE m, x \in S
    <3>1. R[m] \in Int /\ R[x] \in Int /\ Q[m] = R[m] + 1 /\ Q[x] = R[x] + 1
      BY <1>3
    <3> QED BY <3>1 DEF IsList
  <2> QED BY <2>1, <2>2
<1>6. ASSUME NEW m \in S
      PROVE  /\ Q[m] \in 1 .. Cardinality(S) + 1 /\ Q[m] # 1
             /\ ny[m] \in S \cup {n} /\ Q[ny[m]] = Q[m] - 1
  <2>1. R[m] \in 1 .. Cardinality(S) /\ Q[m] = R[m] + 1
    BY <1>3
  <2>2. CASE m = l
    BY <1>1, <1>4, <2>1, <2>2
  <2>3. CASE m # l
    <3>1. R[m] # 1
      BY <1>4, <2>3 DEF IsList
    <3>2. nx[m] \in S /\ R[nx[m]] = R[m] - 1
      BY <3>1 DEF IsList
    <3>3. ny[m] = nx[m] /\ Q[nx[m]] = R[nx[m]] + 1
      BY <2>3, <3>2
    <3> QED BY <1>1, <2>1, <3>2, <3>3
  <2> QED BY <2>2, <2>3
<1>7. first \in S /\ Q[first] = Cardinality(S) + 1
  BY <1>1 DEF IsList
<1>8. 1 \in 1 .. Cardinality(S) + 1
  BY <1>1
<1>9. \A m \in S \cup {n} :
         /\ Q[m] \in 1 .. Cardinality(S) + 1
         /\ IF Q[m] = 1 THEN ny[m] = NULL ELSE ny[m] \in S \cup {n} /\ Q[ny[m]] = Q[m] - 1
  BY <1>6, <1>8
<1>10. S \cup {n} \subseteq Nodes
  BY <1>1
<1> QED BY <1>2, <1>4, <1>5, <1>7, <1>9, <1>10 DEF IsList

-----------------------------------------------------------------------------
(* The types, the shape of deletions and of locals, who may call what, and    *)
(* the phases of the destructor: all that needs no list.                      *)

(* The types are those of the variables.                                      *)
LEMMA SanSame ==
  ASSUME SanTypeOK, UNCHANGED sanVars
  PROVE  SanTypeOK'
  BY DEF SanTypeOK, sanVars, hazards

(* No deletion is a deletion.                                                 *)
LEMMA NoDelTyped == NoDel \in Frame
<1>1. 0 \in Cells
  BY SlotAssumption DEF Cells, Sz
<1> QED BY <1>1 DEF NoDel, Frame, Ptr

(* What a deletion is made of, field by field.                                *)
LEMMA FrameTyped ==
  ASSUME SanTypeOK, NEW a \in Agents, NEW f \in Frame, del' = [del EXCEPT ![a] = f]
  PROVE  del' \in [Agents -> Frame]
  BY DEF SanTypeOK

(* The next node of _BackLoopDelete, or the end of _Delete.                   *)
LEMMA AfterTyped ==
  ASSUME SanTypeOK, NEW a \in Agents
  PROVE  AfterDelete(a) \in Frame
<1>1. del[a] \in Frame
  BY DEF SanTypeOK
<1>2. [NoDel EXCEPT !.pc = "next", !.rest = del[a].rest, !.loop = TRUE] \in Frame
  BY <1>1, NoDelTyped DEF Frame
<1>3. [NoDel EXCEPT !.pc = "exchange"] \in Frame
  BY <1>1, NoDelTyped DEF Frame
<1> QED BY <1>2, <1>3, NoDelTyped DEF AfterDelete

(* A step of a deletion keeps the types of what it writes.                   *)
LEMMA DeleteSan ==
  ASSUME SanTypeOK, Frames, NEW a \in Agents, DeleteStep(a)
  PROVE  SanTypeOK'
<1>0. del[a] \in Frame /\ 0 \in Cells /\ NULL \in Ptr
  BY SlotAssumption DEF SanTypeOK, Cells, Sz, Ptr
<1>1. CASE ScanMiss(a)
  <2>1. del[a].i + 1 \in Cells
    BY <1>0, <1>1, SlotAssumption DEF ScanMiss, Frame, Cells, Sz
  <2>2. [del[a] EXCEPT !.i = del[a].i + 1] \in Frame
    BY <1>0, <2>1 DEF Frame
  <2>3. del' = [del EXCEPT ![a] = [del[a] EXCEPT !.i = del[a].i + 1]]
    BY <1>1 DEF ScanMiss, SanTypeOK
  <2>4. del' \in [Agents -> Frame]
    BY <2>2, <2>3, FrameTyped
  <2> QED BY <1>1, <2>4 DEF ScanMiss, SanTypeOK, hazards
<1>2. CASE ScanHit(a)
  <2>1. [del[a] EXCEPT !.pc = "load", !.i = 0] \in Frame
    BY <1>0 DEF Frame
  <2>2. del' = [del EXCEPT ![a] = [del[a] EXCEPT !.pc = "load", !.i = 0]]
    BY <1>2 DEF ScanHit, SanTypeOK
  <2>3. del' \in [Agents -> Frame]
    BY <2>1, <2>2, FrameTyped
  <2> QED BY <1>2, <2>3 DEF ScanHit, SanTypeOK, hazards
<1>3. CASE ImmediateDelete(a)
  <2>1. del' \in [Agents -> Frame]
    BY <1>3, AfterTyped, FrameTyped DEF ImmediateDelete
  <2> QED BY <1>3, <2>1 DEF ImmediateDelete, SanTypeOK, hazards
<1>4. CASE DelayLoad(a)
  <2>1. [del[a] EXCEPT !.pc = "link", !.ori = backward_deleting_list_] \in Frame
    BY <1>0 DEF Frame, SanTypeOK
  <2>2. del' = [del EXCEPT ![a] = [del[a] EXCEPT !.pc = "link", !.ori = backward_deleting_list_]]
    BY <1>4 DEF DelayLoad, SanTypeOK
  <2>3. del' \in [Agents -> Frame]
    BY <2>1, <2>2, FrameTyped
  <2> QED BY <1>4, <2>3 DEF DelayLoad, SanTypeOK, hazards
<1>5. CASE DelayLink(a)
  <2>1. [del[a] EXCEPT !.pc = "cas"] \in Frame
    BY <1>0 DEF Frame
  <2>2. del' = [del EXCEPT ![a] = [del[a] EXCEPT !.pc = "cas"]]
    BY <1>5 DEF DelayLink, SanTypeOK
  <2>3. del' \in [Agents -> Frame]
    BY <2>1, <2>2, FrameTyped
  <2>4. next_' \in [Nodes -> Ptr]
    BY <1>0, <1>5 DEF DelayLink, SanTypeOK, Frame
  <2> QED BY <1>5, <2>3, <2>4 DEF DelayLink, SanTypeOK, hazards
<1>6. CASE DelayCas(a)
  <2>1. [del[a] EXCEPT !.pc = "load", !.ori = NULL] \in Frame
    BY <1>0 DEF Frame
  <2>2. \/ del' = [del EXCEPT ![a] = AfterDelete(a)]
        \/ del' = [del EXCEPT ![a] = [del[a] EXCEPT !.pc = "load", !.ori = NULL]]
    BY <1>6 DEF DelayCas, SanTypeOK
  <2>3. del' \in [Agents -> Frame]
    BY <2>1, <2>2, AfterTyped, FrameTyped
  <2>4. backward_deleting_list_' \in Ptr
    BY <1>0, <1>6 DEF DelayCas, SanTypeOK, Frame
  <2> QED BY <1>6, <2>3, <2>4 DEF DelayCas, SanTypeOK, hazards
<1>7. CASE BackExchange(a)
  <2>1. [NoDel EXCEPT !.pc = "next", !.rest = backward_deleting_list_, !.loop = TRUE] \in Frame
    BY NoDelTyped DEF Frame, SanTypeOK
  <2>2. del' \in [Agents -> Frame]
    BY <1>7, <2>1, NoDelTyped, FrameTyped DEF BackExchange
  <2> QED BY <1>0, <1>7, <2>2 DEF BackExchange, SanTypeOK, hazards
<1>8. CASE BackNext(a)
  <2>1. del[a].rest \in Nodes
    BY <1>0, <1>8 DEF BackNext, Frames, Frame, Ptr
  <2>2. next_[del[a].rest] \in Ptr
    BY <2>1 DEF SanTypeOK
  <2>3. [NoDel EXCEPT !.pc = "scan", !.node = del[a].rest,
                      !.rest = next_[del[a].rest], !.loop = TRUE] \in Frame
    BY <2>1, <2>2, NoDelTyped DEF Frame, Ptr
  <2>4. del' \in [Agents -> Frame]
    BY <1>8, <2>3, FrameTyped DEF BackNext
  <2> QED BY <1>8, <2>4 DEF BackNext, SanTypeOK, hazards
<1> QED BY <1>1, <1>2, <1>3, <1>4, <1>5, <1>6, <1>7, <1>8 DEF DeleteStep

(* So do the stores to the hazard pointers of a thread.                      *)
LEMMA StoreSan ==
  ASSUME SanTypeOK, NEW t \in Threads, NEW n \in Ptr, StorePtr(t, n),
         UNCHANGED <<allocated, next_, backward_deleting_list_, isBackSanitizer_, del>>
  PROVE  SanTypeOK'
<1>1. CASE n = NULL \/ SlotOf[t] = 0
  BY <1>1 DEF StorePtr, SanTypeOK, hazards
<1>2. CASE n # NULL /\ SlotOf[t] # 0
  <2>1. PICK s \in SlotIds : s = SlotOf[t]
    BY <1>2, SlotAssumption DEF SlotIds
  <2>2. pos[s] \in 0 .. Sz - 1 /\ (pos[s] + 1) % Sz \in 0 .. Sz - 1
    BY DEF SanTypeOK, Sz
  <2>3. [hps[s] EXCEPT ![pos[s]] = n] \in [0 .. Sz - 1 -> Ptr]
    BY <2>2 DEF SanTypeOK
  <2>4. /\ hps' = [hps EXCEPT ![s] = [hps[s] EXCEPT ![pos[s]] = n]]
        /\ pos' = [pos EXCEPT ![s] = (pos[s] + 1) % Sz]
    BY <1>2, <2>1 DEF StorePtr, SanTypeOK
  <2> QED BY <2>2, <2>3, <2>4 DEF SanTypeOK
<1> QED BY <1>1, <1>2

(* The two stores of reset.                                                   *)
LEMMA ResetSan ==
  ASSUME SanTypeOK, NEW t \in Threads
  PROVE  /\ ResetFirst(t) \/ ResetLast(t) => /\ hps' \in [SlotIds -> [0 .. Sz - 1 -> Ptr]]
                                            /\ pos' \in [SlotIds -> 0 .. Sz - 1]
<1>1. CASE SlotOf[t] = 0
  BY <1>1 DEF ResetFirst, ResetLast, SanTypeOK, hazards
<1>2. CASE SlotOf[t] # 0
  <2>1. PICK s \in SlotIds : s = SlotOf[t]
    BY <1>2, SlotAssumption DEF SlotIds
  <2>2. [hps[s] EXCEPT ![0] = NULL] \in [0 .. Sz - 1 -> Ptr]
    BY DEF SanTypeOK, Ptr
  <2>3. [hps[s] EXCEPT ![1] = NULL] \in [0 .. Sz - 1 -> Ptr]
    BY DEF SanTypeOK, Ptr
  <2>4. ASSUME ResetFirst(t)
        PROVE  hps' = [hps EXCEPT ![s] = [hps[s] EXCEPT ![0] = NULL]] /\ pos' = pos
    BY <1>2, <2>1, <2>4 DEF ResetFirst, SanTypeOK
  <2>5. ASSUME ResetLast(t)
        PROVE  /\ hps' = [hps EXCEPT ![s] = [hps[s] EXCEPT ![1] = NULL]]
               /\ pos' = [pos EXCEPT ![s] = 0]
    BY <1>2, <2>1, <2>5 DEF ResetLast, SanTypeOK
  <2>6. 0 \in 0 .. Sz - 1
    BY DEF Sz
  <2> QED BY <2>2, <2>3, <2>4, <2>5, <2>6 DEF SanTypeOK
<1> QED BY <1>1, <1>2

(* The value of a Push.                                                      *)
LEMMA ValuesTyped == ASSUME Types, pushes < use.pushes
  PROVE pushes + 1 \in 0 .. use.pushes /\ pushes + 1 \in Values /\ pushes + 1 # NoValue
<1>1. use \in Uses /\ use.pushes \in Nat /\ pushes \in 0 .. use.pushes
  BY UsesAssumption DEF Types
<1>2. pushes + 1 \in 0 .. use.pushes /\ pushes + 1 \in 1 .. use.pushes
  BY <1>1
<1>3. pushes + 1 \in Values
  BY <1>1, <1>2 DEF Values
<1> QED BY <1>2, <1>3, NoValueAssumption

-----------------------------------------------------------------------------
(* What the parts of the invariant say, and what keeps them.                  *)

(* Only one thread pops: the consumer, or the destructor.                     *)
LEMMA OnePop ==
  ASSUME Hypotheses, Typed, NEW s \in Threads, NEW t \in Threads,
         pc[s] \in PopLabels, pc[t] \in PopLabels
  PROVE  s = t
<1>1. use \in Uses /\ s \in use.consumers \cup {Main} /\ t \in use.consumers \cup {Main}
  BY DEF Typed, Types, Roles
<1>2. ASSUME s = Main \/ t = Main PROVE s = t
  <2>1. pc[Main] # "idle" /\ pc[s] # "idle" /\ pc[t] # "idle"
    BY <1>2 DEF PopLabels
  <2> QED BY <2>1 DEF Typed, Roles
<1>3. s \in use.consumers /\ t \in use.consumers => s = t
  BY <1>1 DEF Hypotheses, OneConsumer
<1> QED BY <1>1, <1>2, <1>3

(* Where there is a consumer, only one thread pushes.                         *)
LEMMA OnePush ==
  ASSUME Hypotheses, Typed, use.consumers # {}, NEW s \in Threads, NEW t \in Threads,
         pc[s] \in PushLabels, pc[t] \in PushLabels
  PROVE  s = t
<1>1. use \in Uses /\ s \in use.producers /\ t \in use.producers
  BY DEF Typed, Types, Roles
<1> QED BY <1>1 DEF Hypotheses, OneProducer

(* The destructor pops when nobody pushes.                                   *)
LEMMA PopBesidePush ==
  ASSUME Typed, NEW s \in Threads, NEW t \in Threads, pc[s] \in PopLabels, pc[t] \in PushLabels
  PROVE  s # t /\ use.consumers # {}
<1>1. pc[s] \notin PushLabels
  BY DEF PushLabels, PopLabels
<1>2. s # t
  BY <1>1
<1>3. s # Main
  BY <1>2 DEF Typed, Roles, PushLabels, PopLabels
<1> QED BY <1>2, <1>3 DEF Typed, Roles

(* A thread that pushes is not the one that destroys the queue.               *)
LEMMA PushIsNotMain ==
  ASSUME Hypotheses, Typed, NEW t \in Threads, pc[t] \in PushLabels
  PROVE  t # Main /\ pc[Main] = "idle"
<1>1. use \in Uses /\ t \in use.producers
  BY DEF Typed, Types, Roles
<1>2. t # Main
  BY <1>1 DEF Hypotheses, MainApart
<1> QED BY <1>2 DEF Typed, Roles, PushLabels

(* The ends of the list.                                                     *)
LEMMA EndsOf ==
  ASSUME Hypotheses, Typed, NEW K, NEW R, QueueList(K, R)
  PROVE  /\ head_ \in Nodes /\ tail_ \in Nodes /\ head_ # NULL /\ tail_ # NULL
         /\ K[head_] = "list" /\ K[tail_] = "list"
         /\ \A m \in Nodes : K[m] = "list" => R[m] \in Nat /\ R[m] >= 1 /\ R[m] <= R[head_]
         /\ \A m \in Nodes : K[m] = "list" =>
              IF next_[m] = NULL THEN R[m] = 1
              ELSE /\ R[m] > 1 /\ next_[m] \in Nodes /\ K[next_[m]] = "list" /\ R[next_[m]] = R[m] - 1
                   /\ next_[m] # m
         /\ \A m, n \in Nodes : K[m] = "list" /\ K[n] = "list" /\ R[m] = R[n] => m = n
<1>1. PICK S : S = At(K, "list")
  OBVIOUS
<1>2. IsList(S, R, next_, head_) /\ IsFiniteSet(Nodes)
  BY <1>1 DEF QueueList, Hypotheses, FiniteSystem
<1>3. IsFiniteSet(S) /\ Cardinality(S) \in Nat /\ S \subseteq Nodes
  BY <1>2, FS_Subset, FS_CardinalityType DEF IsList
<1>4. head_ \in Nodes /\ tail_ \in Nodes /\ head_ # NULL /\ tail_ # NULL
  BY NullAssumption DEF Typed, Types
<1>5. head_ \in S /\ R[head_] = Cardinality(S)
  BY <1>2, <1>4 DEF IsList
<1>6. \A m \in Nodes : K[m] = "list" <=> m \in S
  BY <1>1 DEF At
<1>7. \A m \in S : R[m] \in Nat /\ R[m] >= 1 /\ R[m] <= R[head_]
  BY <1>2, <1>3, <1>5 DEF IsList
<1>8. ASSUME NEW m \in S
      PROVE  IF next_[m] = NULL THEN R[m] = 1
             ELSE R[m] > 1 /\ next_[m] \in S /\ R[next_[m]] = R[m] - 1 /\ next_[m] # m
  BY <1>2, <1>3, <1>7, NullAssumption DEF IsList
<1>9. K[tail_] = "list"
  BY DEF QueueList
<1> QED BY <1>2, <1>3, <1>4, <1>5, <1>6, <1>7, <1>8, <1>9 DEF IsList

(* The nodes and their lists, where no step writes to them.                    *)
Nodewise(K, O, R) ==
  Book(K, O, R) /\ DelayedList(K, R) /\ RestLists(K, O, R) /\ InHands(K, O)

(* The places of the nodes stay as they are when nothing they speak of        *)
(* changes.                                                                   *)
LEMMA NodesSame ==
  ASSUME NEW K, NEW O, NEW R, Nodewise(K, O, R),
         UNCHANGED <<allocated, next_, backward_deleting_list_, del>>,
         Deleted' = Deleted
  PROVE  Nodewise(K, O, R)'
  BY DEF Nodewise, Book, DelayedList, RestLists, InHands, At, RestOf

(* The same of the lists alone.                                               *)
LEMMA ListsSame ==
  ASSUME NEW K, NEW R, QueueList(K, R), UNCHANGED <<next_, head_, tail_>>
  PROVE  QueueList(K, R)'
  BY DEF QueueList, At

(* The size, while no thread goes to or comes from where it is wrong.          *)
LEMMA CountSame ==
  ASSUME NEW K, NEW J, At(J, "list") = At(K, "list"), Counted(K), size_' = size_,
         \A t \in Threads : /\ pc'[t] \in {"push_swing", "push_size"} <=> pc[t] \in {"push_swing", "push_size"}
                            /\ pc'[t] \in {"pop_swap", "pop_size"} <=> pc[t] \in {"pop_swap", "pop_size"}
  PROVE  Counted(J)'
<1>1. Adding' = Adding /\ Taking' = Taking
  BY DEF Adding, Taking
<1>2. At(J, "list")' = At(J, "list")
  BY DEF At
<1> QED BY <1>1, <1>2 DEF Counted

-----------------------------------------------------------------------------
(* Counting modulo SizeMod.                                                 *)

(* Multiplication, in the forms in which the proofs below need it.          *)
LEMMA Distribute ==
  ASSUME NEW m \in Int, NEW k \in Int, NEW l \in Int
  PROVE  m * (k + l) = m * k + m * l
  BY Z3

(* The only multiple of m between -m and m is 0.                              *)
LEMMA SmallMultiple ==
  ASSUME NEW m \in Nat \ {0}, NEW q \in Int, -m < m * q, m * q < m
  PROVE  q = 0
  BY Z3

(* Division with a remainder.  Rem hides the operator from the provers, which *)
(* otherwise reason about it themselves and find nothing.                    *)
Rem(a, m) == a % m

(* There are a quotient and a remainder.                                    *)
LEMMA Division ==
  ASSUME NEW a \in Int, NEW m \in Nat \ {0}
  PROVE  \E q \in Int, r \in 0..(m - 1) : a = m * q + r /\ Rem(a, m) = r
<1>1. a % m \in 0..(m - 1) /\ a \div m \in Int /\ a = m * (a \div m) + (a % m)
  OBVIOUS
<1> QED BY <1>1 DEF Rem

(* The remainder is the only one.                                           *)
LEMMA RemIs ==
  ASSUME NEW a \in Int, NEW m \in Nat \ {0}, NEW q \in Int, NEW r \in 0..(m - 1), a = m * q + r
  PROVE  Rem(a, m) = r
<1>1. PICK k \in Int, s \in 0..(m - 1) : a = m * k + s /\ Rem(a, m) = s
  BY Division
<1>2. PICK d \in Int : k = q + d
  <2>1. k - q \in Int /\ k = q + (k - q)
    OBVIOUS
  <2> QED BY <2>1
<1>3. m * d = r - s
  <2>1. m * k = m * q + m * d
    BY <1>2, Distribute
  <2> QED BY <1>1, <2>1
<1>4. d = 0
  BY <1>3, SmallMultiple
<1> QED BY <1>1, <1>2, <1>4

(* A remainder taken before adding makes no difference.                     *)
LEMMA RemPlusRem ==
  ASSUME NEW m \in Nat \ {0}, NEW a \in Int, NEW b \in Int
  PROVE  Rem(Rem(a, m) + b, m) = Rem(a + b, m)
<1>1. PICK k \in Int, r \in 0..(m - 1) : a = m * k + r /\ Rem(a, m) = r
  BY Division
<1>2. PICK c \in Int : c = r + b
  OBVIOUS
<1>3. PICK l \in Int, s \in 0..(m - 1) : c = m * l + s /\ Rem(c, m) = s
  BY Division
<1>4. PICK d \in Int, q \in Int : d = a + b /\ q = k + l
  OBVIOUS
<1>5. d = m * q + s
  <2>1. m * q = m * k + m * l
    BY <1>4, Distribute
  <2> QED BY <1>1, <1>2, <1>3, <1>4, <2>1
<1>6. Rem(d, m) = s
  BY <1>5, RemIs
<1> QED BY <1>1, <1>2, <1>3, <1>4, <1>6

(* Adding to a size that has wrapped.                                        *)
LEMMA SizePlus ==
  ASSUME NEW x \in Int, NEW b \in Int
  PROVE  ((x % SizeMod) + b) % SizeMod = (x + b) % SizeMod
<1>1. Rem(Rem(x, SizeMod) + b, SizeMod) = Rem(x + b, SizeMod)
  BY RemPlusRem, SizeModAssumption
<1> QED BY <1>1 DEF Rem

(* The numbers that are counted.                                             *)
LEMMA Counts ==
  ASSUME Hypotheses, NEW K
  PROVE  /\ IsFiniteSet(At(K, "list")) /\ Cardinality(At(K, "list")) \in Nat
         /\ IsFiniteSet(Taking) /\ Cardinality(Taking) \in Nat
         /\ IsFiniteSet(Adding) /\ Cardinality(Adding) \in Nat
<1>1. At(K, "list") \subseteq Nodes /\ Taking \subseteq Threads /\ Adding \subseteq Threads
  BY DEF At, Taking, Adding
<1> QED BY <1>1, FS_Subset, FS_CardinalityType DEF Hypotheses, FiniteSystem

(* The size is written by the thread that has added a node or taken one.      *)
LEMMA CountAdd ==
  ASSUME Hypotheses, NEW K, Counted(K), NEW t \in Adding,
         size_' = (size_ + 1) % SizeMod, Adding' = Adding \ {t}, Taking' = Taking
  PROVE  Counted(K)'
<1>1. Cardinality(Adding \ {t}) = Cardinality(Adding) - 1
  BY Counts, FS_RemoveElement
<1>2. PICK l, k, m \in Int : /\ l = Cardinality(At(K, "list")) - 1 /\ k = Cardinality(Taking)
                             /\ m = Cardinality(Adding)
  BY Counts
<1>3. size_ = (l + k - m) % SizeMod
  BY <1>2 DEF Counted
<1>4. size_' = ((l + k - m) + 1) % SizeMod
  BY <1>3, SizePlus
<1>5. (l + k - m) + 1 = l + k - (m - 1)
  OBVIOUS
<1>6. At(K, "list")' = At(K, "list")
  BY DEF At
<1> QED BY <1>1, <1>2, <1>4, <1>5, <1>6 DEF Counted

(* The same of the thread whose fetch_sub it is.                              *)
LEMMA CountSub ==
  ASSUME Hypotheses, NEW K, Counted(K), NEW t \in Taking,
         size_' = (size_ - 1) % SizeMod, Taking' = Taking \ {t}, Adding' = Adding
  PROVE  Counted(K)'
<1>1. Cardinality(Taking \ {t}) = Cardinality(Taking) - 1
  BY Counts, FS_RemoveElement
<1>2. PICK l, k, m \in Int : /\ l = Cardinality(At(K, "list")) - 1 /\ k = Cardinality(Taking)
                             /\ m = Cardinality(Adding)
  BY Counts
<1>3. size_ = (l + k - m) % SizeMod
  BY <1>2 DEF Counted
<1>4. size_ - 1 = size_ + (-1)
  BY <1>3, SizeModAssumption
<1>5. size_' = ((l + k - m) + (-1)) % SizeMod
  BY <1>3, <1>4, SizePlus
<1>6. (l + k - m) + (-1) = l + (k - 1) - m
  OBVIOUS
<1>7. At(K, "list")' = At(K, "list")
  BY DEF At
<1> QED BY <1>1, <1>2, <1>5, <1>6, <1>7 DEF Counted

(* A node that comes to the list and the thread that has still to count it.   *)
LEMMA CountPush ==
  ASSUME Hypotheses, NEW K, NEW J, Counted(K), NEW n, n \notin At(K, "list"),
         At(J, "list") = At(K, "list") \cup {n},
         NEW t \in Threads \ Adding, size_' = size_, Adding' = Adding \cup {t}, Taking' = Taking
  PROVE  Counted(J)'
<1>1. Cardinality(Adding \cup {t}) = Cardinality(Adding) + 1
  BY Counts, FS_AddElement
<1>2. Cardinality(At(J, "list")) = Cardinality(At(K, "list")) + 1
  BY Counts, FS_AddElement
<1>3. PICK l, k, m \in Int : /\ l = Cardinality(At(K, "list")) - 1 /\ k = Cardinality(Taking)
                             /\ m = Cardinality(Adding)
  BY Counts
<1>4. size_ = (l + k - m) % SizeMod
  BY <1>3 DEF Counted
<1>5. l + k - m = (l + 1) + k - (m + 1)
  OBVIOUS
<1>6. At(J, "list")' = At(J, "list")
  BY DEF At
<1>7. Cardinality(At(J, "list")) - 1 = l + 1
  BY <1>2, <1>3, Counts
<1> QED BY <1>1, <1>3, <1>4, <1>5, <1>6, <1>7 DEF Counted

(* A node leaves the list before size_ says so.                               *)
LEMMA CountPop ==
  ASSUME Hypotheses, NEW K, NEW J, Counted(K), NEW n \in At(K, "list"),
         At(J, "list") = At(K, "list") \ {n},
         NEW t \in Threads \ Taking, size_' = size_, Taking' = Taking \cup {t}, Adding' = Adding
  PROVE  Counted(J)'
<1>1. Cardinality(Taking \cup {t}) = Cardinality(Taking) + 1
  BY Counts, FS_AddElement
<1>2. Cardinality(At(J, "list")) = Cardinality(At(K, "list")) - 1
  BY Counts, FS_RemoveElement
<1>3. PICK l, k, m \in Int : /\ l = Cardinality(At(K, "list")) - 1 /\ k = Cardinality(Taking)
                             /\ m = Cardinality(Adding)
  BY Counts
<1>4. size_ = (l + k - m) % SizeMod
  BY <1>3 DEF Counted
<1>5. l + k - m = (l - 1) + (k + 1) - m
  OBVIOUS
<1>6. At(J, "list")' = At(J, "list")
  BY DEF At
<1>7. Cardinality(At(J, "list")) - 1 = l - 1
  BY <1>2, <1>3, Counts
<1> QED BY <1>1, <1>3, <1>4, <1>5, <1>6, <1>7 DEF Counted

(* The fetch_add of Push.                                                     *)
LEMMA PushSizeCounted ==
  ASSUME Hypotheses, Typed, NEW K, Counted(K), NEW t \in Threads, PushSize(t)
  PROVE  Counted(K)'
<1>1. t \in Adding /\ Adding' = Adding \ {t} /\ Taking' = Taking
  BY DEF PushSize, Leave, Goto, Typed, Types, Adding, Taking
<1>2. size_' = (size_ + 1) % SizeMod
  BY DEF PushSize
<1> QED BY <1>1, <1>2, CountAdd

(* The fetch_sub of Pop.                                                      *)
LEMMA PopSizeCounted ==
  ASSUME Hypotheses, Typed, NEW K, Counted(K), NEW t \in Threads, PopSize(t)
  PROVE  Counted(K)'
<1>1. t \in Taking /\ Taking' = Taking \ {t} /\ Adding' = Adding
  BY DEF PopSize, Goto, Typed, Types, Adding, Taking
<1>2. size_' = (size_ - 1) % SizeMod
  BY DEF PopSize
<1> QED BY <1>1, <1>2, CountSub

-----------------------------------------------------------------------------
(* A node that goes from one place to another.                               *)

(* The places after a move: one node's is new.                                *)
LEMMA MoveOne ==
  ASSUME NEW K \in [Nodes -> Kinds], NEW n \in Nodes, NEW k \in Kinds
  PROVE  \E J \in [Nodes -> Kinds] : J[n] = k /\ \A m \in Nodes : m # n => J[m] = K[m]
<1>1. PICK J : J = [K EXCEPT ![n] = k]
  OBVIOUS
<1> QED BY <1>1

(* The same of the owners.                                                    *)
LEMMA OwnOne ==
  ASSUME NEW O \in [Nodes -> Agents], NEW n \in Nodes, NEW a \in Agents
  PROVE  \E P \in [Nodes -> Agents] : P[n] = a /\ \A m \in Nodes : m # n => P[m] = O[m]
<1>1. PICK P : P = [O EXCEPT ![n] = a]
  OBVIOUS
<1> QED BY <1>1

(* The same of the ranks.                                                     *)
LEMMA RankOne ==
  ASSUME NEW R \in [Nodes -> Nat], NEW n \in Nodes, NEW r \in Nat
  PROVE  \E Q \in [Nodes -> Nat] : Q[n] = r /\ \A m \in Nodes : m # n => Q[m] = R[m]
<1>1. PICK Q : Q = [R EXCEPT ![n] = r]
  OBVIOUS
<1> QED BY <1>1

(* The sets of nodes after a move.                                           *)
LEMMA AtMoved ==
  ASSUME NEW K, NEW J, NEW n \in Nodes, \A m \in Nodes : m # n => J[m] = K[m]
  PROVE  /\ \A x : x # K[n] /\ x # J[n] => At(J, x) = At(K, x)
         /\ J[n] # K[n] => /\ At(J, J[n]) = At(K, J[n]) \cup {n} /\ n \notin At(K, J[n])
                           /\ At(J, K[n]) = At(K, K[n]) \ {n} /\ n \in At(K, K[n])
  BY DEF At

(* The lists that a step leaves as they are.                                 *)
LEMMA KeepQueue ==
  ASSUME NEW K, NEW R, NEW J, NEW Q, QueueList(K, R), At(J, "list") = At(K, "list"),
         tail_ \in Nodes,
         \A m \in At(K, "list") : Q[m] = R[m] /\ next_'[m] = next_[m], head_' = head_, tail_' = tail_
  PROVE  QueueList(J, Q)'
<1>1. IsList(At(K, "list"), Q, next_', head_)
  BY ListSame DEF QueueList
<1>2. At(J, "list")' = At(K, "list")
  BY DEF At
<1>3. tail_ \in At(K, "list")
  BY DEF QueueList, At
<1>4. J[tail_] = "list" /\ Q[tail_] = R[tail_]
  BY <1>3 DEF At
<1> QED BY <1>1, <1>2, <1>4 DEF QueueList

(* The same of the delayed list.                                              *)
LEMMA KeepDelayed ==
  ASSUME NEW K, NEW R, NEW J, NEW Q, DelayedList(K, R), At(J, "delayed") = At(K, "delayed"),
         \A m \in At(K, "delayed") : Q[m] = R[m] /\ next_'[m] = next_[m],
         backward_deleting_list_' = backward_deleting_list_
  PROVE  DelayedList(J, Q)'
<1>1. IsList(At(K, "delayed"), Q, next_', backward_deleting_list_)
  BY ListSame DEF DelayedList
<1>2. At(J, "delayed")' = At(K, "delayed")
  BY DEF At
<1> QED BY <1>1, <1>2 DEF DelayedList

(* The same of the lists that agents have taken.                              *)
LEMMA KeepRests ==
  ASSUME NEW K, NEW O, NEW R, NEW J, NEW P, NEW Q, RestLists(K, O, R),
         \A a \in Agents : /\ RestOf(J, P, a) = RestOf(K, O, a) /\ del'[a].rest = del[a].rest
                           /\ \A m \in RestOf(K, O, a) : Q[m] = R[m] /\ next_'[m] = next_[m]
  PROVE  RestLists(J, P, Q)'
<1> SUFFICES ASSUME NEW a \in Agents PROVE IsList(RestOf(J, P, a), Q, next_', del'[a].rest)
  BY DEF RestLists, RestOf
<1>1. IsList(RestOf(K, O, a), R, next_, del[a].rest)
  BY DEF RestLists
<1> QED BY <1>1, ListSame

(* What a step that moves the node n leaves as it is.                         *)
Elsewhere(K, O, R, J, P, Q, n) ==
  \A m \in Nodes : m # n => J[m] = K[m] /\ P[m] = O[m] /\ Q[m] = R[m] /\ next_'[m] = next_[m]

(* The queue's list and its tail, when n is neither taken from it nor put     *)
(* into it.                                                                   *)
LEMMA QueueElsewhere ==
  ASSUME Typed, NEW K, NEW O, NEW R, NEW J, NEW P, NEW Q, NEW n \in Nodes, QueueList(K, R),
         Elsewhere(K, O, R, J, P, Q, n), K[n] # "list", J[n] # "list", head_' = head_, tail_' = tail_
  PROVE  QueueList(J, Q)'
<1>1. At(J, "list") = At(K, "list")
  BY DEF At, Elsewhere
<1>2. \A m \in At(K, "list") : Q[m] = R[m] /\ next_'[m] = next_[m]
  BY DEF At, Elsewhere
<1>3. tail_ \in Nodes
  BY DEF Typed, Types
<1> QED BY <1>1, <1>2, <1>3, KeepQueue

(* The delayed list, likewise.                                                *)
LEMMA DelayedElsewhere ==
  ASSUME NEW K, NEW O, NEW R, NEW J, NEW P, NEW Q, NEW n \in Nodes, DelayedList(K, R),
         Elsewhere(K, O, R, J, P, Q, n), K[n] # "delayed", J[n] # "delayed",
         backward_deleting_list_' = backward_deleting_list_
  PROVE  DelayedList(J, Q)'
<1>1. At(J, "delayed") = At(K, "delayed")
  BY DEF At, Elsewhere
<1>2. \A m \in At(K, "delayed") : Q[m] = R[m] /\ next_'[m] = next_[m]
  BY DEF At, Elsewhere
<1> QED BY <1>1, <1>2, KeepDelayed

(* The taken lists, likewise.                                                 *)
LEMMA RestsElsewhere ==
  ASSUME NEW K, NEW O, NEW R, NEW J, NEW P, NEW Q, NEW n \in Nodes, RestLists(K, O, R),
         Elsewhere(K, O, R, J, P, Q, n), K[n] # "rest", J[n] # "rest",
         \A a \in Agents : del'[a].rest = del[a].rest
  PROVE  RestLists(J, P, Q)'
<1>1. \A a \in Agents : RestOf(J, P, a) = RestOf(K, O, a)
  BY DEF RestOf, Elsewhere
<1>2. \A a \in Agents : \A m \in RestOf(K, O, a) : Q[m] = R[m] /\ next_'[m] = next_[m]
  BY DEF RestOf, Elsewhere
<1> QED BY <1>1, <1>2, KeepRests

(* The node in hand of an agent that has one.                                *)
LEMMA HandOf ==
  ASSUME Typed, NEW K, NEW O, InHands(K, O), NEW a \in Agents,
         del[a].node # NULL
  PROVE  del[a].node \in Nodes /\ K[del[a].node] = "hand" /\ O[del[a].node] = a
<1>1. del[a].node \in Nodes
  BY DEF Typed, Types, SanTypeOK, Frame, Ptr
<1> QED BY <1>1 DEF InHands

(* The places of the nodes that a Push and a Pop hold.                        *)
LEMMA PushHolds ==
  ASSUME Typed, NEW K, NEW O, NEW R, Fresh(K, O), Producing(K, R), NEW u \in Threads
  PROVE  /\ pc[u] \in Unlinked => new[u] \in Nodes /\ K[new[u]] = "new" /\ O[new[u]] = u
                                 /\ next_[new[u]] = NULL
         /\ pc[u] \in Linking => ori[u] \in Nodes /\ K[ori[u]] = "list"
         /\ pc[u] = "push_swing" => ori[u] \in Nodes /\ new[u] \in Nodes
<1>1. pc[u] \in Unlinked => new[u] \in Nodes
  BY DEF Typed, Types, Locals, Ptr
<1>2. pc[u] \in Linking => ori[u] \in Nodes
  BY DEF Typed, Types, Locals, Ptr
<1>3. pc[u] = "push_swing" => ori[u] \in Nodes /\ new[u] \in Nodes
  BY DEF Typed, Types, Locals, Ptr
<1> QED BY <1>1, <1>2, <1>3 DEF Fresh, Producing

(* What a Pop has unlinked and not yet released is in limbo, and its own.     *)
LEMMA PopHolds ==
  ASSUME Typed, NEW K, NEW O, Popped(K, O), NEW u \in Threads, pc[u] \in Limbo
  PROVE  h[u] \in Nodes /\ K[h[u]] = "limbo" /\ O[h[u]] = u
<1>1. h[u] \in Nodes
  BY DEF Typed, Types, Locals, Limbo, PopLabels, Ptr
<1> QED BY <1>1 DEF Popped

(* What a step leaves as it is when it moves no node that a Push or a Pop     *)
(* has a part in, and each thread keeps its locals, or has none in use before *)
(* the step and after it.                                                   *)
InUse == {"new", "list", "limbo"}
Agree(K, O, R, J, P, Q) ==
  \A m \in Nodes : K[m] \in InUse \/ J[m] \in InUse =>
    J[m] = K[m] /\ P[m] = O[m] /\ Q[m] = R[m] /\ next_'[m] = next_[m]

Resting == {"idle", "push_new", "pop_head"} \cup DtorLabels
Aside == \A t \in Threads :
  \/ pc[t] \in Resting /\ pc'[t] \in Resting
  \/ /\ pc'[t] = pc[t] /\ val'[t] = val[t] /\ ori'[t] = ori[t] /\ new'[t] = new[t]
     /\ h'[t] = h[t] /\ tl'[t] = tl[t] /\ nxt'[t] = nxt[t]

Beside(K, O, R) ==
  /\ QueueList(K, R) /\ Fresh(K, O) /\ Popped(K, O)
  /\ Behind /\ Producing(K, R) /\ Popping /\ Filled(K) /\ Counted(K)

(* So the parts of Inv about Push and Pop hold after a step of a deletion, of *)
(* the background thread or of the destructor.                                *)
LEMMA BesideKept ==
  ASSUME Hypotheses, Typed, NEW K, NEW O, NEW R, Inv(K, O, R),
         NEW J, NEW P, NEW Q, Agree(K, O, R, J, P, Q), Aside,
         UNCHANGED <<head_, tail_, size_, data, use>>
  PROVE  Beside(J, P, Q)'
<1>0. DEFINE Same(t) == /\ pc'[t] = pc[t] /\ val'[t] = val[t] /\ ori'[t] = ori[t] /\ new'[t] = new[t]
                        /\ h'[t] = h[t] /\ tl'[t] = tl[t] /\ nxt'[t] = nxt[t]
<1>1. \A t \in Threads : pc'[t] \notin Resting \/ pc[t] \notin Resting => Same(t)
  BY DEF Aside
<1>2. At(J, "list") = At(K, "list")
  BY DEF Agree, InUse, At
<1>3. /\ head_ \in Nodes /\ K[head_] = "list" /\ tail_ \in Nodes /\ K[tail_] = "list"
  BY EndsOf DEF Inv
<1>4. QueueList(J, Q)'
  <2>1. \A m \in At(K, "list") : Q[m] = R[m] /\ next_'[m] = next_[m]
    BY DEF Agree, InUse, At
  <2> QED BY <1>2, <1>3, <2>1, KeepQueue DEF Inv
<1>5. Fresh(J, P)'
  <2>1. \A t \in Threads : pc'[t] \in Unlinked \/ pc[t] \in Unlinked => Same(t)
    BY <1>1 DEF Resting, Unlinked, PushLabels, DtorLabels
  <2>2. \A m \in Nodes : J[m] = "new" \/ K[m] = "new" => J[m] = K[m] /\ P[m] = O[m] /\ next_'[m] = next_[m]
    BY DEF Agree, InUse
  <2>3. \A m \in Nodes, t \in Threads : J[m] = "new" /\ P[m] = t <=> K[m] = "new" /\ O[m] = t
    BY <2>2
  <2>4. \A m \in Nodes, t \in Threads : pc'[t] \in Unlinked /\ new'[t] = m <=> pc[t] \in Unlinked /\ new[t] = m
    BY <2>1
  <2>5. Fresh(K, O)
    BY DEF Inv
  <2> QED BY <2>2, <2>3, <2>4, <2>5 DEF Fresh
<1>6. Popped(J, P)'
  <2>1. \A t \in Threads : pc'[t] \in Limbo \/ pc[t] \in Limbo => Same(t)
    BY <1>1 DEF Resting, Limbo, DtorLabels
  <2>2. \A m \in Nodes : J[m] = "limbo" \/ K[m] = "limbo" => J[m] = K[m] /\ P[m] = O[m]
    BY DEF Agree, InUse
  <2>3. \A m \in Nodes, t \in Threads : J[m] = "limbo" /\ P[m] = t <=> K[m] = "limbo" /\ O[m] = t
    BY <2>2
  <2>4. \A m \in Nodes, t \in Threads : pc'[t] \in Limbo /\ h'[t] = m <=> pc[t] \in Limbo /\ h[t] = m
    BY <2>1
  <2>5. Popped(K, O)
    BY DEF Inv
  <2> QED BY <2>2, <2>3, <2>4, <2>5 DEF Popped
<1>7. Behind'
  <2>1. \A t \in Threads : pc[t] = "push_swing" => Same(t)
    BY <1>1 DEF Resting, DtorLabels
  <2>2. next_'[tail_] = next_[tail_]
    BY <1>3 DEF Agree, InUse
  <2> QED BY <2>1, <2>2 DEF Inv, Behind
<1>8. Producing(J, Q)'
  <2> SUFFICES ASSUME NEW t \in Threads, pc'[t] \in Linking \cup {"push_swing"}
               PROVE  /\ pc[t] \in Linking =>
                           /\ J[ori[t]] = "list" /\ Q[tail_] <= Q[ori[t]]
                           /\ use.consumers # {} => ori[t] = tail_ /\ pc[t] # "push_help"
                      /\ pc[t] = "push_help" => nxt[t] = next_'[ori[t]]
                      /\ pc[t] = "push_swing" =>
                           /\ use.consumers = {} => J[ori[t]] = "list"
                           /\ J[ori[t]] = "list" => next_'[ori[t]] = new[t]
                      /\ Same(t)
    BY DEF Producing, Linking
  <2>1. Same(t)
    BY <1>1 DEF Resting, Linking, DtorLabels
  <2>2. ori[t] \in Nodes
    BY <2>1 DEF Typed, Types, Locals, Ptr
  <2>3. \A m \in Nodes : J[m] = "list" \/ K[m] = "list" => J[m] = K[m] /\ Q[m] = R[m] /\ next_'[m] = next_[m]
    BY DEF Agree, InUse
  <2>4. pc[t] \in Linking => K[ori[t]] = "list"
    BY DEF Inv, Producing
  <2> QED BY <1>3, <2>1, <2>2, <2>3, <2>4 DEF Inv, Producing, Linking
<1>9. Popping'
  <2>1. \A t \in Threads : pc'[t] \in {"pop_tail", "pop_next", "pop_help", "pop_swap"} \cup Found => Same(t)
    BY <1>1 DEF Resting, Found, DtorLabels
  <2>2. next_'[head_] = next_[head_]
    BY <1>3 DEF Agree, InUse
  <2> QED BY <2>1, <2>2 DEF Inv, Popping, Found
<1>10. Filled(J)'
  <2>1. \A t \in Threads : pc'[t] \in {"pop_swap", "pop_size", "pop_reset", "pop_release", "pop_return"} => Same(t)
    BY <1>1 DEF Resting, DtorLabels
  <2>2. \A m \in Nodes : J[m] \in {"new", "list"} => J[m] = K[m]
    BY DEF Agree, InUse
  <2> QED BY <2>1, <2>2 DEF Inv, Filled
<1>11. Counted(J)'
  <2>1. \A t \in Threads : /\ pc'[t] \in {"push_swing", "push_size"} <=> pc[t] \in {"push_swing", "push_size"}
                           /\ pc'[t] \in {"pop_swap", "pop_size"} <=> pc[t] \in {"pop_swap", "pop_size"}
    BY <1>1 DEF Resting, DtorLabels
  <2> QED BY <1>2, <2>1, CountSame DEF Inv
<1> QED BY <1>4, <1>5, <1>6, <1>7, <1>8, <1>9, <1>10, <1>11 DEF Beside

-----------------------------------------------------------------------------
(* The tail, one node behind the last, moves on to it.                        *)

(* The node behind the tail, if there is one, is the last of the list.        *)
LEMMA TailNext ==
  ASSUME Hypotheses, Typed, NEW K, NEW R, QueueList(K, R), next_[tail_] # NULL
  PROVE  /\ next_[tail_] \in Nodes /\ K[next_[tail_]] = "list"
         /\ R[tail_] = 2 /\ R[next_[tail_]] = 1
         /\ next_[next_[tail_]] = NULL /\ next_[tail_] # head_
<1>1. tail_ \in Nodes /\ K[tail_] = "list" /\ R[tail_] \in {1, 2}
  BY EndsOf DEF QueueList
<1>2. /\ R[tail_] > 1 /\ next_[tail_] \in Nodes /\ K[next_[tail_]] = "list"
      /\ R[next_[tail_]] = R[tail_] - 1
  BY <1>1, EndsOf
<1>3. R[tail_] = 2 /\ R[next_[tail_]] = 1
  BY <1>1, <1>2
<1>4. next_[next_[tail_]] = NULL
  BY <1>2, <1>3, EndsOf
<1>5. R[head_] >= 2
  BY <1>1, <1>3, EndsOf
<1> QED BY <1>2, <1>3, <1>4, <1>5

(* A tail that moves to the node behind it stays within the list, and is no   *)
(* longer behind.                                                             *)
LEMMA TailMoved ==
  ASSUME Hypotheses, Typed, NEW K, NEW R, QueueList(K, R), next_[tail_] # NULL,
         tail_' = next_[tail_], head_' = head_, next_' = next_
  PROVE  QueueList(K, R)' /\ Behind' /\ tail_' # head_
<1>1. /\ next_[tail_] \in Nodes /\ K[next_[tail_]] = "list" /\ R[next_[tail_]] = 1
      /\ next_[next_[tail_]] = NULL /\ next_[tail_] # head_
  BY TailNext
<1>2. QueueList(K, R)'
  BY <1>1 DEF QueueList, At
<1> QED BY <1>1, <1>2 DEF Behind

(* While there is a consumer, the tail is behind only in the Push of the      *)
(* one producer.                                                             *)
LEMMA NotBehind ==
  ASSUME Hypotheses, Typed, Behind, use.consumers # {}, NEW t \in Threads, pc[t] \in Linking
  PROVE  next_[tail_] = NULL
<1> SUFFICES ASSUME next_[tail_] # NULL PROVE FALSE
  OBVIOUS
<1>1. PICK u \in Threads : pc[u] = "push_swing"
  BY DEF Behind
<1>2. u = t
  BY <1>1, OnePush DEF Linking, PushLabels
<1> QED BY <1>1, <1>2 DEF Linking

-----------------------------------------------------------------------------
(* Each step keeps the types and what goes with them.                         *)

(* The calls: the n-th Push is given the value n.                             *)
LEMMA PushCallTyped ==
  ASSUME Hypotheses, Typed, NEW t \in Threads, t \in use.producers, PushCall(t)
  PROVE  Typed'
<1>1. SanTypeOK'
  BY SanSame DEF PushCall, Typed, Types
<1>2. Types'
  BY <1>1, ValuesTyped DEF PushCall, Goto, Set, Typed, Types, ends, PushLabels
<1>3. Frames'
  BY DEF PushCall, Goto, Typed, Frames, sanVars
<1>4. Locals'
  BY ValuesTyped DEF PushCall, Goto, Set, Typed, Types, Locals, Unlinked, Linking,
      PopLabels
<1>5. Roles'
  BY DEF PushCall, Goto, Typed, Types, Roles, Hypotheses, MainApart, PopLabels,
      DtorLabels
<1>6. Phases'
  BY DEF PushCall, Goto, Typed, Phases, Freeing, sanVars
<1> QED BY <1>2, <1>3, <1>4, <1>5, <1>6 DEF Typed

(* A Pop starts without locals.                                               *)
LEMMA PopCallTyped ==
  ASSUME Hypotheses, Typed, NEW t \in Threads, t \in use.consumers, PopCall(t)
  PROVE  Typed'
<1>1. SanTypeOK'
  BY SanSame DEF PopCall, Typed, Types
<1>2. Types'
  BY <1>1 DEF PopCall, Goto, Typed, Types, program, ends, PopLabels
<1>3. Frames'
  BY DEF PopCall, Goto, Typed, Frames, sanVars
<1>4. Locals'
  BY DEF PopCall, Goto, Typed, Locals, Unlinked, Linking, PushLabels
<1>5. Roles'
  BY DEF PopCall, Goto, Typed, Types, Roles, Hypotheses, MainApart, program, PushLabels,
      DtorLabels
<1>6. Phases'
  BY DEF PopCall, Goto, Typed, Phases, Freeing, sanVars
<1> QED BY <1>2, <1>3, <1>4, <1>5, <1>6 DEF Typed

(* The steps of Push.  new: the node is at an address that was free.          *)
LEMMA PushNewTyped ==
  ASSUME Hypotheses, Typed, NEW t \in Threads, PushNew(t)
  PROVE  Typed'
<1>1. SanTypeOK'
  <2>1. next_' \in [Nodes -> Ptr] /\ allocated' \subseteq Nodes
    BY DEF PushNew, Typed, Types, SanTypeOK, Ptr
  <2> QED BY <2>1 DEF PushNew, Typed, Types, SanTypeOK, hazards
<1>2. Types'
  BY <1>1 DEF PushNew, Goto, Set, Typed, Types, Ptr, ends, program, PushLabels
<1>3. Frames'
  BY DEF PushNew, Goto, Typed, Frames
<1>4. Locals'
  BY NullAssumption DEF PushNew, Goto, Set, Typed, Types, Locals, Linking, PopLabels
<1>5. Roles'
  BY DEF PushNew, Goto, Typed, Roles, program, PushLabels, PopLabels, DtorLabels
<1>6. Phases'
  BY DEF PushNew, Goto, Typed, Phases, Freeing
<1> QED BY <1>2, <1>3, <1>4, <1>5, <1>6 DEF Typed

(* The load of the tail.                                                      *)
LEMMA PushLoadTyped ==
  ASSUME Hypotheses, Typed, NEW t \in Threads, PushLoad(t)
  PROVE  Typed'
<1>1. SanTypeOK'
  BY SanSame DEF PushLoad, Typed, Types
<1>2. Types'
  BY <1>1 DEF PushLoad, Goto, Set, Typed, Types, Ptr, ends, program, PushLabels
<1>3. Frames'
  BY DEF PushLoad, Goto, Typed, Frames, sanVars
<1>4. Locals'
  BY DEF PushLoad, Goto, Typed, Locals, Unlinked, Linking, PopLabels, PushLabels
<1>5. Roles'
  BY DEF PushLoad, Goto, Typed, Roles, program, PushLabels, PopLabels, DtorLabels
<1>6. Phases'
  BY DEF PushLoad, Goto, Typed, Phases, Freeing, sanVars
<1> QED BY <1>2, <1>3, <1>4, <1>5, <1>6 DEF Typed

(* The store to the hazard pointer of the thread.                             *)
LEMMA PushAccessTyped ==
  ASSUME Hypotheses, Typed, NEW t \in Threads, PushAccess(t)
  PROVE  Typed'
<1>1. SanTypeOK'
  BY StoreSan DEF PushAccess, Typed, Types
<1>2. Types'
  BY <1>1 DEF PushAccess, Goto, Typed, Types, program, ends, PushLabels
<1>3. Frames'
  BY DEF PushAccess, Goto, Typed, Frames
<1>4. Locals'
  BY DEF PushAccess, Goto, Typed, Locals, Unlinked, Linking, PopLabels, PushLabels
<1>5. Roles'
  BY DEF PushAccess, Goto, Typed, Roles, program, PushLabels, PopLabels, DtorLabels
<1>6. Phases'
  BY DEF PushAccess, Goto, Typed, Phases, Freeing
<1> QED BY <1>2, <1>3, <1>4, <1>5, <1>6 DEF Typed

(* The second load of the tail: ori_node_ptr is a node from here on.          *)
LEMMA PushRecheckTyped ==
  ASSUME Hypotheses, Typed, NEW t \in Threads, PushRecheck(t)
  PROVE  Typed'
<1>1. SanTypeOK'
  BY SanSame DEF PushRecheck, Typed, Types
<1>2. Types'
  <2>1. tail_ \in Ptr
    BY DEF Typed, Types, Ptr
  <2>2. CASE tail_ # pre[t]
    BY <1>1, <2>1, <2>2 DEF PushRecheck, Goto, Set, Typed, Types, ends, program, PushLabels
  <2>3. CASE tail_ = pre[t]
    BY <1>1, <2>1, <2>3 DEF PushRecheck, Goto, Set, Typed, Types, ends, program, PushLabels
  <2> QED BY <2>2, <2>3
<1>3. Frames'
  BY MainAssumption DEF PushRecheck, Goto, Typed, Types, Frames, sanVars
<1>4. Locals'
  BY NullAssumption DEF PushRecheck, Goto, Set, Typed, Types, Locals, Unlinked, Linking,
      PopLabels, PushLabels
<1>5. Roles'
  BY MainAssumption DEF PushRecheck, Goto, Typed, Types, Roles, program, PopLabels,
      DtorLabels
<1>6. Phases'
  BY MainAssumption DEF PushRecheck, Goto, Typed, Types, Phases, Freeing, sanVars
<1> QED BY <1>2, <1>3, <1>4, <1>5, <1>6 DEF Typed

(* The load of next_: push_help has a node to move the tail to.               *)
LEMMA PushNextTyped ==
  ASSUME Hypotheses, Typed, NEW t \in Threads, PushNext(t)
  PROVE  Typed'
<1>1. SanTypeOK'
  BY SanSame DEF PushNext, Typed, Types
<1>2. Types'
  BY <1>1 DEF PushNext, Goto, Set, Typed, Types, SanTypeOK, Ptr, ends, program, Locals,
      Linking, PushLabels
<1>3. Frames'
  BY DEF PushNext, Goto, Typed, Frames, sanVars
<1>4. Locals'
  BY DEF PushNext, Goto, Set, Typed, Types, Locals, Unlinked, Linking, PopLabels,
      PushLabels
<1>5. Roles'
  BY DEF PushNext, Goto, Typed, Roles, program, PushLabels, PopLabels, DtorLabels
<1>6. Phases'
  BY DEF PushNext, Goto, Typed, Phases, Freeing, sanVars
<1> QED BY <1>2, <1>3, <1>4, <1>5, <1>6 DEF Typed

(* The exchange that moves the tail on; ori_node_ptr and next go out of       *)
(* scope.                                                                     *)
LEMMA PushHelpTyped ==
  ASSUME Hypotheses, Typed, NEW t \in Threads, PushHelp(t)
  PROVE  Typed'
<1>1. SanTypeOK'
  BY SanSame DEF PushHelp, Typed, Types
<1>2. Types'
  BY <1>1 DEF PushHelp, PushAgain, Goto, Set, Typed, Types, Ptr, ends, program, Locals,
      PushLabels
<1>3. Frames'
  BY DEF PushHelp, PushAgain, Goto, Typed, Frames, sanVars
<1>4. Locals'
  BY DEF PushHelp, PushAgain, Goto, Set, Typed, Types, Locals, Unlinked, Linking,
      PopLabels, PushLabels
<1>5. Roles'
  BY DEF PushHelp, PushAgain, Goto, Typed, Roles, program, PushLabels, PopLabels,
      DtorLabels
<1>6. Phases'
  BY DEF PushHelp, PushAgain, Goto, Typed, Phases, Freeing, sanVars
<1> QED BY <1>2, <1>3, <1>4, <1>5, <1>6 DEF Typed

(* The exchange that links the node.                                          *)
LEMMA PushAppendTyped ==
  ASSUME Hypotheses, Typed, NEW t \in Threads, PushAppend(t)
  PROVE  Typed'
<1>1. SanTypeOK'
  <2>1. next_' \in [Nodes -> Ptr]
    BY DEF PushAppend, Typed, Types, SanTypeOK, Ptr, Locals, Linking
  <2> QED BY <2>1 DEF PushAppend, Typed, Types, SanTypeOK, hazards
<1>2. Types'
  <2>1. NULL \in Ptr
    BY DEF Ptr
  <2>2. CASE next_[ori[t]] = NULL
    BY <1>1, <2>1, <2>2 DEF PushAppend, Goto, Typed, Types, ends, program, PushLabels
  <2>3. CASE next_[ori[t]] # NULL
    BY <1>1, <2>1, <2>3 DEF PushAppend, PushAgain, Goto, Set, Typed, Types, ends, program,
         PushLabels
  <2> QED BY <2>2, <2>3
<1>3. Frames'
  BY MainAssumption DEF PushAppend, PushAgain, Goto, Typed, Types, Frames
<1>4. Locals'
  BY DEF PushAppend, PushAgain, Goto, Set, Typed, Types, Locals, Unlinked, Linking,
      PopLabels, PushLabels
<1>5. Roles'
  BY MainAssumption DEF PushAppend, PushAgain, Goto, Typed, Types, Roles, program,
      PopLabels, DtorLabels
<1>6. Phases'
  BY MainAssumption DEF PushAppend, PushAgain, Goto, Typed, Types, Phases, Freeing
<1> QED BY <1>2, <1>3, <1>4, <1>5, <1>6 DEF Typed

(* The exchange that moves the tail to the new node.                          *)
LEMMA PushSwingTyped ==
  ASSUME Hypotheses, Typed, NEW t \in Threads, PushSwing(t)
  PROVE  Typed'
<1>1. SanTypeOK'
  BY SanSame DEF PushSwing, Typed, Types
<1>2. Types'
  BY <1>1 DEF PushSwing, Goto, Typed, Types, Ptr, ends, program, Locals, PushLabels
<1>3. Frames'
  BY DEF PushSwing, Goto, Typed, Frames, sanVars
<1>4. Locals'
  BY DEF PushSwing, Goto, Typed, Locals, Unlinked, PopLabels
<1>5. Roles'
  BY DEF PushSwing, Goto, Typed, Roles, program, PushLabels, PopLabels, DtorLabels
<1>6. Phases'
  BY DEF PushSwing, Goto, Typed, Phases, Freeing, sanVars
<1> QED BY <1>2, <1>3, <1>4, <1>5, <1>6 DEF Typed

(* The fetch_add, which wraps at SizeMod.                                     *)
LEMMA PushSizeTyped ==
  ASSUME Hypotheses, Typed, NEW t \in Threads, PushSize(t)
  PROVE  Typed'
<1>1. SanTypeOK'
  BY SanSame DEF PushSize, Typed, Types
<1>2. Types'
  BY <1>1, SizeModAssumption DEF PushSize, Leave, Goto, Set, Typed, Types, Ptr, ends,
      program
<1>3. Frames'
  BY DEF PushSize, Leave, Goto, Typed, Frames, sanVars
<1>4. Locals'
  BY DEF PushSize, Leave, Goto, Set, Typed, Locals, Unlinked, Linking, PopLabels,
      PushLabels
<1>5. Roles'
  BY DEF PushSize, Leave, Goto, Typed, Roles, program, PushLabels, PopLabels, DtorLabels
<1>6. Phases'
  BY DEF PushSize, Leave, Goto, Typed, Phases, Freeing, sanVars
<1> QED BY <1>2, <1>3, <1>4, <1>5, <1>6 DEF Typed

(* The steps of Pop.  The load of the head, which is never null.              *)
LEMMA PopHeadTyped ==
  ASSUME Hypotheses, Typed, NEW t \in Threads, PopHead(t)
  PROVE  Typed'
<1>1. SanTypeOK'
  BY SanSame DEF PopHead, Typed, Types
<1>2. Types'
  BY <1>1 DEF PopHead, Goto, Set, Typed, Types, Ptr, ends, program, PopLabels
<1>3. Frames'
  BY DEF PopHead, Goto, Typed, Frames, sanVars
<1>4. Locals'
  BY NullAssumption DEF PopHead, Goto, Set, Typed, Types, Locals, Unlinked, Linking,
      PushLabels
<1>5. Roles'
  BY DEF PopHead, Goto, Typed, Roles, program, PushLabels, PopLabels, DtorLabels
<1>6. Phases'
  BY DEF PopHead, Goto, Typed, Phases, Freeing, sanVars
<1> QED BY <1>2, <1>3, <1>4, <1>5, <1>6 DEF Typed

(* The load of the tail.                                                      *)
LEMMA PopTailTyped ==
  ASSUME Hypotheses, Typed, NEW t \in Threads, PopTail(t)
  PROVE  Typed'
<1>1. SanTypeOK'
  BY SanSame DEF PopTail, Typed, Types
<1>2. Types'
  BY <1>1 DEF PopTail, Goto, Set, Typed, Types, Ptr, ends, program, PopLabels
<1>3. Frames'
  BY DEF PopTail, Goto, Typed, Frames, sanVars
<1>4. Locals'
  BY DEF PopTail, Goto, Set, Typed, Locals, Unlinked, Linking, PopLabels, PushLabels
<1>5. Roles'
  BY DEF PopTail, Goto, Typed, Roles, program, PushLabels, PopLabels, DtorLabels
<1>6. Phases'
  BY DEF PopTail, Goto, Typed, Phases, Freeing, sanVars
<1> QED BY <1>2, <1>3, <1>4, <1>5, <1>6 DEF Typed

(* The load of next_: the early return, or a node to go on with where the     *)
(* tail is to be moved.                                                       *)
LEMMA PopNextTyped ==
  ASSUME Hypotheses, Typed, NEW t \in Threads, PopNext(t)
  PROVE  Typed'
<1>1. SanTypeOK'
  BY SanSame DEF PopNext, Typed, Types
<1>2. Types'
  <2>1. next_[h[t]] \in Ptr /\ NULL \in Ptr
    BY DEF PopNext, Typed, Types, SanTypeOK, Locals, Ptr, PopLabels
  <2>2. CASE h[t] = tl[t] /\ next_[h[t]] = NULL
    <3>1. Caller(t, TRUE) \in {"idle", "dtor_head"}
      BY DEF Caller
    <3>2. Leave(t, Caller(t, TRUE)) /\ UNCHANGED <<ends, size_, data>>
      BY <2>2 DEF PopNext
    <3> QED BY <1>1, <2>1, <3>1, <3>2 DEF Leave, Goto, Set, Typed, Types, ends, program, DtorLabels
  <2>3. CASE ~(h[t] = tl[t] /\ next_[h[t]] = NULL)
    <3>1. /\ nxt' = Set(nxt, t, next_[h[t]])
          /\ Goto(t, IF h[t] = tl[t] THEN "pop_help" ELSE "pop_access_head")
          /\ UNCHANGED <<ends, size_, data, val, pre, ori, new, h, tl, program>>
      BY <2>3 DEF PopNext
    <3> QED BY <1>1, <2>1, <3>1 DEF Goto, Set, Typed, Types, ends, program, PopLabels
  <2> QED BY <2>2, <2>3
<1>3. Frames'
  BY MainAssumption DEF PopNext, Leave, Caller, Goto, Typed, Types, Frames, sanVars
<1>4. Locals'
  BY DEF PopNext, Leave, Caller, Goto, Set, Typed, Types, Locals, Unlinked, Linking,
      PopLabels, PushLabels
<1>5. Roles'
  BY MainAssumption DEF PopNext, Leave, Caller, Goto, Typed, Types, Roles, program,
      PushLabels, DtorLabels
<1>6. Phases'
  BY MainAssumption DEF PopNext, Leave, Caller, Goto, Typed, Types, Phases, Freeing,
      sanVars
<1> QED BY <1>2, <1>3, <1>4, <1>5, <1>6 DEF Typed

(* The exchange that moves the tail on; all locals go out of scope.           *)
LEMMA PopHelpTyped ==
  ASSUME Hypotheses, Typed, NEW t \in Threads, PopHelp(t)
  PROVE  Typed'
<1>1. SanTypeOK'
  BY SanSame DEF PopHelp, Typed, Types
<1>2. Types'
  BY <1>1 DEF PopHelp, PopAgain, Goto, Set, Typed, Types, Ptr, ends, program, Locals,
      PopLabels
<1>3. Frames'
  BY DEF PopHelp, PopAgain, Goto, Typed, Frames, sanVars
<1>4. Locals'
  BY DEF PopHelp, PopAgain, Goto, Set, Typed, Types, Locals, Unlinked, Linking,
      PushLabels
<1>5. Roles'
  BY DEF PopHelp, PopAgain, Goto, Typed, Roles, program, PushLabels, PopLabels,
      DtorLabels
<1>6. Phases'
  BY DEF PopHelp, PopAgain, Goto, Typed, Phases, Freeing, sanVars
<1> QED BY <1>2, <1>3, <1>4, <1>5, <1>6 DEF Typed

(* The store of the head to a hazard pointer.                                 *)
LEMMA PopAccessHeadTyped ==
  ASSUME Hypotheses, Typed, NEW t \in Threads, PopAccessHead(t)
  PROVE  Typed'
<1>1. SanTypeOK'
  BY StoreSan DEF PopAccessHead, Typed, Types
<1>2. Types'
  BY <1>1 DEF PopAccessHead, Goto, Typed, Types, program, ends, PopLabels
<1>3. Frames'
  BY DEF PopAccessHead, Goto, Typed, Frames
<1>4. Locals'
  BY DEF PopAccessHead, Goto, Typed, Locals, Unlinked, Linking, PopLabels, PushLabels
<1>5. Roles'
  BY DEF PopAccessHead, Goto, Typed, Roles, program, PushLabels, PopLabels, DtorLabels
<1>6. Phases'
  BY DEF PopAccessHead, Goto, Typed, Phases, Freeing
<1> QED BY <1>2, <1>3, <1>4, <1>5, <1>6 DEF Typed

(* And that of the node behind it.                                            *)
LEMMA PopAccessNextTyped ==
  ASSUME Hypotheses, Typed, NEW t \in Threads, PopAccessNext(t)
  PROVE  Typed'
<1>1. SanTypeOK'
  BY StoreSan DEF PopAccessNext, Typed, Types
<1>2. Types'
  BY <1>1 DEF PopAccessNext, Goto, Typed, Types, program, ends, PopLabels
<1>3. Frames'
  BY DEF PopAccessNext, Goto, Typed, Frames
<1>4. Locals'
  BY DEF PopAccessNext, Goto, Typed, Locals, Unlinked, Linking, PopLabels, PushLabels
<1>5. Roles'
  BY DEF PopAccessNext, Goto, Typed, Roles, program, PushLabels, PopLabels, DtorLabels
<1>6. Phases'
  BY DEF PopAccessNext, Goto, Typed, Phases, Freeing
<1> QED BY <1>2, <1>3, <1>4, <1>5, <1>6 DEF Typed

(* The exchange of the head, for the node behind it, which is not null        *)
(* (FoundNext).                                                               *)
LEMMA PopCasTyped ==
  ASSUME Hypotheses, Typed, NEW t \in Threads, nxt[t] # NULL, PopCas(t)
  PROVE  Typed'
<1>1. SanTypeOK'
  BY SanSame DEF PopCas, Typed, Types
<1>2. Types'
  <2>1. nxt[t] \in Nodes /\ NULL \in Ptr
    BY DEF Typed, Types, Ptr
  <2>2. CASE head_ = h[t]
    BY <1>1, <2>1, <2>2 DEF PopCas, Goto, Typed, Types, ends, program, PopLabels
  <2>3. CASE head_ # h[t]
    BY <1>1, <2>1, <2>3 DEF PopCas, PopAgain, Goto, Set, Typed, Types, ends, program, PopLabels
  <2> QED BY <2>2, <2>3
<1>3. Frames'
  BY MainAssumption DEF PopCas, PopAgain, Goto, Typed, Types, Frames, sanVars
<1>4. Locals'
  BY DEF PopCas, PopAgain, Goto, Set, Typed, Types, Locals, Unlinked, Linking,
      PopLabels, PushLabels
<1>5. Roles'
  BY MainAssumption DEF PopCas, PopAgain, Goto, Typed, Types, Roles, program,
      PushLabels, DtorLabels
<1>6. Phases'
  BY MainAssumption DEF PopCas, PopAgain, Goto, Typed, Types, Phases, Freeing, sanVars
<1> QED BY <1>2, <1>3, <1>4, <1>5, <1>6 DEF Typed

(* The value goes from the node to ret.                                       *)
LEMMA PopSwapTyped ==
  ASSUME Hypotheses, Typed, NEW t \in Threads, nxt[t] # NULL, PopSwap(t)
  PROVE  Typed'
<1>1. SanTypeOK'
  BY SanSame DEF PopSwap, Typed, Types
<1>2. Types'
  BY <1>1 DEF PopSwap, Goto, Set, Typed, Types, Ptr, ends, program, PopLabels
<1>3. Frames'
  BY DEF PopSwap, Goto, Typed, Frames, sanVars
<1>4. Locals'
  BY DEF PopSwap, Goto, Set, Typed, Locals, Unlinked, Linking, PopLabels, PushLabels
<1>5. Roles'
  BY DEF PopSwap, Goto, Typed, Roles, program, PushLabels, PopLabels, DtorLabels
<1>6. Phases'
  BY DEF PopSwap, Goto, Typed, Phases, Freeing, sanVars
<1> QED BY <1>2, <1>3, <1>4, <1>5, <1>6 DEF Typed

(* The fetch_sub, which wraps at SizeMod.                                     *)
LEMMA PopSizeTyped ==
  ASSUME Hypotheses, Typed, NEW t \in Threads, PopSize(t)
  PROVE  Typed'
<1>1. SanTypeOK'
  BY SanSame DEF PopSize, Typed, Types
<1>2. Types'
  BY <1>1, SizeModAssumption DEF PopSize, Goto, Typed, Types, program, ends, PopLabels
<1>3. Frames'
  BY DEF PopSize, Goto, Typed, Frames, sanVars
<1>4. Locals'
  BY DEF PopSize, Goto, Typed, Locals, Unlinked, Linking, PopLabels, PushLabels
<1>5. Roles'
  BY DEF PopSize, Goto, Typed, Roles, program, PushLabels, PopLabels, DtorLabels
<1>6. Phases'
  BY DEF PopSize, Goto, Typed, Phases, Freeing, sanVars
<1> QED BY <1>2, <1>3, <1>4, <1>5, <1>6 DEF Typed

(* The first store of reset.                                                  *)
LEMMA PopResetTyped ==
  ASSUME Hypotheses, Typed, NEW t \in Threads, PopReset(t)
  PROVE  Typed'
<1>1. SanTypeOK'
  BY ResetSan DEF PopReset, Typed, Types, SanTypeOK
<1>2. Types'
  BY <1>1 DEF PopReset, Goto, Typed, Types, program, ends, PopLabels
<1>3. Frames'
  BY DEF PopReset, Goto, Typed, Frames
<1>4. Locals'
  BY DEF PopReset, Goto, Typed, Locals, Unlinked, Linking, PopLabels, PushLabels
<1>5. Roles'
  BY DEF PopReset, Goto, Typed, Roles, program, PushLabels, PopLabels, DtorLabels
<1>6. Phases'
  BY DEF PopReset, Goto, Typed, Phases, Freeing
<1> QED BY <1>2, <1>3, <1>4, <1>5, <1>6 DEF Typed

(* The last store of reset, and the deletion of the old head begins.          *)
LEMMA PopReleaseTyped ==
  ASSUME Hypotheses, Typed, NEW t \in Threads, PopRelease(t)
  PROVE  Typed'
<1>1. SanTypeOK'
  <2>1. [NoDel EXCEPT !.pc = "scan", !.node = h[t]] \in Frame
    BY NoDelTyped DEF Typed, Types, Frame
  <2>2. del' \in [Agents -> Frame]
    BY <2>1, FrameTyped DEF PopRelease, StartRelease, Agents, Typed, Types
  <2> QED BY <2>2, ResetSan DEF PopRelease, Typed, Types, SanTypeOK
<1>2. Types'
  BY <1>1 DEF PopRelease, Goto, Typed, Types, program, ends, PopLabels
<1>3. Frames'
  BY DEF PopRelease, StartRelease, NoDel, Goto, Typed, Types, Frames, Locals, PopLabels
<1>4. Locals'
  BY DEF PopRelease, Goto, Typed, Locals, Unlinked, Linking, PopLabels, PushLabels
<1>5. Roles'
  BY DEF PopRelease, Goto, Typed, Roles, program, PushLabels, PopLabels, DtorLabels
<1>6. Phases'
  BY BackAssumption DEF PopRelease, StartRelease, Goto, Typed, Phases, Freeing
<1> QED BY <1>2, <1>3, <1>4, <1>5, <1>6 DEF Typed

(* The end of Pop: no deletion is left.                                       *)
LEMMA PopReturnTyped ==
  ASSUME Hypotheses, Typed, NEW t \in Threads, PopReturn(t)
  PROVE  Typed'
<1>1. SanTypeOK'
  BY SanSame DEF PopReturn, Typed, Types
<1>2. Types'
  BY <1>1 DEF PopReturn, Caller, Leave, Goto, Set, Typed, Types, Ptr, program, ends,
      DtorLabels
<1>3. Frames'
  BY DEF PopReturn, Releasing, Leave, Goto, Typed, Frames, sanVars
<1>4. Locals'
  BY DEF PopReturn, Caller, Leave, Goto, Set, Typed, Types, Locals, Unlinked, Linking,
      PopLabels, PushLabels
<1>5. Roles'
  BY DEF PopReturn, Caller, Leave, Goto, Typed, Roles, program, PushLabels, PopLabels,
      DtorLabels
<1>6. Phases'
  BY DEF PopReturn, Caller, Leave, Goto, Typed, Phases, Freeing, sanVars
<1> QED BY <1>2, <1>3, <1>4, <1>5, <1>6 DEF Typed

(* The background thread begins a turn with nothing in hand.                  *)
LEMMA BackWakeTyped ==
  ASSUME Hypotheses, Typed, BackWake, UNCHANGED <<ends, size_, data, locals>>
  PROVE  Typed'
<1>1. SanTypeOK'
  <2>1. [NoDel EXCEPT !.pc = "exchange"] \in Frame
    BY NoDelTyped DEF Frame
  <2>2. del' \in [Agents -> Frame]
    BY <2>1, FrameTyped DEF BackWake, Typed, Types, Agents
  <2> QED BY <2>2 DEF BackWake, Typed, Types, SanTypeOK, hazards
<1>2. Types'
  BY <1>1 DEF BackWake, locals, ends, Typed, Types, program
<1>3. Frames'
  BY BackAssumption DEF BackWake, NoDel, locals, ends, Typed, Frames
<1>4. Locals'
  BY DEF BackWake, locals, ends, Typed, Locals
<1>5. Roles'
  BY DEF BackWake, locals, ends, Typed, Roles, program
<1>6. Phases'
  BY DEF BackWake, locals, ends, Typed, Phases, Freeing
<1> QED BY <1>2, <1>3, <1>4, <1>5, <1>6 DEF Typed

(* The destructor begins when nobody is in a call.                            *)
LEMMA DestroyTyped ==
  ASSUME Hypotheses, Typed, Destroy
  PROVE  Typed'
<1>1. SanTypeOK'
  BY SanSame DEF Destroy, Typed, Types
<1>2. Types'
  BY <1>1 DEF Destroy, Goto, Typed, Types, program, ends, DtorLabels
<1>3. Frames'
  BY DEF Destroy, Goto, Typed, Types, Frames, sanVars
<1>4. Locals'
  BY DEF Destroy, Goto, Typed, Locals, Unlinked, Linking, PopLabels, PushLabels
<1>5. Roles'
  BY DEF Destroy, Goto, Typed, Roles, PushLabels, PopLabels
<1>6. Phases'
  BY DEF Destroy, Goto, Typed, Types, Phases, Freeing, sanVars
<1> QED BY <1>2, <1>3, <1>4, <1>5, <1>6 DEF Typed

(* The loop of the destructor: its own thread pops.                           *)
LEMMA DtorLoopTyped ==
  ASSUME Hypotheses, Typed, DtorLoop
  PROVE  Typed'
<1>1. SanTypeOK'
  BY SanSame DEF DtorLoop, Typed, Types
<1>2. Types'
  BY <1>1 DEF DtorLoop, DtorStep, Goto, Typed, Types, program, ends, PopLabels
<1>3. Frames'
  BY DEF DtorLoop, DtorStep, Goto, Typed, Frames, sanVars
<1>4. Locals'
  BY DEF DtorLoop, DtorStep, Goto, Typed, Locals, Unlinked, Linking, PushLabels
<1>5. Roles'
  BY DEF DtorLoop, DtorStep, Goto, Typed, Roles, PushLabels, PopLabels
<1>6. Phases'
  BY DEF DtorLoop, DtorStep, Goto, Typed, Phases, Freeing, sanVars
<1> QED BY <1>2, <1>3, <1>4, <1>5, <1>6 DEF Typed

(* The dummy is deleted.                                                      *)
LEMMA DtorHeadTyped ==
  ASSUME Hypotheses, Typed, DtorHead
  PROVE  Typed'
<1>1. SanTypeOK'
  BY DEF DtorHead, Typed, Types, SanTypeOK, hazards
<1>2. Types'
  BY <1>1 DEF DtorHead, DtorStep, Goto, Typed, Types, program, ends, DtorLabels
<1>3. Frames'
  BY DEF DtorHead, DtorStep, Goto, Typed, Frames
<1>4. Locals'
  BY DEF DtorHead, DtorStep, Goto, Typed, Locals, Unlinked, Linking, PopLabels,
      PushLabels
<1>5. Roles'
  BY DEF DtorHead, DtorStep, Goto, Typed, Roles, PushLabels, PopLabels
<1>6. Phases'
  BY DEF DtorHead, DtorStep, Goto, Typed, Phases, Freeing
<1> QED BY <1>2, <1>3, <1>4, <1>5, <1>6 DEF Typed

(* The destructor of the sanitizer stops the background thread, if there is   *)
(* one.                                                                       *)
LEMMA DtorStopTyped ==
  ASSUME Hypotheses, Typed, DtorStop
  PROVE  Typed'
<1>1. SanTypeOK'
  BY DEF DtorStop, StopBack, Typed, Types, SanTypeOK, hazards, sanVars
<1>2. Types'
  BY <1>1 DEF DtorStop, DtorStep, Goto, Typed, Types, program, ends, DtorLabels
<1>3. Frames'
  BY DEF DtorStop, DtorStep, StopBack, Goto, Typed, Types, Frames, sanVars
<1>4. Locals'
  BY DEF DtorStop, DtorStep, Goto, Typed, Types, Locals, Unlinked, Linking, PopLabels,
      PushLabels
<1>5. Roles'
  BY DEF DtorStop, DtorStep, Goto, Typed, Types, Roles, PushLabels, PopLabels
<1>6. Phases'
  BY MainAssumption DEF DtorStop, DtorStep, StopBack, Goto, Typed, Types, Phases,
      Freeing, sanVars
<1> QED BY <1>2, <1>3, <1>4, <1>5, <1>6 DEF Typed

(* And waits for it: it has ended before the delayed list is taken.           *)
LEMMA DtorJoinTyped ==
  ASSUME Hypotheses, Typed, DtorJoin
  PROVE  Typed'
<1>1. SanTypeOK'
  BY SanSame DEF DtorJoin, JoinBack, Typed, Types
<1>2. Types'
  BY <1>1 DEF DtorJoin, DtorStep, Goto, Typed, Types, program, ends, DtorLabels
<1>3. Frames'
  BY DEF DtorJoin, DtorStep, JoinBack, Goto, Typed, Frames, sanVars
<1>4. Locals'
  BY DEF DtorJoin, DtorStep, Goto, Typed, Locals, Unlinked, Linking, PopLabels,
      PushLabels
<1>5. Roles'
  BY DEF DtorJoin, DtorStep, Goto, Typed, Roles, PushLabels, PopLabels
<1>6. Phases'
  BY DEF DtorJoin, DtorStep, JoinBack, Goto, Typed, Phases, Freeing, sanVars
<1> QED BY <1>2, <1>3, <1>4, <1>5, <1>6 DEF Typed

(* The delayed list becomes the rest of the destructor.                       *)
LEMMA DtorTakeTyped ==
  ASSUME Hypotheses, Typed, DtorTake
  PROVE  Typed'
<1>1. SanTypeOK'
  <2>0. del[Main] \in Frame /\ backward_deleting_list_ \in Ptr
    BY MainAssumption DEF Typed, Types, SanTypeOK, Agents
  <2>1. [del[Main] EXCEPT !.rest = backward_deleting_list_] \in Frame
    BY <2>0 DEF Frame
  <2>2. del' = [del EXCEPT ![Main] = [del[Main] EXCEPT !.rest = backward_deleting_list_]]
    BY MainAssumption DEF DtorTake, DtorExchange, Typed, Types, SanTypeOK, Agents
  <2>3. del' \in [Agents -> Frame]
    BY <2>1, <2>2, MainAssumption, FrameTyped DEF Typed, Types, Agents
  <2> QED BY <2>3 DEF DtorTake, DtorExchange, Typed, Types, SanTypeOK, hazards, Ptr
<1>2. Types'
  BY <1>1 DEF DtorTake, DtorStep, Goto, Typed, Types, program, ends, DtorLabels
<1>3. Frames'
  BY MainAssumption DEF DtorTake, DtorStep, DtorExchange, Goto, Typed, Types, Frames
<1>4. Locals'
  BY DEF DtorTake, DtorStep, Goto, Typed, Locals, Unlinked, Linking, PopLabels,
      PushLabels
<1>5. Roles'
  BY DEF DtorTake, DtorStep, Goto, Typed, Roles, PushLabels, PopLabels
<1>6. Phases'
  BY DEF DtorTake, DtorStep, DtorExchange, Goto, Typed, Phases
<1> QED BY <1>2, <1>3, <1>4, <1>5, <1>6 DEF Typed

(* It deletes the first of the rest.                                          *)
LEMMA DtorDeleteTyped ==
  ASSUME Hypotheses, Typed, DtorDelete
  PROVE  Typed'
<1>1. SanTypeOK'
  <2>0. Main \in Agents /\ del[Main] \in Frame
    BY MainAssumption DEF Typed, Types, SanTypeOK, Agents
  <2>1. del[Main].rest \in Nodes
    BY <2>0 DEF DtorDelete, DtorFree, Frame, Ptr
  <2>2. [del[Main] EXCEPT !.rest = next_[del[Main].rest]] \in Frame
    BY <2>0, <2>1 DEF Typed, Types, SanTypeOK, Frame
  <2>3. del' = [del EXCEPT ![Main] = [del[Main] EXCEPT !.rest = next_[del[Main].rest]]]
    BY <2>0 DEF DtorDelete, DtorFree, Typed, Types, SanTypeOK
  <2>4. del' \in [Agents -> Frame]
    BY <2>0, <2>2, <2>3, FrameTyped DEF Typed, Types
  <2> QED BY <2>4 DEF DtorDelete, DtorFree, Typed, Types, SanTypeOK, hazards
<1>2. Types'
  BY <1>1 DEF DtorDelete, DtorStep, Goto, Typed, Types, program, ends
<1>3. Frames'
  BY MainAssumption DEF DtorDelete, DtorStep, DtorFree, Goto, Typed, Frames
<1>4. Locals'
  BY DEF DtorDelete, DtorStep, Goto, Typed, Locals
<1>5. Roles'
  BY DEF DtorDelete, DtorStep, Goto, Typed, Roles, PushLabels, PopLabels
<1>6. Phases'
  BY DEF DtorDelete, DtorStep, DtorFree, Goto, Typed, Phases
<1> QED BY <1>2, <1>3, <1>4, <1>5, <1>6 DEF Typed

(* At the end the rest is empty.                                              *)
LEMMA DtorEndTyped ==
  ASSUME Hypotheses, Typed, DtorEnd
  PROVE  Typed'
<1>1. SanTypeOK'
  BY SanSame DEF DtorEnd, Typed, Types
<1>2. Types'
  BY <1>1 DEF DtorEnd, DtorStep, Goto, Typed, Types, program, ends, DtorLabels
<1>3. Frames'
  BY DEF DtorEnd, DtorStep, Goto, Typed, Frames, sanVars
<1>4. Locals'
  BY DEF DtorEnd, DtorStep, Goto, Typed, Locals, Unlinked, Linking, PopLabels,
      PushLabels
<1>5. Roles'
  BY DEF DtorEnd, DtorStep, Goto, Typed, Roles, PushLabels, PopLabels
<1>6. Phases'
  BY DEF DtorEnd, DtorStep, Goto, Typed, Phases, Freeing, sanVars
<1> QED BY <1>2, <1>3, <1>4, <1>5, <1>6 DEF Typed

(* The steps of a deletion, for a thread at the end of its Pop or for the     *)
(* background thread.                                                         *)
LEMMA DeleteTyped ==
  ASSUME Hypotheses, Typed, NEW a \in Agents, DeleteStep(a), UNCHANGED <<ends, size_, data,
         locals>>,
         a = Back \/ pc[a] = "pop_return"
  PROVE  Typed'
<1>1. SanTypeOK'
  BY DeleteSan DEF Typed, Types
<1>2. Types'
  BY <1>1 DEF Typed, Types, locals, program, ends
<1>3. Frames'
  <2>1. CASE ScanMiss(a)
    BY <2>1 DEF ScanMiss, locals, Typed, Frames
  <2>2. CASE ScanHit(a)
    BY <2>2 DEF ScanHit, locals, Typed, Frames
  <2>3. CASE ImmediateDelete(a)
    BY <2>3 DEF ImmediateDelete, AfterDelete, NoDel, locals, Typed, Frames
  <2>4. CASE DelayLoad(a)
    BY <2>4 DEF DelayLoad, locals, Typed, Frames
  <2>5. CASE DelayLink(a)
    BY <2>5 DEF DelayLink, locals, Typed, Frames
  <2>6. CASE DelayCas(a)
    <3>1. del[a].pc = "cas" /\ del \in [Agents -> Frame] /\ pc' = pc
      BY <2>6 DEF DelayCas, Typed, Types, SanTypeOK, locals
    <3>2. CASE backward_deleting_list_ = del[a].ori
      <4>1. del' = [del EXCEPT ![a] = AfterDelete(a)]
        BY <2>6, <3>2 DEF DelayCas
      <4> QED BY <3>1, <4>1, BackAssumption DEF AfterDelete, NoDel, Typed, Frames, Agents
    <3>3. CASE backward_deleting_list_ # del[a].ori
      <4>1. del' = [del EXCEPT ![a] = [del[a] EXCEPT !.pc = "load", !.ori = NULL]]
        BY <2>6, <3>1, <3>3 DEF DelayCas
      <4>2. /\ del'[a].pc = "load" /\ del'[a].node = del[a].node
            /\ del'[a].rest = del[a].rest /\ del'[a].loop = del[a].loop
        BY <3>1, <4>1 DEF Frame
      <4> QED BY <3>1, <4>1, <4>2, BackAssumption DEF Typed, Frames, Agents
    <3> QED BY <3>2, <3>3
  <2>7. CASE BackExchange(a)
    BY <2>7 DEF BackExchange, NoDel, locals, Typed, Frames
  <2>8. CASE BackNext(a)
    BY <2>8 DEF BackNext, locals, Typed, Frames
  <2> QED BY <2>1, <2>2, <2>3, <2>4, <2>5, <2>6, <2>7, <2>8 DEF DeleteStep
<1>4. Locals'
  BY DEF Typed, Locals, locals
<1>5. Roles'
  BY DEF Typed, Roles, locals, program
<1>6. Phases'
  <2>1. CASE ScanMiss(a)
    BY <2>1 DEF ScanMiss, locals, Typed, Phases
  <2>2. CASE ScanHit(a)
    BY <2>2 DEF ScanHit, locals, Typed, Phases
  <2>3. CASE ImmediateDelete(a)
    BY <2>3 DEF ImmediateDelete, locals, Typed, Phases, Freeing
  <2>4. CASE DelayLoad(a)
    BY <2>4 DEF DelayLoad, locals, Typed, Phases
  <2>5. CASE DelayLink(a)
    BY <2>5 DEF DelayLink, locals, Typed, Phases
  <2>6. CASE DelayCas(a)
    BY <2>6 DEF DelayCas, locals, Typed, Types, Phases, Roles, Freeing,
        SanTypeOK, Agents
  <2>7. CASE BackExchange(a)
    BY <2>7 DEF BackExchange, locals, Typed, Phases, Freeing
  <2>8. CASE BackNext(a)
    BY <2>8 DEF BackNext, locals, Typed, Phases, Freeing
  <2> QED BY <2>1, <2>2, <2>3, <2>4, <2>5, <2>6, <2>7, <2>8 DEF DeleteStep
<1> QED BY <1>2, <1>3, <1>4, <1>5, <1>6 DEF Typed

(* The types and these facts hold in every state.                            *)
LEMMA TypedInit == ASSUME Hypotheses, Init PROVE Typed
<1>0. FirstDummy \in Nodes
  BY DEF FirstDummy, Hypotheses, FiniteSystem
<1>1. SanTypeOK
  <2>1. hps \in [SlotIds -> [0 .. Sz - 1 -> Ptr]] /\ pos \in [SlotIds -> 0 .. Sz - 1]
    BY DEF Init, Ptr, Sz
  <2> QED BY <2>1, NoDelTyped, UsesAssumption, <1>0 DEF Init, SanTypeOK, Ptr
<1>2. 0 \in 0 .. SizeMod - 1 /\ use.pushes \in Nat
  BY SizeModAssumption, UsesAssumption DEF Init
<1>3. Types
  BY <1>0, <1>1, <1>2 DEF Init, Types, Ptr
<1>4. \A t \in Threads : pc[t] = "idle"
  BY DEF Init
<1>5. \A a \in Agents : del[a] = NoDel
  BY DEF Init
<1>6. Frames
  BY <1>4, <1>5 DEF Frames, NoDel, Agents
<1>7. Locals /\ Roles
  BY <1>4, MainAssumption DEF Locals, Roles, Unlinked, Linking, PushLabels, PopLabels, DtorLabels
<1>8. Phases
  BY <1>4, <1>5, MainAssumption DEF Phases, NoDel, Agents, Freeing
<1> QED BY <1>3, <1>6, <1>7, <1>8 DEF Typed

(* Nothing changes when no variable does.                                     *)
LEMMA StutterTyped == ASSUME Typed, UNCHANGED vars PROVE Typed'
<1>1. SanTypeOK'
  BY SanSame DEF Typed, Types, vars
<1> QED BY <1>1 DEF Typed, Types, Frames, Locals, Roles, Phases, vars, ends, sanVars, locals, program

(* A thread that is in a deletion is at the end of its Pop.                   *)
LEMMA DeletingThread ==
  ASSUME Typed, NEW t \in Threads, DeleteStep(t)
  PROVE  pc[t] = "pop_return"
  BY DEF DeleteStep, ScanMiss, ScanHit, ImmediateDelete, DelayLoad, DelayLink, DelayCas,
         BackExchange, BackNext, Typed, Frames

-----------------------------------------------------------------------------
(* The steps of Push and Pop that move a node.                                *)

(* Nothing is deleted of the queue itself while anyone pushes or pops.         *)
LEMMA NotGone ==
  ASSUME Hypotheses, Typed, NEW t \in Threads, pc[t] \in PushLabels \cup PopLabels,
         pc'[t] \in {"idle"} \cup PushLabels \cup PopLabels,
         \A u \in Threads : u # t => pc'[u] = pc[u]
  PROVE  pc[Main] \notin Gone /\ pc'[Main] \notin Gone /\ Deleted = {} /\ Deleted' = {}
<1>1. pc[Main] \notin Gone
  <2>1. t # Main => pc[Main] = "idle"
    BY DEF Typed, Roles, PushLabels, PopLabels
  <2> QED BY <2>1 DEF Gone, Freeing, PushLabels, PopLabels
<1>2. pc'[Main] \notin Gone
  BY <1>1, MainAssumption DEF Gone, Freeing, PushLabels, PopLabels
<1> QED BY <1>1, <1>2 DEF Deleted

(* new: a free node becomes the new node of the Push.  It was nobody's, so no *)
(* list, Pop or deletion is affected by the writes to it.                     *)
LEMMA PushNewInv ==
  ASSUME Hypotheses, Typed, NEW K, NEW O, NEW R, Inv(K, O, R), NEW t \in Threads, PushNew(t)
  PROVE  \E J, P, Q : Inv(J, P, Q)'
<1>1. PICK n \in Nodes : /\ n \notin allocated /\ allocated' = allocated \cup {n}
                         /\ next_' = [next_ EXCEPT ![n] = NULL]
                         /\ data' = [data EXCEPT ![n] = val[t]]
                         /\ new' = [new EXCEPT ![t] = n]
  BY DEF PushNew, Set
<1>2. /\ pc[t] = "push_new" /\ pc'[t] = "push_load" /\ new'[t] = n
      /\ \A u \in Threads : u # t => pc'[u] = pc[u] /\ new'[u] = new[u]
      /\ next_'[n] = NULL /\ data'[n] = val[t]
      /\ \A m \in Nodes : m # n => next_'[m] = next_[m] /\ data'[m] = data[m]
      /\ UNCHANGED <<del, head_, tail_, size_, backward_deleting_list_, ori, h, tl, nxt, val, use>>
  BY <1>1 DEF PushNew, Goto, Typed, Types, SanTypeOK, ends, program
<1>3. Deleted = {} /\ Deleted' = {} /\ pc'[Main] \notin Gone /\ pc'[Main] # "dtor_head"
  <2>1. pc[t] \in PushLabels \cup PopLabels /\ pc'[t] \in {"idle"} \cup PushLabels \cup PopLabels
    BY <1>2 DEF PushLabels
  <2>2. t # Main /\ pc[Main] = "idle"
    BY <1>2, PushIsNotMain DEF PushLabels
  <2> QED BY <1>2, <2>1, <2>2, NotGone, MainAssumption
<1>4. /\ K \in [Nodes -> Kinds] /\ O \in [Nodes -> Agents] /\ R \in [Nodes -> Nat]
      /\ K[n] = "free" /\ t \in Agents
  BY <1>1, <1>3 DEF Inv, Book, Agents
<1>5. PICK J \in [Nodes -> Kinds] : J[n] = "new" /\ \A m \in Nodes : m # n => J[m] = K[m]
  <2>1. "new" \in Kinds
    BY DEF Kinds
  <2>2. K \in [Nodes -> Kinds]
    BY <1>4
  <2> QED BY <2>1, <2>2, MoveOne
<1>6. PICK P \in [Nodes -> Agents] : P[n] = t /\ \A m \in Nodes : m # n => P[m] = O[m]
  BY <1>4, OwnOne
<1>7. Elsewhere(K, O, R, J, P, R, n)
  BY <1>2, <1>5, <1>6 DEF Elsewhere
<1>8. /\ head_ \in Nodes /\ tail_ \in Nodes /\ K[head_] = "list" /\ K[tail_] = "list"
      /\ head_ # n /\ tail_ # n
  BY <1>4, EndsOf DEF Inv
<1>9. Book(J, P, R)'
  BY <1>1, <1>3, <1>4, <1>5, <1>6 DEF Inv, Book
<1>10. QueueList(J, R)' /\ DelayedList(J, R)' /\ RestLists(J, P, R)'
  BY <1>2, <1>4, <1>5, <1>7, QueueElsewhere, DelayedElsewhere, RestsElsewhere DEF Inv
<1>11. InHands(J, P)'
  <2>1. \A a \in Agents : del[a].pc = "cas" => del[a].node \in Nodes /\ del[a].node # n
    BY <1>4, HandOf DEF Inv, Typed, Frames
  <2> QED BY <1>2, <1>4, <1>5, <1>6, <2>1 DEF Inv, InHands
<1>12. Fresh(J, P)'
  <2>1. "push_new" \notin Unlinked /\ "push_load" \in Unlinked
    BY DEF Unlinked, PushLabels
  <2> QED BY <1>2, <1>4, <1>5, <1>6, <2>1 DEF Inv, Fresh
<1>13. Popped(J, P)'
  BY <1>2, <1>4, <1>5, <1>6 DEF Inv, Popped, Limbo
<1>14. Behind'
  BY <1>2, <1>8 DEF Inv, Behind
<1>15. Producing(J, R)'
  <2> SUFFICES ASSUME NEW u \in Threads, u # t, pc[u] \in Linking \cup {"push_swing"}
               PROVE  /\ pc[u] \in Linking =>
                           /\ J[ori[u]] = "list" /\ R[tail_] <= R[ori[u]]
                           /\ use.consumers # {} => ori[u] = tail_ /\ pc[u] # "push_help"
                      /\ pc[u] = "push_help" => nxt[u] = next_'[ori[u]]
                      /\ pc[u] = "push_swing" =>
                           /\ use.consumers = {} => J[ori[u]] = "list"
                           /\ J[ori[u]] = "list" => next_'[ori[u]] = new'[u]
    BY <1>2 DEF Producing, Linking
  <2>1. ori[u] \in Nodes
    BY DEF Typed, Types, Locals, Ptr
  <2> QED BY <1>2, <1>4, <1>5, <2>1 DEF Inv, Producing, Linking
<1>16. Popping'
  BY <1>2, <1>8 DEF Inv, Popping, Found
<1>17. Filled(J)'
  <2>1. val[t] # NoValue
    BY <1>2 DEF Typed, Locals
  <2>2. \A u \in Threads : pc[u] = "pop_swap" => nxt[u] = head_
    BY DEF Inv, Popping
  <2> QED BY <1>2, <1>5, <1>8, <2>1, <2>2 DEF Inv, Filled
<1>18. Emptied'
  BY <1>3 DEF Emptied
<1>19. Counted(J)'
  <2>1. At(J, "list") = At(K, "list")
    BY <1>4, <1>5, AtMoved
  <2> QED BY <1>2, <2>1, CountSame DEF Inv
<1> QED BY <1>9, <1>10, <1>11, <1>12, <1>13, <1>14, <1>15, <1>16, <1>17, <1>18, <1>19 DEF Inv

(* A Push that links its node does so behind the last node, which is the tail. *)
LEMMA LinksAtTail ==
  ASSUME Hypotheses, Typed, NEW K, NEW O, NEW R, Inv(K, O, R),
         NEW t \in Threads, pc[t] = "push_append", next_[ori[t]] = NULL
  PROVE  ori[t] = tail_ /\ tail_ \in Nodes /\ K[tail_] = "list" /\ R[tail_] = 1
<1>1. ori[t] \in Nodes /\ K[ori[t]] = "list" /\ R[tail_] <= R[ori[t]]
  BY PushHolds DEF Linking, Inv, Producing
<1>2. R[ori[t]] = 1
  BY <1>1, EndsOf DEF Inv
<1>3. tail_ \in Nodes /\ K[tail_] = "list" /\ R[tail_] \in Nat /\ R[tail_] >= 1
  BY EndsOf DEF Inv
<1>4. R[tail_] = R[ori[t]]
  BY <1>1, <1>2, <1>3
<1> QED BY <1>1, <1>2, <1>3, <1>4, EndsOf DEF Inv

(* The ranks when a node is linked behind the last one: each is one more, and *)
(* the new one is 1.                                                          *)
LEMMA RankMore ==
  ASSUME NEW R \in [Nodes -> Nat], NEW S \in SUBSET Nodes, NEW n \in Nodes
  PROVE  \E Q \in [Nodes -> Nat] : /\ Q[n] = 1
                                   /\ \A m \in Nodes : m # n /\ m \in S => Q[m] = R[m] + 1
                                   /\ \A m \in Nodes : m # n /\ m \notin S => Q[m] = R[m]
<1>1. PICK Q : Q = [m \in Nodes |-> IF m = n THEN 1 ELSE IF m \in S THEN R[m] + 1 ELSE R[m]]
  OBVIOUS
<1>2. Q \in [Nodes -> Nat]
  BY <1>1
<1> QED BY <1>1, <1>2

(* The exchange of Push finds a null next_, so the node it is at is the last  *)
(* one of the list and the tail, and the new node becomes the last.  The tail *)
(* is behind from now on.                                                     *)
LEMMA PushAppendOkInv ==
  ASSUME Hypotheses, Typed, NEW K, NEW O, NEW R, Inv(K, O, R), NEW t \in Threads,
         PushAppend(t), next_[ori[t]] = NULL
  PROVE  \E J, P, Q : Inv(J, P, Q)'
<1>1. PICK l \in Nodes : /\ l = ori[t] /\ l = tail_ /\ K[l] = "list" /\ R[l] = 1 /\ next_[l] = NULL
  BY LinksAtTail DEF PushAppend
<1>2. PICK n \in Nodes : n = new[t] /\ K[n] = "new" /\ next_[n] = NULL /\ n # NULL
  <2>1. pc[t] \in Unlinked
    BY DEF PushAppend, Unlinked, PushLabels
  <2> QED BY <2>1, PushHolds, NullAssumption DEF Inv
<1>3. /\ pc[t] = "push_append" /\ pc'[t] = "push_swing"
      /\ \A u \in Threads : u # t => pc'[u] = pc[u]
      /\ next_'[l] = n /\ \A m \in Nodes : m # l => next_'[m] = next_[m]
      /\ UNCHANGED <<allocated, del, head_, tail_, size_, data, backward_deleting_list_,
                     ori, new, h, tl, nxt, val, use>>
  BY <1>1, <1>2 DEF PushAppend, Goto, Typed, Types, SanTypeOK, ends, program
<1>4. /\ Deleted = {} /\ Deleted' = {} /\ pc'[Main] \notin Gone /\ pc'[Main] # "dtor_head"
  <2>1. pc[t] \in PushLabels \cup PopLabels /\ pc'[t] \in {"idle"} \cup PushLabels \cup PopLabels
    BY <1>3 DEF PushLabels
  <2>2. t # Main /\ pc[Main] = "idle"
    BY <1>3, PushIsNotMain DEF PushLabels
  <2> QED BY <1>3, <2>1, <2>2, NotGone, MainAssumption
<1>5. /\ K \in [Nodes -> Kinds] /\ O \in [Nodes -> Agents] /\ R \in [Nodes -> Nat]
      /\ IsFiniteSet(Nodes) /\ n # l
  BY <1>1, <1>2 DEF Inv, Book, Hypotheses, FiniteSystem
<1>6. PICK J \in [Nodes -> Kinds] : J[n] = "list" /\ \A m \in Nodes : m # n => J[m] = K[m]
  <2>1. "list" \in Kinds
    BY DEF Kinds
  <2>2. K \in [Nodes -> Kinds] /\ n \in Nodes
    BY <1>2, <1>5
  <2>3. [K EXCEPT ![n] = "list"] \in [Nodes -> Kinds]
    BY <2>1, <2>2
  <2> WITNESS [K EXCEPT ![n] = "list"] \in [Nodes -> Kinds]
  <2> QED BY <2>2
<1>7. PICK S \in SUBSET Nodes : S = At(K, "list")
  BY DEF At
<1>8. /\ At(J, "list") = S \cup {n} /\ n \notin S /\ l \in S
      /\ \A m \in Nodes : m \in S <=> K[m] = "list"
  BY <1>1, <1>2, <1>6, <1>7 DEF At
<1>9. PICK Q \in [Nodes -> Nat] :
        /\ Q[n] = 1
        /\ \A m \in Nodes : m # n /\ m \in S => Q[m] = R[m] + 1
        /\ \A m \in Nodes : m # n /\ m \notin S => Q[m] = R[m]
  <2>1. R \in [Nodes -> Nat]
    BY <1>5
  <2> QED BY <2>1, RankMore
<1>10. /\ head_ \in Nodes /\ K[head_] = "list" /\ head_ # n /\ head_ # NULL
  BY <1>2, EndsOf DEF Inv
<1>11. Book(J, O, Q)'
  BY <1>2, <1>3, <1>4, <1>5, <1>6, <1>9 DEF Inv, Book
<1>12. QueueList(J, Q)'
  <2>1. IsList(S, R, next_, head_)
    BY <1>7 DEF Inv, QueueList
  <2>2. \A m \in S : m \in Nodes /\ m # n
    BY <1>7, <1>8 DEF At
  <2>3. Shifted(S, R, next_, Q, next_', l)
    BY <1>3, <1>9, <2>2 DEF Shifted
  <2>4. next_'[n] = NULL
    BY <1>2, <1>3, <1>5
  <2>5. IsList(S \cup {n}, Q, next_', head_)
    BY <1>1, <1>2, <1>3, <1>5, <1>8, <1>9, <1>10, <2>1, <2>3, <2>4, ListAppend
  <2>6. At(J, "list")' = At(J, "list")
    BY DEF At
  <2>7. J[tail_] = "list" /\ Q[tail_] = 2
    <3>1. Q[l] = R[l] + 1
      BY <1>8, <2>3 DEF Shifted
    <3> QED BY <1>1, <1>5, <1>6, <3>1
  <2>8. IsList(At(J, "list")', Q, next_', head_)
    BY <1>8, <2>5, <2>6
  <2> QED BY <1>3, <2>7, <2>8 DEF QueueList
<1>13. \A m \in Nodes : K[m] # "new" /\ K[m] # "list" => J[m] = K[m] /\ Q[m] = R[m] /\ next_'[m] = next_[m]
  BY <1>1, <1>2, <1>3, <1>6, <1>8, <1>9
<1>14. DelayedList(J, Q)'
  <2>1. At(J, "delayed") = At(K, "delayed")
    BY <1>2, <1>6 DEF At
  <2>2. \A m \in At(K, "delayed") : Q[m] = R[m] /\ next_'[m] = next_[m]
    BY <1>13 DEF At
  <2> QED BY <1>3, <2>1, <2>2, KeepDelayed DEF Inv
<1>15. RestLists(J, O, Q)'
  <2>1. \A a \in Agents : RestOf(J, O, a) = RestOf(K, O, a)
    BY <1>2, <1>6 DEF RestOf
  <2>2. \A a \in Agents : \A m \in RestOf(K, O, a) : Q[m] = R[m] /\ next_'[m] = next_[m]
    BY <1>13 DEF RestOf
  <2> QED BY <1>3, <2>1, <2>2, KeepRests DEF Inv
<1>16. InHands(J, O)'
  <2>1. \A a \in Agents : del[a].pc = "cas" => del[a].node \in Nodes /\ del[a].node # l
    BY <1>1, HandOf DEF Inv, Typed, Frames
  <2> QED BY <1>2, <1>3, <1>6, <2>1 DEF Inv, InHands
<1>17. Fresh(J, O)'
  <2>1. "push_swing" \notin Unlinked /\ "push_append" \in Unlinked
    BY DEF Unlinked, PushLabels
  <2> QED BY <1>1, <1>2, <1>3, <1>6, <2>1 DEF Inv, Fresh
<1>18. Popped(J, O)'
  BY <1>2, <1>3, <1>6 DEF Inv, Popped, Limbo
<1>19. Behind'
  BY <1>1, <1>3 DEF Behind
<1>20. Producing(J, Q)'
  <2>1. ASSUME NEW u \in Threads, u # t, pc[u] \in Linking
        PROVE  /\ J[ori[u]] = "list" /\ Q[tail_] <= Q[ori[u]] /\ use.consumers = {}
               /\ pc[u] = "push_help" => nxt[u] = next_'[ori[u]]
    <3>1. ori[u] \in Nodes /\ K[ori[u]] = "list" /\ R[tail_] <= R[ori[u]]
      BY <2>1, PushHolds DEF Inv, Producing
    <3>2. use.consumers = {}
      BY <1>3, <2>1, OnePush DEF Linking, PushLabels
    <3>3. J[ori[u]] = "list" /\ Q[tail_] = R[tail_] + 1 /\ Q[ori[u]] = R[ori[u]] + 1
      BY <1>1, <1>2, <1>6, <1>8, <1>9, <3>1
    <3>4. R[tail_] \in Nat /\ R[ori[u]] \in Nat
      BY <1>1, <1>5, <3>1
    <3>5. pc[u] = "push_help" => ori[u] # l /\ nxt[u] = next_[ori[u]]
      BY <1>1, <2>1 DEF Inv, Producing, Typed, Locals
    <3> QED BY <1>3, <3>1, <3>2, <3>3, <3>4, <3>5
  <2>2. ASSUME NEW u \in Threads, u # t, pc[u] = "push_swing"
        PROVE  J[ori[u]] = "list" /\ next_'[ori[u]] = new[u]
    <3>1. use.consumers = {} /\ ori[u] \in Nodes /\ new[u] # NULL
      BY <1>3, <2>2, OnePush, PushHolds DEF PushLabels, Inv, Typed, Locals
    <3>2. K[ori[u]] = "list" /\ next_[ori[u]] = new[u]
      BY <2>2, <3>1 DEF Inv, Producing
    <3> QED BY <1>1, <1>2, <1>3, <1>6, <3>1, <3>2
  <2>3. J[ori[t]] = "list" /\ next_'[ori[t]] = new[t]
    BY <1>1, <1>2, <1>3, <1>5, <1>6
  <2> QED BY <1>3, <2>1, <2>2, <2>3 DEF Producing, Linking
<1>21. Popping'
  <2>1. head_ = l => \A u \in Threads : pc[u] \notin {"pop_help"} \cup Found
    BY <1>1 DEF Inv, Popping, Typed, Locals
  <2>2. head_ # l => next_'[head_] = next_[head_]
    BY <1>3, <1>10
  <2> QED BY <1>3, <2>1, <2>2 DEF Inv, Popping, Found
<1>22. Filled(J)'
  BY <1>2, <1>3, <1>6 DEF Inv, Filled
<1>23. Emptied'
  BY <1>4 DEF Emptied
<1>24. Counted(J)'
  <2>1. t \in Threads \ Adding /\ Adding' = Adding \cup {t} /\ Taking' = Taking
    BY <1>3 DEF Adding, Taking
  <2> QED BY <1>3, <1>7, <1>8, <2>1, CountPush DEF Inv
<1> QED BY <1>11, <1>12, <1>14, <1>15, <1>16, <1>17, <1>18, <1>19, <1>20, <1>21, <1>22, <1>23, <1>24 DEF Inv

(* The exchange of Pop: no other thread pops, so it finds the head that was   *)
(* loaded and makes the node behind it the dummy.  The old dummy goes from    *)
(* the list to limbo.  It was not the tail, and no Push that runs beside is   *)
(* at it.                                                                     *)
LEMMA PopCasInv ==
  ASSUME Hypotheses, Typed, NEW K, NEW O, NEW R, Inv(K, O, R), NEW t \in Threads, PopCas(t)
  PROVE  \E J, P, Q : Inv(J, P, Q)'
<1>1. /\ pc[t] = "pop_cas" /\ h[t] = head_ /\ tail_ # head_ /\ nxt[t] = next_[head_]
      /\ pc[t] \in PopLabels
  BY DEF PopCas, Inv, Popping, Found, PopLabels
<1>2. /\ pc'[t] = "pop_swap" /\ \A u \in Threads : u # t => pc'[u] = pc[u]
      /\ head_' = next_[head_]
      /\ UNCHANGED <<allocated, next_, del, tail_, size_, data, backward_deleting_list_,
                     ori, new, h, tl, nxt, val, use>>
  BY <1>1 DEF PopCas, Goto, sanVars, program, Typed, Types
<1>3. PICK n \in Nodes : /\ n = head_ /\ n # NULL /\ K[n] = "list"
                         /\ next_[n] \in Nodes /\ K[next_[n]] = "list" /\ next_[n] # n
  <2>1. head_ \in Nodes /\ tail_ \in Nodes /\ head_ # NULL /\ K[head_] = "list" /\ K[tail_] = "list"
    BY EndsOf DEF Inv
  <2>2. R[head_] # 1
    <3>1. R[tail_] \in Nat /\ R[tail_] >= 1 /\ R[tail_] <= R[head_] /\ R[head_] \in Nat
      BY <2>1, EndsOf DEF Inv
    <3>2. R[tail_] # R[head_]
      BY <1>1, <2>1, EndsOf DEF Inv
    <3> QED BY <3>1, <3>2
  <2> QED BY <2>1, <2>2, EndsOf DEF Inv
<1>4. /\ Deleted = {} /\ Deleted' = {} /\ pc'[Main] \notin Gone /\ pc'[Main] # "dtor_head"
  <2>1. pc'[t] \in {"idle"} \cup PushLabels \cup PopLabels
    BY <1>2 DEF PopLabels
  <2>2. t # Main => pc[Main] = "idle"
    BY <1>1 DEF Typed, Roles
  <2> QED BY <1>1, <1>2, <2>1, <2>2, NotGone, MainAssumption
<1>5. /\ K \in [Nodes -> Kinds] /\ O \in [Nodes -> Agents] /\ R \in [Nodes -> Nat]
      /\ t \in Agents /\ IsFiniteSet(Nodes)
  BY DEF Inv, Book, Hypotheses, FiniteSystem, Agents
<1>6. PICK J \in [Nodes -> Kinds] : J[n] = "limbo" /\ \A m \in Nodes : m # n => J[m] = K[m]
  <2>1. "limbo" \in Kinds
    BY DEF Kinds
  <2>2. K \in [Nodes -> Kinds]
    BY <1>5
  <2> QED BY <2>1, <2>2, MoveOne
<1>7. PICK P \in [Nodes -> Agents] : P[n] = t /\ \A m \in Nodes : m # n => P[m] = O[m]
  BY <1>5, OwnOne
<1>8. At(J, "list") = At(K, "list") \ {n} /\ n \in At(K, "list")
  BY <1>3, <1>6 DEF At
<1>9. Elsewhere(K, O, R, J, P, R, n)
  BY <1>2, <1>6, <1>7 DEF Elsewhere
<1>10. Book(J, P, R)'
  BY <1>2, <1>3, <1>4, <1>5, <1>6, <1>7 DEF Inv, Book
<1>11. QueueList(J, R)'
  <2>1. IsList(At(K, "list") \ {n}, R, next_, next_[n])
    BY <1>3, <1>5, ListPop DEF Inv, QueueList
  <2>2. At(J, "list")' = At(J, "list")
    BY DEF At
  <2>3. J[tail_] = "list" /\ R[tail_] \in {1, 2}
    BY <1>1, <1>3, <1>6, EndsOf DEF Inv, QueueList
  <2> QED BY <1>2, <1>3, <1>8, <2>1, <2>2, <2>3 DEF QueueList
<1>12. DelayedList(J, R)' /\ RestLists(J, P, R)'
  BY <1>2, <1>3, <1>6, <1>9, DelayedElsewhere, RestsElsewhere DEF Inv
<1>13. InHands(J, P)'
  BY <1>2, <1>3, <1>6, <1>7 DEF Inv, InHands
<1>14. Fresh(J, P)'
  BY <1>1, <1>2, <1>3, <1>6, <1>7 DEF Inv, Fresh, Unlinked, PushLabels
<1>15. Popped(J, P)'
  <2>1. \A m \in Nodes, u \in Threads :
          m # n /\ u # t => (J[m] = "limbo" /\ P[m] = u <=> pc'[u] \in Limbo /\ h'[u] = m)
    BY <1>2, <1>6, <1>7 DEF Inv, Popped
  <2>2. \A m \in Nodes : m # n => (J[m] = "limbo" /\ P[m] = t <=> pc'[t] \in Limbo /\ h'[t] = m)
    BY <1>1, <1>2, <1>3, <1>6, <1>7 DEF Inv, Popped, Limbo
  <2>3. \A u \in Threads : J[n] = "limbo" /\ P[n] = u <=> pc'[u] \in Limbo /\ h'[u] = n
    BY <1>1, <1>2, <1>3, <1>6, <1>7 DEF Inv, Popped, Limbo
  <2>4. \A m \in Nodes : J[m] = "limbo" => P[m] \in Threads
    BY <1>6, <1>7 DEF Inv, Popped
  <2> QED BY <2>1, <2>2, <2>3, <2>4 DEF Popped
<1>16. Behind'
  BY <1>1, <1>2 DEF Inv, Behind
<1>17. Producing(J, R)'
  <2> SUFFICES ASSUME NEW u \in Threads, u # t, pc[u] \in Linking \cup {"push_swing"}
               PROVE  /\ pc[u] \in Linking =>
                           /\ J[ori[u]] = "list" /\ R[tail_] <= R[ori[u]]
                           /\ ori[u] = tail_ /\ pc[u] # "push_help"
                      /\ pc[u] = "push_help" => nxt[u] = next_[ori[u]]
                      /\ use.consumers # {}
                      /\ pc[u] = "push_swing" /\ J[ori[u]] = "list" => next_[ori[u]] = new[u]
    BY <1>2 DEF Producing, Linking
  <2>1. ori[u] \in Nodes
    BY DEF Typed, Types, Locals, Ptr
  <2>2. use.consumers # {}
    BY <1>1, PopBesidePush DEF Linking, PushLabels
  <2> QED BY <1>1, <1>3, <1>6, <2>1, <2>2 DEF Inv, Producing, Linking
<1>18. Popping'
  <2>1. \A u \in Threads : pc[u] \in PopLabels => u = t
    BY <1>1, OnePop
  <2> QED BY <1>1, <1>2, <2>1 DEF Popping, Found, PopLabels
<1>19. Filled(J)'
  <2>1. data[nxt[t]] # NoValue
    BY <1>1, <1>3 DEF Inv, Filled
  <2> QED BY <1>2, <1>3, <1>6, <2>1 DEF Inv, Filled
<1>20. Emptied'
  BY <1>4 DEF Emptied
<1>21. Counted(J)'
  <2>1. t \in Threads \ Taking /\ Taking' = Taking \cup {t} /\ Adding' = Adding
    BY <1>1, <1>2 DEF Adding, Taking
  <2> QED BY <1>2, <1>8, <2>1, CountPop DEF Inv
<1> QED BY <1>10, <1>11, <1>12, <1>13, <1>14, <1>15, <1>16, <1>17, <1>18, <1>19, <1>20, <1>21 DEF Inv

-----------------------------------------------------------------------------
(* The steps of Push and Pop that move no node.                               *)

(* The load of the tail moves no node.                                        *)
LEMMA PushLoadInv ==
  ASSUME Hypotheses, Typed, NEW K, NEW O, NEW R, Inv(K, O, R), NEW t \in Threads, PushLoad(t)
  PROVE  Inv(K, O, R)'
<1>1. Nodewise(K, O, R)'
  BY NodesSame DEF PushLoad, Goto, Inv, Typed, Nodewise, Deleted, Gone, Freeing,
      sanVars, ends
<1>2. QueueList(K, R)'
  BY ListsSame DEF PushLoad, Goto, Inv, Typed, sanVars, ends
<1>3. Fresh(K, O)'
  BY DEF PushLoad, Goto, Inv, Typed, Fresh, Unlinked, PushLabels, sanVars
<1>4. Popped(K, O)'
  BY DEF PushLoad, Goto, Inv, Typed, Popped, Limbo
<1>5. Behind'
  BY DEF PushLoad, Goto, Inv, Typed, Behind, sanVars, ends
<1>6. Producing(K, R)'
  BY DEF PushLoad, Goto, Inv, Typed, Producing, Linking, program, sanVars, ends
<1>7. Popping'
  BY DEF PushLoad, Goto, Inv, Typed, Popping, Found, sanVars, ends
<1>8. Filled(K)'
  BY DEF PushLoad, Goto, Inv, Typed, Filled, ends
<1>9. Emptied'
  BY DEF PushLoad, Goto, Inv, Typed, Emptied, Gone, Freeing, sanVars, ends
<1>10. Counted(K)'
  BY CountSame DEF PushLoad, Goto, Inv, Typed
<1> QED BY <1>1, <1>2, <1>3, <1>4, <1>5, <1>6, <1>7, <1>8, <1>9, <1>10 DEF Inv, Nodewise

(* Nor does the store to the hazard pointer: the invariant asks nothing of    *)
(* the cells.                                                                 *)
LEMMA PushAccessInv ==
  ASSUME Hypotheses, Typed, NEW K, NEW O, NEW R, Inv(K, O, R), NEW t \in Threads, PushAccess(t)
  PROVE  Inv(K, O, R)'
<1>1. Nodewise(K, O, R)'
  BY NodesSame DEF PushAccess, Goto, Inv, Typed, Nodewise, Deleted, Gone, Freeing, ends
<1>2. QueueList(K, R)'
  BY ListsSame DEF PushAccess, Goto, Inv, Typed, ends
<1>3. Fresh(K, O)'
  BY DEF PushAccess, Goto, Inv, Typed, Fresh, Unlinked, PushLabels
<1>4. Popped(K, O)'
  BY DEF PushAccess, Goto, Inv, Typed, Popped, Limbo
<1>5. Behind'
  BY DEF PushAccess, Goto, Inv, Typed, Behind, ends
<1>6. Producing(K, R)'
  BY DEF PushAccess, Goto, Inv, Typed, Producing, Linking, program, ends
<1>7. Popping'
  BY DEF PushAccess, Goto, Inv, Typed, Popping, Found, ends
<1>8. Filled(K)'
  BY DEF PushAccess, Goto, Inv, Typed, Filled, ends
<1>9. Emptied'
  BY DEF PushAccess, Goto, Inv, Typed, Emptied, Gone, Freeing, ends
<1>10. Counted(K)'
  BY CountSame DEF PushAccess, Goto, Inv, Typed
<1> QED BY <1>1, <1>2, <1>3, <1>4, <1>5, <1>6, <1>7, <1>8, <1>9, <1>10 DEF Inv, Nodewise

(* The tail has moved since the load: the loop starts again.                  *)
LEMMA PushRecheckAgainInv ==
  ASSUME Hypotheses, Typed, NEW K, NEW O, NEW R, Inv(K, O, R), NEW t \in Threads,
         PushRecheck(t), tail_ # pre[t]
  PROVE  Inv(K, O, R)'
<1>1. Nodewise(K, O, R)'
  BY NodesSame, MainAssumption DEF PushRecheck, Goto, Inv, Typed, Types, Nodewise,
      Deleted, Gone, Freeing, sanVars, ends
<1>2. QueueList(K, R)'
  BY ListsSame DEF PushRecheck, Goto, Inv, Typed, sanVars, ends
<1>3. Fresh(K, O)'
  BY DEF PushRecheck, Goto, Inv, Typed, Types, Fresh, Unlinked, PushLabels, sanVars
<1>4. Popped(K, O)'
  BY DEF PushRecheck, Goto, Inv, Typed, Types, Popped, Limbo
<1>5. Behind'
  BY DEF PushRecheck, Goto, Inv, Typed, Types, Behind, sanVars, ends
<1>6. Producing(K, R)'
  BY DEF PushRecheck, Goto, Inv, Typed, Types, Producing, Linking, program, sanVars,
      ends
<1>7. Popping'
  BY DEF PushRecheck, Goto, Inv, Typed, Types, Popping, Found, sanVars, ends
<1>8. Filled(K)'
  BY DEF PushRecheck, Goto, Inv, Typed, Types, Filled, ends
<1>9. Emptied'
  BY MainAssumption DEF PushRecheck, Goto, Inv, Typed, Types, Emptied, Gone, Freeing,
      sanVars, ends
<1>10. Counted(K)'
  BY CountSame DEF PushRecheck, Goto, Inv, Typed, Types
<1> QED BY <1>1, <1>2, <1>3, <1>4, <1>5, <1>6, <1>7, <1>8, <1>9, <1>10 DEF Inv, Nodewise

(* The tail has not moved: the node it names is in the list, and Producing    *)
(* holds of it.                                                               *)
LEMMA PushRecheckFoundInv ==
  ASSUME Hypotheses, Typed, NEW K, NEW O, NEW R, Inv(K, O, R), NEW t \in Threads,
         PushRecheck(t), tail_ = pre[t]
  PROVE  Inv(K, O, R)'
<1>1. Nodewise(K, O, R)'
  BY NodesSame, MainAssumption DEF PushRecheck, Goto, Inv, Typed, Types, Nodewise,
      Deleted, Gone, Freeing, sanVars, ends
<1>2. QueueList(K, R)'
  BY ListsSame DEF PushRecheck, Goto, Inv, Typed, sanVars, ends
<1>3. Fresh(K, O)'
  BY DEF PushRecheck, Goto, Inv, Typed, Types, Fresh, Unlinked, PushLabels, sanVars
<1>4. Popped(K, O)'
  BY DEF PushRecheck, Goto, Inv, Typed, Types, Popped, Limbo
<1>5. Behind'
  BY DEF PushRecheck, Goto, Set, Inv, Typed, Types, Behind, sanVars, ends
<1>6. Producing(K, R)'
  BY EndsOf DEF PushRecheck, Goto, Set, Inv, Typed, Types, Producing, program, sanVars,
      ends
<1>7. Popping'
  BY DEF PushRecheck, Goto, Inv, Typed, Types, Popping, Found, sanVars, ends
<1>8. Filled(K)'
  BY DEF PushRecheck, Goto, Inv, Typed, Types, Filled, ends
<1>9. Emptied'
  BY MainAssumption DEF PushRecheck, Goto, Inv, Typed, Types, Emptied, Gone, Freeing,
      sanVars, ends
<1>10. Counted(K)'
  BY CountSame DEF PushRecheck, Goto, Inv, Typed, Types
<1> QED BY <1>1, <1>2, <1>3, <1>4, <1>5, <1>6, <1>7, <1>8, <1>9, <1>10 DEF Inv, Nodewise

(* Something is behind the tail: with a consumer there is no other producer   *)
(* that could have linked it, so there is none.                               *)
LEMMA PushNextBehindInv ==
  ASSUME Hypotheses, Typed, NEW K, NEW O, NEW R, Inv(K, O, R), NEW t \in Threads, PushNext(t),
         next_[ori[t]] # NULL
  PROVE  Inv(K, O, R)'
<1>1. Nodewise(K, O, R)'
  BY NodesSame DEF PushNext, Goto, Inv, Typed, Nodewise, Deleted, Gone, Freeing,
      sanVars, ends
<1>2. QueueList(K, R)'
  BY ListsSame DEF PushNext, Goto, Inv, Typed, sanVars, ends
<1>3. Fresh(K, O)'
  BY DEF PushNext, Goto, Inv, Typed, Fresh, Unlinked, PushLabels, sanVars
<1>4. Popped(K, O)'
  BY DEF PushNext, Goto, Inv, Typed, Popped, Limbo
<1>5. Behind'
  BY DEF PushNext, Goto, Inv, Typed, Behind, sanVars, ends
<1>6. Producing(K, R)'
  <2>1. pc[t] = "push_next" /\ pc[t] \in Linking
    BY DEF PushNext, Linking
  <2>2. use.consumers = {}
    BY <2>1, NotBehind DEF Inv, Producing
  <2> QED BY <2>2 DEF PushNext, Goto, Set, Inv, Typed, Types, Producing, Linking, program, sanVars, ends
<1>7. Popping'
  BY DEF PushNext, Goto, Set, Inv, Typed, Popping, Found, sanVars, ends
<1>8. Filled(K)'
  BY DEF PushNext, Goto, Set, Inv, Typed, Filled, ends
<1>9. Emptied'
  BY DEF PushNext, Goto, Inv, Typed, Emptied, Gone, Freeing, sanVars, ends
<1>10. Counted(K)'
  BY CountSame DEF PushNext, Goto, Inv, Typed
<1> QED BY <1>1, <1>2, <1>3, <1>4, <1>5, <1>6, <1>7, <1>8, <1>9, <1>10 DEF Inv, Nodewise

(* Nothing is behind it.                                                      *)
LEMMA PushNextLastInv ==
  ASSUME Hypotheses, Typed, NEW K, NEW O, NEW R, Inv(K, O, R), NEW t \in Threads, PushNext(t),
         next_[ori[t]] = NULL
  PROVE  Inv(K, O, R)'
<1>1. Nodewise(K, O, R)'
  BY NodesSame DEF PushNext, Goto, Inv, Typed, Nodewise, Deleted, Gone, Freeing,
      sanVars, ends
<1>2. QueueList(K, R)'
  BY ListsSame DEF PushNext, Goto, Inv, Typed, sanVars, ends
<1>3. Fresh(K, O)'
  BY DEF PushNext, Goto, Inv, Typed, Fresh, Unlinked, PushLabels, sanVars
<1>4. Popped(K, O)'
  BY DEF PushNext, Goto, Inv, Typed, Popped, Limbo
<1>5. Behind'
  BY DEF PushNext, Goto, Inv, Typed, Behind, sanVars, ends
<1>6. Producing(K, R)'
  BY DEF PushNext, Goto, Set, Inv, Typed, Producing, Linking, program, sanVars, ends
<1>7. Popping'
  BY DEF PushNext, Goto, Set, Inv, Typed, Popping, Found, sanVars, ends
<1>8. Filled(K)'
  BY DEF PushNext, Goto, Set, Inv, Typed, Filled, ends
<1>9. Emptied'
  BY DEF PushNext, Goto, Inv, Typed, Emptied, Gone, Freeing, sanVars, ends
<1>10. Counted(K)'
  BY CountSame DEF PushNext, Goto, Inv, Typed
<1> QED BY <1>1, <1>2, <1>3, <1>4, <1>5, <1>6, <1>7, <1>8, <1>9, <1>10 DEF Inv, Nodewise

(* The tail is moved to the node behind it, or another thread has moved it    *)
(* already.                                                                   *)
LEMMA PushHelpInv ==
  ASSUME Hypotheses, Typed, NEW K, NEW O, NEW R, Inv(K, O, R), NEW t \in Threads, PushHelp(t)
  PROVE  Inv(K, O, R)'
<1>1. Nodewise(K, O, R)'
  BY NodesSame DEF PushHelp, PushAgain, Goto, Inv, Typed, Nodewise, Deleted, Gone,
      Freeing, sanVars, ends
<1>2. QueueList(K, R)' /\ Behind' /\ Producing(K, R)' /\ Popping'
  <2>1. pc[t] = "push_help" /\ pc[t] \in Linking /\ pc[t] \in PushLabels /\ nxt[t] # NULL
    BY DEF PushHelp, Linking, PushLabels, Typed, Locals
  <2>2. use.consumers = {} /\ nxt[t] = next_[ori[t]]
    BY <2>1 DEF Inv, Producing
  <2>3. \A u \in Threads : pc[u] \notin PopLabels
    BY <2>1, <2>2, PopBesidePush
  <2>4. head_' = head_ /\ next_' = next_ /\ use' = use /\ h' = h
    BY DEF PushHelp, PushAgain, sanVars, program
  <2>5. CASE tail_ = ori[t]
    <3>1. tail_' = next_[tail_] /\ next_[tail_] # NULL
      BY <2>1, <2>2, <2>5 DEF PushHelp
    <3>2. R[tail_'] <= R[tail_] /\ R[tail_'] \in Nat /\ R[tail_] \in Nat
      BY <3>1, TailNext DEF Inv
    <3>3. QueueList(K, R)' /\ Behind'
      BY <2>4, <3>1, TailMoved DEF Inv
    <3>4. Producing(K, R)'
      <4> SUFFICES ASSUME NEW u \in Threads, u # t, pc[u] \in Linking PROVE R[tail_'] <= R[ori[u]]
        BY <2>2, <2>4 DEF PushHelp, PushAgain, Goto, Set, Inv, Typed, Types, Producing, Linking
      <4>1. ori[u] \in Nodes /\ K[ori[u]] = "list" /\ R[tail_] <= R[ori[u]]
        BY PushHolds DEF Inv, Producing
      <4>2. R[ori[u]] \in Nat
        BY <4>1, EndsOf DEF Inv
      <4> QED BY <3>2, <4>1, <4>2
    <3> QED BY <3>3, <3>4, <2>3 DEF PushHelp, PushAgain, Goto, Typed, Types, Popping, Found, PopLabels
  <2>6. CASE tail_ # ori[t]
    <3>1. tail_' = tail_
      BY <2>6 DEF PushHelp
    <3>2. QueueList(K, R)'
      BY <2>4, <3>1, ListsSame DEF Inv
    <3>3. Behind'
      BY <2>1, <2>4, <3>1 DEF PushHelp, PushAgain, Goto, Set, Inv, Typed, Types, Behind
    <3>4. Producing(K, R)'
      BY <2>2, <2>4, <3>1 DEF PushHelp, PushAgain, Goto, Set, Inv, Typed, Types, Producing, Linking
    <3> QED BY <3>2, <3>3, <3>4, <2>3 DEF PushHelp, PushAgain, Goto, Typed, Types, Popping, Found, PopLabels
  <2> QED BY <2>5, <2>6
<1>3. Fresh(K, O)'
  BY DEF PushHelp, PushAgain, Goto, Inv, Typed, Fresh, Unlinked, PushLabels, sanVars
<1>4. Popped(K, O)'
  BY DEF PushHelp, PushAgain, Goto, Inv, Typed, Popped, Limbo
<1>5. Filled(K)'
  BY DEF PushHelp, PushAgain, Goto, Set, Inv, Typed, Filled, ends
<1>6. Emptied'
  BY DEF PushHelp, PushAgain, Goto, Inv, Typed, Emptied, Gone, Freeing, sanVars, ends
<1>7. Counted(K)'
  BY CountSame DEF PushHelp, PushAgain, Goto, Inv, Typed
<1> QED BY <1>1, <1>2, <1>3, <1>4, <1>5, <1>6, <1>7 DEF Inv, Nodewise

(* Another Push has linked its node first.                                    *)
LEMMA PushAppendFailsInv ==
  ASSUME Hypotheses, Typed, NEW K, NEW O, NEW R, Inv(K, O, R), NEW t \in Threads,
         PushAppend(t), next_[ori[t]] # NULL
  PROVE  Inv(K, O, R)'
<1>1. Nodewise(K, O, R)'
  BY NodesSame, MainAssumption DEF PushAppend, PushAgain, Goto, Inv, Typed, Types,
      Nodewise, Deleted, Gone, Freeing, ends
<1>2. QueueList(K, R)'
  BY ListsSame DEF PushAppend, Goto, Inv, Typed, ends
<1>3. Fresh(K, O)'
  BY DEF PushAppend, PushAgain, Goto, Inv, Typed, Types, Fresh, Unlinked, PushLabels
<1>4. Popped(K, O)'
  BY DEF PushAppend, PushAgain, Goto, Inv, Typed, Types, Popped, Limbo
<1>5. Behind'
  BY DEF PushAppend, PushAgain, Goto, Set, Inv, Typed, Types, Behind, ends
<1>6. Producing(K, R)'
  BY DEF PushAppend, PushAgain, Goto, Set, Inv, Typed, Types, Producing, Linking,
      program, ends
<1>7. Popping'
  BY DEF PushAppend, PushAgain, Goto, Set, Inv, Typed, Types, Popping, Found, ends
<1>8. Filled(K)'
  BY DEF PushAppend, PushAgain, Goto, Set, Inv, Typed, Types, Filled, ends
<1>9. Emptied'
  BY MainAssumption DEF PushAppend, PushAgain, Goto, Inv, Typed, Types, Emptied, Gone,
      Freeing, ends
<1>10. Counted(K)'
  BY CountSame DEF PushAppend, PushAgain, Goto, Inv, Typed, Types
<1> QED BY <1>1, <1>2, <1>3, <1>4, <1>5, <1>6, <1>7, <1>8, <1>9, <1>10 DEF Inv, Nodewise

(* The tail is moved to the node that this Push has linked, unless another    *)
(* thread has done it.                                                        *)
LEMMA PushSwingInv ==
  ASSUME Hypotheses, Typed, NEW K, NEW O, NEW R, Inv(K, O, R), NEW t \in Threads, PushSwing(t)
  PROVE  Inv(K, O, R)'
<1>1. Nodewise(K, O, R)'
  BY NodesSame DEF PushSwing, Goto, Inv, Typed, Nodewise, Deleted, Gone, Freeing,
      sanVars, ends
<1>2. QueueList(K, R)' /\ Behind' /\ Producing(K, R)' /\ Popping'
  <2>1. pc[t] = "push_swing" /\ pc[t] \in PushLabels /\ new[t] # NULL
    BY DEF PushSwing, PushLabels, Typed, Locals
  <2>2. head_' = head_ /\ next_' = next_ /\ UNCHANGED <<use, ori, new, h, tl, nxt>>
    BY DEF PushSwing, sanVars, program
  <2>3. \A u \in Threads : pc[u] \in Linking => use.consumers = {}
    BY <2>1, OnePush DEF Linking, PushLabels
  <2>4. pc' = [pc EXCEPT ![t] = "push_size"]
    BY DEF PushSwing, Goto
  <2>5. CASE tail_ = ori[t]
    <3>1. tail_' = next_[tail_] /\ next_[tail_] # NULL
      <4>1. K[tail_] = "list" /\ next_[ori[t]] = new[t]
        BY <2>1, <2>5, EndsOf DEF Inv, Producing
      <4> QED BY <2>1, <2>5, <4>1 DEF PushSwing
    <3>2. R[tail_'] <= R[tail_] /\ R[tail_'] \in Nat /\ R[tail_] \in Nat
      BY <3>1, TailNext DEF Inv
    <3>3. QueueList(K, R)' /\ Behind' /\ tail_' # head_
      BY <2>2, <3>1, TailMoved DEF Inv
    <3>4. Producing(K, R)'
      <4> SUFFICES ASSUME NEW u \in Threads, u # t, pc[u] \in Linking PROVE R[tail_'] <= R[ori[u]]
        BY <2>2, <2>3, <2>4 DEF Inv, Typed, Types, Producing, Linking
      <4>1. ori[u] \in Nodes /\ K[ori[u]] = "list" /\ R[tail_] <= R[ori[u]]
        BY PushHolds DEF Inv, Producing
      <4>2. R[ori[u]] \in Nat
        BY <4>1, EndsOf DEF Inv
      <4> QED BY <3>2, <4>1, <4>2
    <3>5. Popping'
      BY <2>2, <2>4, <3>3 DEF Inv, Typed, Types, Popping, Found
    <3> QED BY <3>3, <3>4, <3>5
  <2>6. CASE tail_ # ori[t]
    <3>1. tail_' = tail_
      BY <2>6 DEF PushSwing
    <3>2. QueueList(K, R)'
      BY <2>2, <3>1, ListsSame DEF Inv
    <3>3. Behind'
      BY <2>2, <2>4, <2>6, <3>1 DEF Inv, Typed, Types, Behind
    <3>4. Producing(K, R)'
      BY <2>2, <2>4, <3>1 DEF Inv, Typed, Types, Producing, Linking
    <3>5. Popping'
      BY <2>2, <2>4, <3>1 DEF Inv, Typed, Types, Popping, Found
    <3> QED BY <3>2, <3>3, <3>4, <3>5
  <2> QED BY <2>5, <2>6
<1>3. Fresh(K, O)'
  BY DEF PushSwing, Goto, Inv, Typed, Fresh, Unlinked, sanVars
<1>4. Popped(K, O)'
  BY DEF PushSwing, Goto, Inv, Typed, Popped, Limbo
<1>5. Filled(K)'
  BY DEF PushSwing, Goto, Inv, Typed, Filled, ends
<1>6. Emptied'
  BY DEF PushSwing, Goto, Inv, Typed, Emptied, Gone, Freeing, sanVars, ends
<1>7. Counted(K)'
  BY CountSame DEF PushSwing, Goto, Inv, Typed
<1> QED BY <1>1, <1>2, <1>3, <1>4, <1>5, <1>6, <1>7 DEF Inv, Nodewise

(* size_ catches up with a node that was linked.                              *)
LEMMA PushSizeInv ==
  ASSUME Hypotheses, Typed, NEW K, NEW O, NEW R, Inv(K, O, R), NEW t \in Threads, PushSize(t)
  PROVE  Inv(K, O, R)'
<1>1. Nodewise(K, O, R)'
  BY NodesSame DEF PushSize, Leave, Goto, Inv, Typed, Nodewise, Deleted, Gone, Freeing,
      sanVars, ends
<1>2. QueueList(K, R)'
  BY ListsSame DEF PushSize, Goto, Inv, Typed, sanVars, ends
<1>3. Fresh(K, O)'
  BY DEF PushSize, Leave, Goto, Set, Inv, Typed, Fresh, Unlinked, PushLabels, sanVars
<1>4. Popped(K, O)'
  BY DEF PushSize, Leave, Goto, Set, Inv, Typed, Popped, Limbo
<1>5. Behind'
  BY DEF PushSize, Leave, Goto, Set, Inv, Typed, Behind, sanVars, ends
<1>6. Producing(K, R)'
  BY DEF PushSize, Leave, Goto, Set, Inv, Typed, Producing, Linking, program, sanVars,
      ends
<1>7. Popping'
  BY DEF PushSize, Leave, Goto, Set, Inv, Typed, Popping, Found, sanVars, ends
<1>8. Filled(K)'
  BY DEF PushSize, Leave, Goto, Set, Inv, Typed, Filled, ends
<1>9. Emptied'
  BY DEF PushSize, Leave, Goto, Inv, Typed, Emptied, Gone, Freeing, sanVars, ends
<1>10. Counted(K)'
  BY PushSizeCounted DEF PushSize, Goto, Inv
<1> QED BY <1>1, <1>2, <1>3, <1>4, <1>5, <1>6, <1>7, <1>8, <1>9, <1>10 DEF Inv, Nodewise

(* The head that a Pop loads stays the head: only this thread moves it.       *)
LEMMA PopHeadInv ==
  ASSUME Hypotheses, Typed, NEW K, NEW O, NEW R, Inv(K, O, R), NEW t \in Threads, PopHead(t)
  PROVE  Inv(K, O, R)'
<1>1. Nodewise(K, O, R)'
  BY NodesSame DEF PopHead, Goto, Inv, Typed, Nodewise, Deleted, Gone, Freeing, sanVars,
      ends
<1>2. QueueList(K, R)'
  BY ListsSame DEF PopHead, Goto, Inv, Typed, sanVars, ends
<1>3. Fresh(K, O)'
  BY DEF PopHead, Goto, Inv, Typed, Fresh, Unlinked, PushLabels, sanVars
<1>4. Popped(K, O)'
  BY DEF PopHead, Goto, Set, Inv, Typed, Popped, Limbo
<1>5. Behind'
  BY DEF PopHead, Goto, Inv, Typed, Behind, sanVars, ends
<1>6. Producing(K, R)'
  BY DEF PopHead, Goto, Inv, Typed, Producing, Linking, program, sanVars, ends
<1>7. Popping'
  BY DEF PopHead, Goto, Set, Inv, Typed, Types, Popping, Found, sanVars, ends
<1>8. Filled(K)'
  BY DEF PopHead, Goto, Inv, Typed, Filled, ends
<1>9. Emptied'
  BY DEF PopHead, Goto, Inv, Typed, Emptied, Gone, Freeing, sanVars, ends
<1>10. Counted(K)'
  BY CountSame DEF PopHead, Goto, Inv, Typed
<1> QED BY <1>1, <1>2, <1>3, <1>4, <1>5, <1>6, <1>7, <1>8, <1>9, <1>10 DEF Inv, Nodewise

(* If the tail is not the head now, it never will be again while the Pop goes *)
(* on.                                                                        *)
LEMMA PopTailInv ==
  ASSUME Hypotheses, Typed, NEW K, NEW O, NEW R, Inv(K, O, R), NEW t \in Threads, PopTail(t)
  PROVE  Inv(K, O, R)'
<1>1. Nodewise(K, O, R)'
  BY NodesSame DEF PopTail, Goto, Inv, Typed, Nodewise, Deleted, Gone, Freeing, sanVars,
      ends
<1>2. QueueList(K, R)'
  BY ListsSame DEF PopTail, Goto, Inv, Typed, sanVars, ends
<1>3. Fresh(K, O)'
  BY DEF PopTail, Goto, Inv, Typed, Fresh, Unlinked, PushLabels, sanVars
<1>4. Popped(K, O)'
  BY DEF PopTail, Goto, Inv, Typed, Popped, Limbo
<1>5. Behind'
  BY DEF PopTail, Goto, Inv, Typed, Behind, sanVars, ends
<1>6. Producing(K, R)'
  BY DEF PopTail, Goto, Inv, Typed, Producing, Linking, program, sanVars, ends
<1>7. Popping'
  BY DEF PopTail, Goto, Set, Inv, Typed, Types, Popping, Found, sanVars, ends
<1>8. Filled(K)'
  BY DEF PopTail, Goto, Inv, Typed, Filled, ends
<1>9. Emptied'
  BY DEF PopTail, Goto, Inv, Typed, Emptied, Gone, Freeing, sanVars, ends
<1>10. Counted(K)'
  BY CountSame DEF PopTail, Goto, Inv, Typed
<1> QED BY <1>1, <1>2, <1>3, <1>4, <1>5, <1>6, <1>7, <1>8, <1>9, <1>10 DEF Inv, Nodewise

(* The early return.  In the destructor it is the end of the loop, and the    *)
(* queue is empty.                                                            *)
LEMMA PopNextEmptyInv ==
  ASSUME Hypotheses, Typed, NEW K, NEW O, NEW R, Inv(K, O, R), NEW t \in Threads, PopNext(t),
         h[t] = tl[t], next_[h[t]] = NULL
  PROVE  Inv(K, O, R)'
<1>1. Nodewise(K, O, R)'
  BY NodesSame, MainAssumption DEF PopNext, Leave, Caller, Goto, Inv, Typed, Types,
      Nodewise, Deleted, Gone, Freeing, sanVars, ends
<1>2. QueueList(K, R)'
  BY ListsSame DEF PopNext, Goto, Inv, Typed, sanVars, ends
<1>3. Fresh(K, O)'
  BY DEF PopNext, Leave, Caller, Goto, Set, Inv, Typed, Types, Fresh, Unlinked,
      PushLabels, sanVars
<1>4. Popped(K, O)'
  BY DEF PopNext, Leave, Caller, Goto, Set, Inv, Typed, Types, Popped, Limbo
<1>5. Behind'
  BY DEF PopNext, Leave, Goto, Set, Inv, Typed, Types, Behind, sanVars, ends
<1>6. Producing(K, R)'
  BY DEF PopNext, Leave, Caller, Goto, Set, Inv, Typed, Types, Producing, Linking,
      program, sanVars, ends
<1>7. Popping'
  BY DEF PopNext, Leave, Caller, Goto, Set, Inv, Typed, Types, Popping, Found, sanVars,
      ends
<1>8. Filled(K)'
  BY DEF PopNext, Leave, Caller, Goto, Set, Inv, Typed, Types, Filled, ends
<1>9. Emptied'
  BY DEF PopNext, Goto, Inv, Typed, Popping, Emptied, sanVars, ends
<1>10. Counted(K)'
  BY CountSame DEF PopNext, Leave, Caller, Goto, Inv, Typed, Types
<1> QED BY <1>1, <1>2, <1>3, <1>4, <1>5, <1>6, <1>7, <1>8, <1>9, <1>10 DEF Inv, Nodewise

(* The tail is the head and something is behind it: the Pop moves the tail    *)
(* first.                                                                     *)
LEMMA PopNextBehindInv ==
  ASSUME Hypotheses, Typed, NEW K, NEW O, NEW R, Inv(K, O, R), NEW t \in Threads, PopNext(t),
         h[t] = tl[t], next_[h[t]] # NULL
  PROVE  Inv(K, O, R)'
<1>1. Nodewise(K, O, R)'
  BY NodesSame, MainAssumption DEF PopNext, Goto, Inv, Typed, Types, Nodewise, Deleted,
      Gone, Freeing, sanVars, ends
<1>2. QueueList(K, R)'
  BY ListsSame DEF PopNext, Goto, Inv, Typed, sanVars, ends
<1>3. Fresh(K, O)'
  BY DEF PopNext, Goto, Inv, Typed, Types, Fresh, Unlinked, PushLabels, sanVars
<1>4. Popped(K, O)'
  BY DEF PopNext, Goto, Inv, Typed, Types, Popped, Limbo
<1>5. Behind'
  BY DEF PopNext, Goto, Inv, Typed, Types, Behind, sanVars, ends
<1>6. Producing(K, R)'
  BY DEF PopNext, Goto, Set, Inv, Typed, Types, Producing, Linking, program, sanVars,
      ends
<1>7. Popping'
  BY DEF PopNext, Goto, Set, Inv, Typed, Types, Popping, Found, sanVars, ends
<1>8. Filled(K)'
  BY DEF PopNext, Goto, Set, Inv, Typed, Types, Filled, ends
<1>9. Emptied'
  BY MainAssumption DEF PopNext, Goto, Inv, Typed, Types, Emptied, Gone, Freeing,
      sanVars, ends
<1>10. Counted(K)'
  BY CountSame DEF PopNext, Goto, Inv, Typed, Types
<1> QED BY <1>1, <1>2, <1>3, <1>4, <1>5, <1>6, <1>7, <1>8, <1>9, <1>10 DEF Inv, Nodewise

(* The tail is further on: the Pop takes the node behind the head.            *)
LEMMA PopNextFoundInv ==
  ASSUME Hypotheses, Typed, NEW K, NEW O, NEW R, Inv(K, O, R), NEW t \in Threads, PopNext(t),
         h[t] # tl[t]
  PROVE  Inv(K, O, R)'
<1>1. Nodewise(K, O, R)'
  BY NodesSame, MainAssumption DEF PopNext, Goto, Inv, Typed, Types, Nodewise, Deleted,
      Gone, Freeing, sanVars, ends
<1>2. QueueList(K, R)'
  BY ListsSame DEF PopNext, Goto, Inv, Typed, sanVars, ends
<1>3. Fresh(K, O)'
  BY DEF PopNext, Goto, Inv, Typed, Types, Fresh, Unlinked, PushLabels, sanVars
<1>4. Popped(K, O)'
  BY DEF PopNext, Goto, Inv, Typed, Types, Popped, Limbo
<1>5. Behind'
  BY DEF PopNext, Goto, Inv, Typed, Types, Behind, sanVars, ends
<1>6. Producing(K, R)'
  BY DEF PopNext, Goto, Set, Inv, Typed, Types, Producing, Linking, program, sanVars,
      ends
<1>7. Popping'
  BY DEF PopNext, Goto, Set, Inv, Typed, Types, Popping, sanVars, ends
<1>8. Filled(K)'
  BY DEF PopNext, Goto, Set, Inv, Typed, Types, Filled, ends
<1>9. Emptied'
  BY MainAssumption DEF PopNext, Goto, Inv, Typed, Types, Emptied, Gone, Freeing,
      sanVars, ends
<1>10. Counted(K)'
  BY CountSame DEF PopNext, Goto, Inv, Typed, Types
<1> QED BY <1>1, <1>2, <1>3, <1>4, <1>5, <1>6, <1>7, <1>8, <1>9, <1>10 DEF Inv, Nodewise

(* The tail is moved to the node behind it, so it is not on the dummy any     *)
(* more.                                                                      *)
LEMMA PopHelpInv ==
  ASSUME Hypotheses, Typed, NEW K, NEW O, NEW R, Inv(K, O, R), NEW t \in Threads, PopHelp(t)
  PROVE  Inv(K, O, R)'
<1>1. Nodewise(K, O, R)'
  BY NodesSame DEF PopHelp, PopAgain, Goto, Inv, Typed, Nodewise, Deleted, Gone,
      Freeing, sanVars, ends
<1>2. QueueList(K, R)' /\ Behind' /\ Producing(K, R)'
  <2>1. /\ pc[t] = "pop_help" /\ pc[t] \in PopLabels /\ nxt[t] # NULL /\ tl[t] = head_
        /\ nxt[t] = next_[head_]
    BY DEF PopHelp, PopLabels, Typed, Locals, Inv, Popping
  <2>2. head_' = head_ /\ next_' = next_ /\ UNCHANGED <<use, ori, new>>
    BY DEF PopHelp, PopAgain, sanVars, program
  <2>3. pc' = [pc EXCEPT ![t] = "pop_head"]
    BY DEF PopHelp, PopAgain, Goto
  <2>4. CASE tail_ = tl[t]
    <3>1. tail_' = next_[tail_] /\ next_[tail_] # NULL
      BY <2>1, <2>4 DEF PopHelp
    <3>2. QueueList(K, R)' /\ Behind'
      BY <2>2, <3>1, TailMoved DEF Inv
    <3>3. \A u \in Threads : pc[u] \notin Linking
      <4> SUFFICES ASSUME NEW u \in Threads, pc[u] \in Linking PROVE FALSE
        OBVIOUS
      <4>1. pc[u] \in PushLabels
        BY DEF Linking, PushLabels
      <4>2. use.consumers # {}
        BY <2>1, <4>1, PopBesidePush
      <4> QED BY <3>1, <4>2, NotBehind DEF Inv
    <3>4. Producing(K, R)'
      BY <2>2, <2>3, <3>3 DEF PopHelp, PopAgain, Set, Inv, Typed, Types, Producing, Linking
    <3> QED BY <3>2, <3>4
  <2>5. CASE tail_ # tl[t]
    <3>1. tail_' = tail_
      BY <2>5 DEF PopHelp
    <3>2. QueueList(K, R)'
      BY <2>2, <3>1, ListsSame DEF Inv
    <3>3. Behind'
      BY <2>1, <2>2, <2>3, <3>1 DEF Inv, Typed, Types, Behind
    <3>4. Producing(K, R)'
      BY <2>2, <2>3, <3>1 DEF PopHelp, PopAgain, Set, Inv, Typed, Types, Producing, Linking
    <3> QED BY <3>2, <3>3, <3>4
  <2> QED BY <2>4, <2>5
<1>3. Fresh(K, O)'
  BY DEF PopHelp, PopAgain, Goto, Inv, Typed, Fresh, Unlinked, PushLabels, sanVars
<1>4. Popped(K, O)'
  BY DEF PopHelp, PopAgain, Goto, Set, Inv, Typed, Popped, Limbo
<1>5. Popping'
  BY DEF PopHelp, PopAgain, Goto, Set, Inv, Typed, Types, Popping, Found, Locals,
      sanVars, ends
<1>6. Filled(K)'
  BY DEF PopHelp, PopAgain, Goto, Set, Inv, Typed, Filled, ends
<1>7. Emptied'
  BY DEF PopHelp, PopAgain, Goto, Inv, Typed, Emptied, Gone, Freeing, sanVars, ends
<1>8. Counted(K)'
  BY CountSame DEF PopHelp, PopAgain, Goto, Inv, Typed
<1> QED BY <1>1, <1>2, <1>3, <1>4, <1>5, <1>6, <1>7, <1>8 DEF Inv, Nodewise

(* The stores to the hazard pointers.                                         *)
LEMMA PopAccessHeadInv ==
  ASSUME Hypotheses, Typed, NEW K, NEW O, NEW R, Inv(K, O, R), NEW t \in Threads, PopAccessHead(t)
  PROVE  Inv(K, O, R)'
<1>1. Nodewise(K, O, R)'
  BY NodesSame DEF PopAccessHead, Goto, Inv, Typed, Nodewise, Deleted, Gone, Freeing,
      ends
<1>2. QueueList(K, R)'
  BY ListsSame DEF PopAccessHead, Goto, Inv, Typed, ends
<1>3. Fresh(K, O)'
  BY DEF PopAccessHead, Goto, Inv, Typed, Fresh, Unlinked, PushLabels
<1>4. Popped(K, O)'
  BY DEF PopAccessHead, Goto, Inv, Typed, Popped, Limbo
<1>5. Behind'
  BY DEF PopAccessHead, Goto, Inv, Typed, Behind, ends
<1>6. Producing(K, R)'
  BY DEF PopAccessHead, Goto, Inv, Typed, Producing, Linking, program, ends
<1>7. Popping'
  BY DEF PopAccessHead, Goto, Inv, Typed, Popping, Found, ends
<1>8. Filled(K)'
  BY DEF PopAccessHead, Goto, Inv, Typed, Filled, ends
<1>9. Emptied'
  BY DEF PopAccessHead, Goto, Inv, Typed, Emptied, Gone, Freeing, ends
<1>10. Counted(K)'
  BY CountSame DEF PopAccessHead, Goto, Inv, Typed
<1> QED BY <1>1, <1>2, <1>3, <1>4, <1>5, <1>6, <1>7, <1>8, <1>9, <1>10 DEF Inv, Nodewise

(* The second of them.                                                        *)
LEMMA PopAccessNextInv ==
  ASSUME Hypotheses, Typed, NEW K, NEW O, NEW R, Inv(K, O, R), NEW t \in Threads, PopAccessNext(t)
  PROVE  Inv(K, O, R)'
<1>1. Nodewise(K, O, R)'
  BY NodesSame DEF PopAccessNext, Goto, Inv, Typed, Nodewise, Deleted, Gone, Freeing,
      ends
<1>2. QueueList(K, R)'
  BY ListsSame DEF PopAccessNext, Goto, Inv, Typed, ends
<1>3. Fresh(K, O)'
  BY DEF PopAccessNext, Goto, Inv, Typed, Fresh, Unlinked, PushLabels
<1>4. Popped(K, O)'
  BY DEF PopAccessNext, Goto, Inv, Typed, Popped, Limbo
<1>5. Behind'
  BY DEF PopAccessNext, Goto, Inv, Typed, Behind, ends
<1>6. Producing(K, R)'
  BY DEF PopAccessNext, Goto, Inv, Typed, Producing, Linking, program, ends
<1>7. Popping'
  BY DEF PopAccessNext, Goto, Inv, Typed, Popping, Found, ends
<1>8. Filled(K)'
  BY DEF PopAccessNext, Goto, Inv, Typed, Filled, ends
<1>9. Emptied'
  BY DEF PopAccessNext, Goto, Inv, Typed, Emptied, Gone, Freeing, ends
<1>10. Counted(K)'
  BY CountSame DEF PopAccessNext, Goto, Inv, Typed
<1> QED BY <1>1, <1>2, <1>3, <1>4, <1>5, <1>6, <1>7, <1>8, <1>9, <1>10 DEF Inv, Nodewise

(* The value leaves the node, which is the dummy by now.                      *)
LEMMA PopSwapInv ==
  ASSUME Hypotheses, Typed, NEW K, NEW O, NEW R, Inv(K, O, R), NEW t \in Threads, PopSwap(t)
  PROVE  Inv(K, O, R)'
<1>1. Nodewise(K, O, R)'
  BY NodesSame DEF PopSwap, Goto, Inv, Typed, Nodewise, Deleted, Gone, Freeing, sanVars,
      ends
<1>2. QueueList(K, R)'
  BY ListsSame DEF PopSwap, Goto, Inv, Typed, sanVars, ends
<1>3. Fresh(K, O)'
  BY DEF PopSwap, Goto, Inv, Typed, Fresh, Unlinked, PushLabels, sanVars
<1>4. Popped(K, O)'
  BY DEF PopSwap, Goto, Inv, Typed, Popped, Limbo
<1>5. Behind'
  BY DEF PopSwap, Goto, Inv, Typed, Behind, sanVars, ends
<1>6. Producing(K, R)'
  BY DEF PopSwap, Goto, Inv, Typed, Producing, Linking, program, sanVars, ends
<1>7. Popping'
  BY DEF PopSwap, Goto, Inv, Typed, Popping, Found, sanVars, ends
<1>8. Filled(K)'
  <2>1. pc[t] = "pop_swap" /\ nxt[t] = head_ /\ head_ \in Nodes /\ K[head_] = "list"
    BY EndsOf DEF PopSwap, Inv, Popping
  <2>2. \A u \in Threads : pc[u] \in PopLabels => u = t
    BY <2>1, OnePop DEF PopLabels
  <2>3. data[head_] # NoValue
    BY <2>1 DEF Inv, Filled
  <2>4. /\ pc' = [pc EXCEPT ![t] = "pop_size"] /\ val'[t] = data[head_]
        /\ data' = [data EXCEPT ![head_] = NoValue] /\ head_' = head_
    BY <2>1 DEF PopSwap, Goto, Set, Typed, Types, ends
  <2>5. \A n \in Nodes : K[n] = "new" \/ (K[n] = "list" /\ n # head_) => data'[n] # NoValue
    BY <2>1, <2>4 DEF Inv, Filled, Typed, Types
  <2> QED BY <2>2, <2>3, <2>4, <2>5 DEF Filled, PopLabels, Typed, Types
<1>9. Emptied'
  BY DEF PopSwap, Goto, Inv, Typed, Emptied, Gone, Freeing, sanVars, ends
<1>10. Counted(K)'
  BY CountSame DEF PopSwap, Goto, Inv, Typed
<1> QED BY <1>1, <1>2, <1>3, <1>4, <1>5, <1>6, <1>7, <1>8, <1>9, <1>10 DEF Inv, Nodewise

(* size_ catches up with a node that was unlinked.                            *)
LEMMA PopSizeInv ==
  ASSUME Hypotheses, Typed, NEW K, NEW O, NEW R, Inv(K, O, R), NEW t \in Threads, PopSize(t)
  PROVE  Inv(K, O, R)'
<1>1. Nodewise(K, O, R)'
  BY NodesSame DEF PopSize, Goto, Inv, Typed, Nodewise, Deleted, Gone, Freeing, sanVars,
      ends
<1>2. QueueList(K, R)'
  BY ListsSame DEF PopSize, Goto, Inv, Typed, sanVars, ends
<1>3. Fresh(K, O)'
  BY DEF PopSize, Goto, Inv, Typed, Fresh, Unlinked, PushLabels, sanVars
<1>4. Popped(K, O)'
  BY DEF PopSize, Goto, Inv, Typed, Popped, Limbo
<1>5. Behind'
  BY DEF PopSize, Goto, Inv, Typed, Behind, sanVars, ends
<1>6. Producing(K, R)'
  BY DEF PopSize, Goto, Inv, Typed, Producing, Linking, program, sanVars, ends
<1>7. Popping'
  BY DEF PopSize, Goto, Inv, Typed, Popping, Found, sanVars, ends
<1>8. Filled(K)'
  BY DEF PopSize, Goto, Inv, Typed, Filled, ends
<1>9. Emptied'
  BY DEF PopSize, Goto, Inv, Typed, Emptied, Gone, Freeing, sanVars, ends
<1>10. Counted(K)'
  BY PopSizeCounted DEF PopSize, Goto, Inv
<1> QED BY <1>1, <1>2, <1>3, <1>4, <1>5, <1>6, <1>7, <1>8, <1>9, <1>10 DEF Inv, Nodewise

(* The first store of reset.                                                  *)
LEMMA PopResetInv ==
  ASSUME Hypotheses, Typed, NEW K, NEW O, NEW R, Inv(K, O, R), NEW t \in Threads, PopReset(t)
  PROVE  Inv(K, O, R)'
<1>1. Nodewise(K, O, R)'
  BY NodesSame DEF PopReset, Goto, Inv, Typed, Nodewise, Deleted, Gone, Freeing, ends
<1>2. QueueList(K, R)'
  BY ListsSame DEF PopReset, Goto, Inv, Typed, ends
<1>3. Fresh(K, O)'
  BY DEF PopReset, Goto, Inv, Typed, Fresh, Unlinked, PushLabels
<1>4. Popped(K, O)'
  BY DEF PopReset, Goto, Inv, Typed, Popped, Limbo
<1>5. Behind'
  BY DEF PopReset, Goto, Inv, Typed, Behind, ends
<1>6. Producing(K, R)'
  BY DEF PopReset, Goto, Inv, Typed, Producing, Linking, program, ends
<1>7. Popping'
  BY DEF PopReset, Goto, Inv, Typed, Popping, Found, ends
<1>8. Filled(K)'
  BY DEF PopReset, Goto, Inv, Typed, Filled, ends
<1>9. Emptied'
  BY DEF PopReset, Goto, Inv, Typed, Emptied, Gone, Freeing, ends
<1>10. Counted(K)'
  BY CountSame DEF PopReset, Goto, Inv, Typed
<1> QED BY <1>1, <1>2, <1>3, <1>4, <1>5, <1>6, <1>7, <1>8, <1>9, <1>10 DEF Inv, Nodewise

(* The end of a Pop that has a value.                                         *)
LEMMA PopReturnInv ==
  ASSUME Hypotheses, Typed, NEW K, NEW O, NEW R, Inv(K, O, R), NEW t \in Threads, PopReturn(t)
  PROVE  Inv(K, O, R)'
<1>1. Nodewise(K, O, R)'
  BY NodesSame DEF PopReturn, Leave, Caller, Goto, Inv, Typed, Nodewise, Deleted, Gone,
      Freeing, sanVars, ends
<1>2. QueueList(K, R)'
  BY ListsSame DEF PopReturn, Goto, Inv, Typed, sanVars, ends
<1>3. Fresh(K, O)'
  BY DEF PopReturn, Leave, Caller, Goto, Set, Inv, Typed, Fresh, Unlinked, PushLabels,
      sanVars
<1>4. Popped(K, O)'
  BY DEF PopReturn, Leave, Caller, Goto, Set, Inv, Typed, Popped, Limbo
<1>5. Behind'
  BY DEF PopReturn, Leave, Goto, Set, Inv, Typed, Behind, sanVars, ends
<1>6. Producing(K, R)'
  BY DEF PopReturn, Leave, Caller, Goto, Set, Inv, Typed, Producing, Linking, program,
      sanVars, ends
<1>7. Popping'
  BY DEF PopReturn, Leave, Caller, Goto, Set, Inv, Typed, Popping, Found, sanVars, ends
<1>8. Filled(K)'
  BY DEF PopReturn, Leave, Caller, Goto, Set, Inv, Typed, Types, Filled, ends
<1>9. Emptied'
  BY DEF PopReturn, Leave, Caller, Goto, Inv, Typed, Filled, Emptied, Gone, Freeing,
      sanVars, ends
<1>10. Counted(K)'
  BY CountSame DEF PopReturn, Leave, Caller, Goto, Inv, Typed
<1> QED BY <1>1, <1>2, <1>3, <1>4, <1>5, <1>6, <1>7, <1>8, <1>9, <1>10 DEF Inv, Nodewise

(* Where a Pop hands its node over, the thread has no other deletion.         *)
LEMMA PopReleaseInv ==
  ASSUME Hypotheses, Typed, NEW K, NEW O, NEW R, Inv(K, O, R), NEW t \in Threads, PopRelease(t)
  PROVE  \E J, P, Q : Inv(J, P, Q)'
<1>1. /\ pc[t] = "pop_release" /\ pc'[t] = "pop_return"
      /\ \A u \in Threads : u # t => pc'[u] = pc[u]
      /\ UNCHANGED <<allocated, next_, backward_deleting_list_, head_, tail_, size_, data,
                     ori, new, h, tl, nxt, val, use>>
  BY DEF PopRelease, Goto, Typed, Types, ends, program
<1>2. PICK n \in Nodes : n = h[t] /\ K[n] = "limbo" /\ O[n] = t
  BY <1>1, PopHolds DEF Inv, Limbo
<1>3. /\ t \in Agents
      /\ del'[t].pc = "scan" /\ del'[t].node = n /\ del'[t].i = 0 /\ del'[t].rest = NULL
      /\ \A a \in Agents : a # t => del'[a] = del[a]
  BY <1>2 DEF PopRelease, StartRelease, NoDel, Agents, Typed, Types, SanTypeOK
<1>4. del[t].pc = "none" /\ del[t].node = NULL /\ del[t].rest = NULL
  <2>1. del[t].pc = "none"
    BY <1>1 DEF Typed, Frames
  <2>2. (~del[t].loop /\ pc[Main] # "dtor_free") \/ t # Main
    BY <1>1, <1>3, <2>1 DEF Typed, Frames
  <2> QED BY <1>3, <2>1, <2>2 DEF Typed, Frames
<1>5. K \in [Nodes -> Kinds] /\ O \in [Nodes -> Agents] /\ R \in [Nodes -> Nat]
  BY DEF Inv, Book
<1>6. PICK J \in [Nodes -> Kinds] : J[n] = "hand" /\ \A m \in Nodes : m # n => J[m] = K[m]
  <2>1. "hand" \in Kinds
    BY DEF Kinds
  <2>2. K \in [Nodes -> Kinds]
    BY <1>5
  <2> QED BY <2>1, <2>2, MoveOne
<1>7. Elsewhere(K, O, R, J, O, R, n)
  BY <1>1, <1>6 DEF Elsewhere
<1>8. Deleted = {} /\ Deleted' = {} /\ pc'[Main] \notin Gone /\ pc'[Main] # "dtor_head"
  <2>1. pc[t] \in PopLabels /\ pc'[t] \in PopLabels
    BY <1>1 DEF PopLabels
  <2>2. t # Main => pc[Main] = "idle"
    BY <1>1 DEF Typed, Roles
  <2> QED BY <1>1, <2>1, <2>2, NotGone, MainAssumption
<1>9. Book(J, O, R)'
  BY <1>1, <1>2, <1>5, <1>6, <1>8 DEF Inv, Book
<1>10. QueueList(J, R)' /\ DelayedList(J, R)' /\ RestLists(J, O, R)'
  <2>1. \A a \in Agents : del'[a].rest = del[a].rest
    BY <1>3, <1>4
  <2> QED BY <1>1, <1>2, <1>6, <1>7, <2>1, QueueElsewhere, DelayedElsewhere, RestsElsewhere DEF Inv
<1>11. Fresh(J, O)'
  BY <1>1, <1>2, <1>6 DEF Inv, Fresh, Unlinked, PushLabels
<1>12. Popped(J, O)'
  BY <1>1, <1>2, <1>6 DEF Inv, Popped, Limbo
<1>13. InHands(J, O)'
  <2>1. \A m \in Nodes : J[m] = "hand" /\ O[m] = t <=> del'[t].node = m
    <3>1. \A m \in Nodes : ~(K[m] = "hand" /\ O[m] = t)
      BY <1>3, <1>4, NullAssumption DEF Inv, InHands
    <3> QED BY <1>2, <1>3, <1>6, <3>1
  <2>2. ASSUME NEW a \in Agents, a # t
        PROVE  /\ \A m \in Nodes : J[m] = "hand" /\ O[m] = a <=> del'[a].node = m
               /\ del'[a].pc = "cas" => next_'[del'[a].node] = del'[a].ori
    BY <1>1, <1>2, <1>3, <1>6, <2>2 DEF Inv, InHands
  <2> QED BY <1>3, <2>1, <2>2 DEF InHands
<1>14. Behind'
  BY <1>1 DEF Inv, Behind
<1>15. Producing(J, R)'
  <2> SUFFICES ASSUME NEW u \in Threads, pc'[u] \in Linking \cup {"push_swing"}
               PROVE  /\ pc[u] \in Linking =>
                           /\ J[ori[u]] = "list" /\ R[tail_] <= R[ori[u]]
                           /\ use.consumers # {} => ori[u] = tail_ /\ pc[u] # "push_help"
                      /\ pc[u] = "push_help" => nxt[u] = next_[ori[u]]
                      /\ pc[u] = "push_swing" =>
                           /\ use.consumers = {} => J[ori[u]] = "list"
                           /\ J[ori[u]] = "list" => next_[ori[u]] = new[u]
                      /\ pc'[u] = pc[u]
    BY <1>1 DEF Producing, Linking
  <2>1. pc'[u] = pc[u] /\ ori[u] \in Nodes
    BY <1>1 DEF Typed, Types, Locals, Linking, Ptr
  <2> QED BY <1>2, <1>6, <2>1 DEF Inv, Producing, Linking
<1>16. Popping'
  BY <1>1 DEF Inv, Popping, Found
<1>17. Filled(J)'
  BY <1>1, <1>2, <1>6 DEF Inv, Filled
<1>18. Emptied'
  BY <1>8 DEF Emptied
<1>19. Counted(J)'
  <2>1. At(J, "list") = At(K, "list")
    BY <1>2, <1>6 DEF At
  <2> QED BY <1>1, <2>1, CountSame DEF Inv
<1> QED BY <1>9, <1>10, <1>11, <1>12, <1>13, <1>14, <1>15, <1>16, <1>17, <1>18, <1>19 DEF Inv

-----------------------------------------------------------------------------
(* The steps of a deletion.                                                  *)

(* The agent that deletes, and what it leaves alone.                          *)
Deletes(a) ==
  /\ a \in Agents /\ (a = Back \/ pc[a] = "pop_return")
  /\ UNCHANGED <<ends, size_, data, locals>>

(* What a deletion leaves behind: the node is not in hand any more.            *)
LEMMA AfterDeleteIs ==
  ASSUME Typed, NEW a, Deletes(a), del[a].pc \in {"scan", "cas"}
  PROVE  /\ AfterDelete(a).node = NULL /\ AfterDelete(a).rest = del[a].rest
         /\ AfterDelete(a).pc \in {"none", "next", "exchange"}
<1>1. ~del[a].loop => del[a].rest = NULL
  BY BackAssumption, MainAssumption DEF Deletes, Typed, Frames
<1> QED BY <1>1 DEF AfterDelete, NoDel

(* The parts that a deletion cannot disturb, whatever node it moves.           *)
LEMMA DeletionLeaves ==
  ASSUME Hypotheses, Typed, NEW K, NEW O, NEW R, Inv(K, O, R), NEW a, Deletes(a),
         NEW J, NEW P, NEW Q, Agree(K, O, R, J, P, Q)
  PROVE  Beside(J, P, Q)' /\ Emptied' /\ Deleted' = Deleted
<1>1. UNCHANGED <<head_, tail_, size_, data, pc, val, ori, new, h, tl, nxt, use>>
  BY DEF Deletes, ends, locals, program
<1>2. Aside
  BY <1>1 DEF Aside
<1>3. Beside(J, P, Q)'
  BY <1>1, <1>2, BesideKept
<1>4. Emptied'
  <2>1. head_ \in Nodes /\ K[head_] = "list"
    BY EndsOf DEF Inv
  <2>2. next_'[head_] = next_[head_]
    BY <2>1 DEF Agree, InUse
  <2> QED BY <1>1, <2>2 DEF Inv, Emptied
<1>5. Deleted' = Deleted
  BY <1>1 DEF Deleted
<1> QED BY <1>3, <1>4, <1>5

(* That is so when it moves one node, of those that it deletes.               *)
LEMMA ElsewhereAgrees ==
  ASSUME NEW K, NEW O, NEW R, NEW J, NEW P, NEW Q, NEW n \in Nodes,
         Elsewhere(K, O, R, J, P, Q, n), K[n] \notin InUse, J[n] \notin InUse
  PROVE  Agree(K, O, R, J, P, Q)
  BY DEF Elsewhere, Agree

(* The bookkeeping after a step that moves one node and deletes none.         *)
LEMMA BookMoved ==
  ASSUME NEW K, NEW O, NEW R, Book(K, O, R), NEW J \in [Nodes -> Kinds], NEW Q \in [Nodes -> Nat],
         NEW n \in Nodes, \A m \in Nodes : m # n => J[m] = K[m], K[n] # "free", J[n] # "free",
         allocated' = allocated, Deleted' = Deleted
  PROVE  Book(J, O, Q)'
  BY DEF Book

(* A step of a deletion that only the agent sees: it keeps its node in hand.   *)
LEMMA HoldingInv ==
  ASSUME Hypotheses, Typed, NEW K, NEW O, NEW R, Inv(K, O, R), NEW a, Deletes(a),
         UNCHANGED <<allocated, next_, backward_deleting_list_>>,
         del'[a].node = del[a].node, del'[a].rest = del[a].rest,
         del'[a].pc # "cas", \A b \in Agents : b # a => del'[b] = del[b]
  PROVE  Inv(K, O, R)'
<1>1. Beside(K, O, R)' /\ Emptied' /\ Deleted' = Deleted
  <2>1. Agree(K, O, R, K, O, R)
    BY DEF Agree
  <2> QED BY <2>1, DeletionLeaves
<1>2. Book(K, O, R)' /\ DelayedList(K, R)'
  BY <1>1 DEF Inv, Book, DelayedList, At
<1>3. RestLists(K, O, R)'
  <2>1. \A b \in Agents : del'[b].rest = del[b].rest
    OBVIOUS
  <2> QED BY <2>1 DEF Inv, RestLists, RestOf
<1>4. InHands(K, O)'
  BY DEF Inv, InHands
<1> QED BY <1>1, <1>2, <1>3, <1>4 DEF Inv, Beside

(* A step of a deletion that keeps its node in hand.                          *)
LEMMA HoldInv ==
  ASSUME Hypotheses, Typed, NEW K, NEW O, NEW R, Inv(K, O, R), NEW a, Deletes(a),
         \/ ScanMiss(a) \/ ScanHit(a) \/ DelayLoad(a)
         \/ DelayCas(a) /\ backward_deleting_list_ # del[a].ori
  PROVE  Inv(K, O, R)'
<1>1. a \in Agents
  BY DEF Deletes
<1>2. /\ del'[a].node = del[a].node /\ del'[a].rest = del[a].rest /\ del'[a].pc # "cas"
      /\ \A b \in Agents : b # a => del'[b] = del[b]
      /\ UNCHANGED <<allocated, next_, backward_deleting_list_>>
  BY <1>1 DEF ScanMiss, ScanHit, DelayLoad, DelayCas, Typed, Types, SanTypeOK, Frame
<1> QED BY <1>2, HoldingInv

(* A scan that has seen every cell deletes the node: it was in hand, so in no *)
(* list, and no Push or Pop follows a pointer to it.                          *)
LEMMA ImmediateDeleteInv ==
  ASSUME Hypotheses, Typed, NEW K, NEW O, NEW R, Inv(K, O, R), NEW a, Deletes(a), ImmediateDelete(a)
  PROVE  \E J, P, Q : Inv(J, P, Q)'
<1>1. /\ del[a].pc = "scan" /\ a \in Agents
      /\ allocated' = allocated \ {del[a].node}
      /\ del'[a] = AfterDelete(a) /\ \A b \in Agents : b # a => del'[b] = del[b]
      /\ UNCHANGED <<next_, backward_deleting_list_, head_, tail_>>
  BY DEF ImmediateDelete, Deletes, ends, Typed, Types, SanTypeOK
<1>2. /\ del'[a].node = NULL /\ del'[a].rest = del[a].rest
      /\ del'[a].pc \in {"none", "next", "exchange"}
  BY <1>1, AfterDeleteIs
<1>3. PICK n \in Nodes : n = del[a].node /\ K[n] = "hand" /\ O[n] = a
  BY <1>1, HandOf DEF Inv, Typed, Frames
<1>4. K \in [Nodes -> Kinds] /\ O \in [Nodes -> Agents] /\ R \in [Nodes -> Nat]
  BY DEF Inv, Book
<1>5. PICK J \in [Nodes -> Kinds] : J[n] = "free" /\ \A m \in Nodes : m # n => J[m] = K[m]
  <2>1. "free" \in Kinds
    BY DEF Kinds
  <2>2. K \in [Nodes -> Kinds]
    BY <1>4
  <2> QED BY <2>1, <2>2, MoveOne
<1>6. Elsewhere(K, O, R, J, O, R, n)
  BY <1>1, <1>5 DEF Elsewhere
<1>7. Beside(J, O, R)' /\ Emptied' /\ Deleted' = Deleted
  <2>1. Agree(K, O, R, J, O, R)
    BY <1>3, <1>5, <1>6, ElsewhereAgrees DEF InUse
  <2> QED BY <2>1, DeletionLeaves
<1>8. Book(J, O, R)'
  <2>1. allocated' = {m \in Nodes : J[m] # "free"} \ Deleted
    BY <1>1, <1>3, <1>5 DEF Inv, Book
  <2> QED BY <1>4, <1>7, <2>1 DEF Book
<1>9. DelayedList(J, R)' /\ RestLists(J, O, R)'
  <2>1. \A b \in Agents : del'[b].rest = del[b].rest
    BY <1>1, <1>2
  <2> QED BY <1>1, <1>3, <1>5, <1>6, <2>1, DelayedElsewhere, RestsElsewhere DEF Inv
<1>10. InHands(J, O)'
  <2>1. \A m \in Nodes : ~(J[m] = "hand" /\ O[m] = a)
    BY <1>1, <1>3, <1>5 DEF Inv, InHands
  <2>2. ASSUME NEW b \in Agents, b # a
        PROVE  /\ \A m \in Nodes : J[m] = "hand" /\ O[m] = b <=> del'[b].node = m
               /\ del'[b].pc = "cas" => next_'[del'[b].node] = del'[b].ori
    BY <1>1, <1>3, <1>5, <2>2 DEF Inv, InHands
  <2> QED BY <1>2, <2>1, <2>2, NullAssumption DEF InHands
<1> QED BY <1>7, <1>8, <1>9, <1>10 DEF Inv, Beside

(* The node in hand is written by its agent only.                             *)
LEMMA DelayLinkInv ==
  ASSUME Hypotheses, Typed, NEW K, NEW O, NEW R, Inv(K, O, R), NEW a, Deletes(a), DelayLink(a)
  PROVE  Inv(K, O, R)'
<1>1. PICK n \in Nodes : n = del[a].node /\ K[n] = "hand" /\ O[n] = a
  BY HandOf DEF DelayLink, Deletes, Inv, Typed, Frames
<1>2. /\ a \in Agents /\ next_'[n] = del[a].ori /\ \A m \in Nodes : m # n => next_'[m] = next_[m]
      /\ del'[a].node = n /\ del'[a].rest = del[a].rest /\ del'[a].pc = "cas" /\ del'[a].ori = del[a].ori
      /\ \A b \in Agents : b # a => del'[b] = del[b]
      /\ UNCHANGED <<allocated, backward_deleting_list_>>
  BY <1>1 DEF DelayLink, Deletes, Typed, Types, SanTypeOK, Frame
<1>3. Elsewhere(K, O, R, K, O, R, n)
  BY <1>2 DEF Elsewhere
<1>4. Beside(K, O, R)' /\ Emptied' /\ Deleted' = Deleted
  <2>1. Agree(K, O, R, K, O, R)
    BY <1>1, <1>3, ElsewhereAgrees DEF InUse
  <2> QED BY <2>1, DeletionLeaves
<1>5. Book(K, O, R)'
  BY <1>2, <1>4 DEF Inv, Book
<1>6. DelayedList(K, R)' /\ RestLists(K, O, R)'
  <2>1. \A b \in Agents : del'[b].rest = del[b].rest
    BY <1>2
  <2> QED BY <1>1, <1>2, <1>3, <2>1, DelayedElsewhere, RestsElsewhere DEF Inv
<1>7. InHands(K, O)'
  <2>1. \A b \in Agents : b # a /\ del[b].pc = "cas" => del[b].node \in Nodes /\ del[b].node # n
    BY <1>1, HandOf DEF Inv, Typed, Frames
  <2> QED BY <1>1, <1>2, <2>1 DEF Inv, InHands
<1> QED BY <1>4, <1>5, <1>6, <1>7 DEF Inv, Beside

(* The node in hand goes to the front of the delayed list.                    *)
LEMMA DelayCasOkInv ==
  ASSUME Hypotheses, Typed, NEW K, NEW O, NEW R, Inv(K, O, R), NEW a, Deletes(a),
         DelayCas(a), backward_deleting_list_ = del[a].ori
  PROVE  \E J, P, Q : Inv(J, P, Q)'
<1>1. /\ del[a].pc = "cas" /\ a \in Agents /\ backward_deleting_list_' = del[a].node
      /\ del'[a] = AfterDelete(a) /\ \A b \in Agents : b # a => del'[b] = del[b]
      /\ UNCHANGED <<allocated, next_>>
  BY DEF DelayCas, Deletes, Typed, Types, SanTypeOK
<1>2. /\ del'[a].node = NULL /\ del'[a].rest = del[a].rest
      /\ del'[a].pc \in {"none", "next", "exchange"}
  BY <1>1, AfterDeleteIs
<1>3. PICK n \in Nodes : n = del[a].node /\ K[n] = "hand" /\ O[n] = a
  BY <1>1, HandOf DEF Inv, Typed, Frames
<1>4. /\ K \in [Nodes -> Kinds] /\ O \in [Nodes -> Agents] /\ R \in [Nodes -> Nat]
      /\ IsFiniteSet(Nodes) /\ Cardinality(At(K, "delayed")) + 1 \in Nat
  <2>1. At(K, "delayed") \subseteq Nodes /\ IsFiniteSet(Nodes)
    BY DEF At, Hypotheses, FiniteSystem
  <2> QED BY <2>1, FS_Subset, FS_CardinalityType DEF Inv, Book
<1>5. PICK J \in [Nodes -> Kinds] : J[n] = "delayed" /\ \A m \in Nodes : m # n => J[m] = K[m]
  <2>1. "delayed" \in Kinds
    BY DEF Kinds
  <2>2. K \in [Nodes -> Kinds]
    BY <1>4
  <2> QED BY <2>1, <2>2, MoveOne
<1>6. PICK Q \in [Nodes -> Nat] : /\ Q[n] = Cardinality(At(K, "delayed")) + 1
                                  /\ \A m \in Nodes : m # n => Q[m] = R[m]
  BY <1>4, RankOne
<1>7. Elsewhere(K, O, R, J, O, Q, n)
  BY <1>1, <1>5, <1>6 DEF Elsewhere
<1>8. Beside(J, O, Q)' /\ Emptied' /\ Deleted' = Deleted
  <2>1. Agree(K, O, R, J, O, Q)
    BY <1>3, <1>5, <1>7, ElsewhereAgrees DEF InUse
  <2> QED BY <2>1, DeletionLeaves
<1>9. Book(J, O, Q)'
  BY <1>1, <1>3, <1>5, <1>6, <1>8, BookMoved DEF Inv
<1>10. RestLists(J, O, Q)'
  <2>1. \A b \in Agents : del'[b].rest = del[b].rest
    BY <1>1, <1>2
  <2> QED BY <1>3, <1>5, <1>7, <2>1, RestsElsewhere DEF Inv
<1>11. DelayedList(J, Q)'
  <2>1. At(J, "delayed") = At(K, "delayed") \cup {n} /\ n \notin At(K, "delayed")
    BY <1>3, <1>5 DEF At
  <2>2. next_[n] = backward_deleting_list_
    BY <1>1, <1>3 DEF DelayCas, Inv, InHands
  <2>3. \A m \in At(K, "delayed") : Q[m] = R[m] /\ next_'[m] = next_[m]
    BY <1>1, <1>6, <2>1 DEF At
  <2>4. IsList(At(K, "delayed") \cup {n}, Q, next_', n)
    BY <1>1, <1>4, <1>6, <2>1, <2>2, <2>3, ListPush DEF Inv, DelayedList
  <2>5. At(J, "delayed")' = At(J, "delayed")
    BY DEF At
  <2> QED BY <1>1, <1>3, <2>1, <2>4, <2>5 DEF DelayedList
<1>12. InHands(J, O)'
  <2>1. \A m \in Nodes : ~(J[m] = "hand" /\ O[m] = a)
    BY <1>1, <1>3, <1>5 DEF Inv, InHands
  <2>2. ASSUME NEW b \in Agents, b # a
        PROVE  /\ \A m \in Nodes : J[m] = "hand" /\ O[m] = b <=> del'[b].node = m
               /\ del'[b].pc = "cas" => next_'[del'[b].node] = del'[b].ori
    BY <1>1, <1>3, <1>5, <2>2 DEF Inv, InHands
  <2> QED BY <1>2, <2>1, <2>2, NullAssumption DEF InHands
<1> QED BY <1>8, <1>9, <1>10, <1>11, <1>12 DEF Inv, Beside

(* The first node of the part of a list that an agent has taken.               *)
LEMMA RestOfIs ==
  ASSUME Hypotheses, NEW K, NEW O, NEW R, RestLists(K, O, R), NEW a \in Agents, del[a].rest # NULL
  PROVE  del[a].rest \in Nodes /\ K[del[a].rest] = "rest" /\ O[del[a].rest] = a
<1>1. IsFiniteSet(Nodes) /\ IsList(RestOf(K, O, a), R, next_, del[a].rest)
  BY DEF RestLists, Hypotheses, FiniteSystem
<1>2. del[a].rest \in RestOf(K, O, a)
  BY <1>1, ListPop
<1> QED BY <1>2 DEF RestOf

(* An agent that takes the first of its nodes leaves a list of the others.     *)
LEMMA RestsPop ==
  ASSUME Hypotheses, NEW K, NEW O, NEW R, RestLists(K, O, R), NEW a \in Agents, del[a].rest # NULL,
         NEW J, J[del[a].rest] # "rest", \A m \in Nodes : m # del[a].rest => J[m] = K[m],
         next_' = next_, del'[a].rest = next_[del[a].rest],
         \A b \in Agents : b # a => del'[b].rest = del[b].rest
  PROVE  RestLists(J, O, R)'
<1>1. del[a].rest \in Nodes /\ K[del[a].rest] = "rest" /\ O[del[a].rest] = a
  BY RestOfIs
<1>2. IsFiniteSet(Nodes) /\ IsList(RestOf(K, O, a), R, next_, del[a].rest)
  BY DEF RestLists, Hypotheses, FiniteSystem
<1>3. IsList(RestOf(K, O, a) \ {del[a].rest}, R, next_, next_[del[a].rest])
  BY <1>2, ListPop
<1>4. RestOf(J, O, a) = RestOf(K, O, a) \ {del[a].rest}
  BY <1>1 DEF RestOf
<1>5. ASSUME NEW b \in Agents, b # a PROVE RestOf(J, O, b) = RestOf(K, O, b)
  BY <1>1, <1>5 DEF RestOf
<1>6. \A b \in Agents : IsList(RestOf(J, O, b), R, next_', del'[b].rest)
  BY <1>3, <1>4, <1>5 DEF RestLists
<1>7. \A b \in Agents : RestOf(J, O, b)' = RestOf(J, O, b)
  BY DEF RestOf
<1> QED BY <1>6, <1>7 DEF RestLists

(* _BackLoopDelete takes the next node of its list in hand.                   *)
LEMMA BackNextInv ==
  ASSUME Hypotheses, Typed, NEW K, NEW O, NEW R, Inv(K, O, R), NEW a, Deletes(a), BackNext(a)
  PROVE  \E J, P, Q : Inv(J, P, Q)'
<1>1. /\ del[a].pc = "next" /\ a \in Agents /\ del[a].node = NULL /\ del[a].rest # NULL
      /\ del'[a].pc = "scan" /\ del'[a].node = del[a].rest
      /\ del'[a].rest = next_[del[a].rest]
      /\ \A b \in Agents : b # a => del'[b] = del[b]
      /\ UNCHANGED <<allocated, next_, backward_deleting_list_>>
  BY DEF BackNext, NoDel, Deletes, Typed, Frames, Types, SanTypeOK
<1>2. PICK n \in Nodes : n = del[a].rest /\ K[n] = "rest" /\ O[n] = a
  <2>1. /\ del[a].rest \in Nodes /\ K[del[a].rest] = "rest" /\ O[del[a].rest] = a
    BY <1>1, RestOfIs DEF Inv
  <2> QED BY <2>1
<1>3. K \in [Nodes -> Kinds] /\ O \in [Nodes -> Agents] /\ R \in [Nodes -> Nat]
  BY DEF Inv, Book
<1>4. PICK J \in [Nodes -> Kinds] : J[n] = "hand" /\ \A m \in Nodes : m # n => J[m] = K[m]
  <2>1. "hand" \in Kinds
    BY DEF Kinds
  <2>2. K \in [Nodes -> Kinds]
    BY <1>3
  <2> QED BY <2>1, <2>2, MoveOne
<1>5. Elsewhere(K, O, R, J, O, R, n)
  BY <1>1, <1>4 DEF Elsewhere
<1>6. Beside(J, O, R)' /\ Emptied' /\ Deleted' = Deleted
  <2>1. Agree(K, O, R, J, O, R)
    BY <1>2, <1>4, <1>5, ElsewhereAgrees DEF InUse
  <2> QED BY <2>1, DeletionLeaves
<1>7. Book(J, O, R)'
  BY <1>1, <1>2, <1>3, <1>4, <1>6, BookMoved DEF Inv
<1>8. DelayedList(J, R)'
  BY <1>1, <1>2, <1>4, <1>5, DelayedElsewhere DEF Inv
<1>9. RestLists(J, O, R)'
  BY <1>1, <1>2, <1>4, RestsPop DEF Inv
<1>10. InHands(J, O)'
  <2>1. \A m \in Nodes : J[m] = "hand" /\ O[m] = a <=> m = n
    <3>1. \A m \in Nodes : ~(K[m] = "hand" /\ O[m] = a)
      BY <1>1, NullAssumption DEF Inv, InHands
    <3> QED BY <1>2, <1>4, <3>1
  <2>2. ASSUME NEW b \in Agents, b # a
        PROVE  /\ \A m \in Nodes : J[m] = "hand" /\ O[m] = b <=> del'[b].node = m
               /\ del'[b].pc = "cas" => next_'[del'[b].node] = del'[b].ori
    BY <1>1, <1>2, <1>4, <2>2 DEF Inv, InHands
  <2> QED BY <1>1, <1>2, <2>1, <2>2 DEF InHands
<1> QED BY <1>6, <1>7, <1>8, <1>9, <1>10 DEF Inv, Beside

(* The background thread has no node when a turn of its loop begins.           *)
LEMMA BackWakeInv ==
  ASSUME Hypotheses, Typed, NEW K, NEW O, NEW R, Inv(K, O, R),
         BackWake, UNCHANGED <<ends, size_, data, locals>>
  PROVE  Inv(K, O, R)'
<1>1. /\ del[Back].node = NULL /\ del[Back].rest = NULL /\ Back \in Agents
      /\ UNCHANGED <<allocated, next_, backward_deleting_list_>>
  BY BackAssumption, MainAssumption DEF BackWake, Typed, Frames, Agents
<1>2. /\ del'[Back].node = NULL /\ del'[Back].rest = NULL /\ del'[Back].pc = "exchange"
      /\ \A a \in Agents : a # Back => del'[a] = del[a]
  BY <1>1 DEF BackWake, NoDel, Typed, Types, SanTypeOK
<1>3. Deletes(Back)
  BY <1>1 DEF Deletes
<1> QED BY <1>1, <1>2, <1>3, HoldingInv

(* An agent with no nodes of its own takes all that are delayed.               *)
LEMMA TakeDelayed ==
  ASSUME Hypotheses, Typed, NEW K, NEW O, NEW R, Inv(K, O, R), NEW a \in Agents,
         del[a].rest = NULL, del[a].node = NULL,
         backward_deleting_list_' = NULL, del'[a].rest = backward_deleting_list_,
         del'[a].node = NULL, del'[a].pc \notin {"scan", "cas"},
         \A b \in Agents : b # a => del'[b] = del[b],
         UNCHANGED <<allocated, next_>>, Deleted' = Deleted
  PROVE  \E J, P, Q : /\ Book(J, P, Q)' /\ DelayedList(J, Q)' /\ RestLists(J, P, Q)' /\ InHands(J, P)'
                      /\ Agree(K, O, R, J, P, Q)
<1>1. /\ K \in [Nodes -> Kinds] /\ O \in [Nodes -> Agents] /\ R \in [Nodes -> Nat]
      /\ allocated = {n \in Nodes : K[n] # "free"} \ Deleted
  BY DEF Inv, Book
<1>2. \E J : J = [n \in Nodes |-> IF K[n] = "delayed" THEN "rest" ELSE K[n]]
  OBVIOUS
<1>3. PICK J : J = [n \in Nodes |-> IF K[n] = "delayed" THEN "rest" ELSE K[n]]
  BY <1>2
<1>4. PICK P : P = [n \in Nodes |-> IF K[n] = "delayed" THEN a ELSE O[n]]
  OBVIOUS
<1>5. /\ J \in [Nodes -> Kinds] /\ P \in [Nodes -> Agents]
      /\ \A n \in Nodes : K[n] = "delayed" => J[n] = "rest" /\ P[n] = a
      /\ \A n \in Nodes : K[n] # "delayed" => J[n] = K[n] /\ P[n] = O[n]
  BY <1>1, <1>3, <1>4 DEF Kinds
<1>6. Book(J, P, R)'
  BY <1>1, <1>5 DEF Book
<1>7. DelayedList(J, R)'
  <2>1. At(J, "delayed") = {}
    BY <1>5 DEF At
  <2>2. At(J, "delayed")' = At(J, "delayed")
    BY DEF At
  <2> QED BY <2>1, <2>2, ListNull DEF DelayedList
<1>8. RestLists(J, P, R)'
  <2>1. \A n \in Nodes : ~(K[n] = "rest" /\ O[n] = a)
    BY DEF Inv, RestLists, IsList, RestOf
  <2>2. RestOf(J, P, a) = At(K, "delayed")
    BY <1>5, <2>1 DEF RestOf, At
  <2>3. ASSUME NEW b \in Agents, b # a PROVE RestOf(J, P, b) = RestOf(K, O, b)
    BY <1>5, <2>3 DEF RestOf
  <2>4. \A b \in Agents : IsList(RestOf(J, P, b), R, next_', del'[b].rest)
    BY <2>2, <2>3 DEF Inv, RestLists, DelayedList
  <2>5. \A b \in Agents : RestOf(J, P, b)' = RestOf(J, P, b)
    BY DEF RestOf
  <2> QED BY <2>4, <2>5 DEF RestLists
<1>9. InHands(J, P)'
  <2>1. \A n \in Nodes : J[n] = "hand" <=> K[n] = "hand"
    BY <1>5
  <2>2. \A b \in Agents : del'[b].node = del[b].node /\ (del'[b].pc = "cas" => del'[b] = del[b])
    OBVIOUS
  <2> QED BY <1>5, <2>1, <2>2 DEF Inv, InHands
<1>10. Agree(K, O, R, J, P, R)
  BY <1>5 DEF Agree, InUse
<1> QED BY <1>6, <1>7, <1>8, <1>9, <1>10

(* _BackLoopDelete takes the whole delayed list.                              *)
LEMMA BackExchangeInv ==
  ASSUME Hypotheses, Typed, NEW K, NEW O, NEW R, Inv(K, O, R), NEW a, Deletes(a), BackExchange(a)
  PROVE  \E J, P, Q : Inv(J, P, Q)'
<1>1. /\ a \in Agents /\ del[a].rest = NULL /\ del[a].node = NULL /\ UNCHANGED <<allocated, next_>>
  BY DEF BackExchange, Deletes, Typed, Frames
<1>2. /\ backward_deleting_list_' = NULL /\ del'[a].rest = backward_deleting_list_
      /\ del'[a].node = NULL /\ del'[a].pc \notin {"scan", "cas"}
      /\ \A b \in Agents : b # a => del'[b] = del[b]
  BY <1>1 DEF BackExchange, NoDel, Typed, Types, SanTypeOK
<1>3. Deleted' = Deleted
  BY DEF Deletes, Deleted, ends, locals
<1>4. PICK J, P, Q : /\ Book(J, P, Q)' /\ DelayedList(J, Q)' /\ RestLists(J, P, Q)' /\ InHands(J, P)'
                     /\ Agree(K, O, R, J, P, Q)
  BY <1>1, <1>2, <1>3, TakeDelayed
<1>5. Beside(J, P, Q)' /\ Emptied'
  BY <1>4, DeletionLeaves
<1> QED BY <1>4, <1>5 DEF Inv, Beside

-----------------------------------------------------------------------------
(* The calls and the destructor.                                             *)

(* A step that only goes from where no Push or Pop holds anything to where    *)
(* none does.                                                                *)
LEMMA CallsKeep ==
  ASSUME Hypotheses, Typed, NEW K, NEW O, NEW R, Inv(K, O, R), Aside,
         UNCHANGED <<allocated, next_, backward_deleting_list_, del, head_, tail_, size_, data, use>>,
         pc'[Main] \in {"dtor_head"} \cup Gone => pc[Main] \in {"dtor_head"} \cup Gone,
         pc'[Main] \in Gone <=> pc[Main] \in Gone
  PROVE  Inv(K, O, R)'
<1>1. Agree(K, O, R, K, O, R)
  BY DEF Agree
<1>2. Beside(K, O, R)'
  BY <1>1, BesideKept
<1>3. Deleted' = Deleted
  BY DEF Deleted
<1>4. Nodewise(K, O, R)'
  BY <1>3, NodesSame DEF Inv, Nodewise
<1>5. Emptied'
  BY DEF Inv, Emptied
<1> QED BY <1>2, <1>4, <1>5 DEF Inv, Beside, Nodewise

(* A call begins.                                                             *)
LEMMA CallInv ==
  ASSUME Hypotheses, Typed, NEW K, NEW O, NEW R, Inv(K, O, R), NEW t \in Threads,
         PushCall(t) \/ PopCall(t)
  PROVE  Inv(K, O, R)'
<1>1. /\ pc[t] = "idle" /\ pc'[t] \in {"push_new", "pop_head"} /\ pc[Main] = "idle"
      /\ \A u \in Threads : u # t => pc'[u] = pc[u] /\ val'[u] = val[u]
      /\ UNCHANGED <<allocated, next_, backward_deleting_list_, del, head_, tail_, size_, data,
                     ori, new, h, tl, nxt, use>>
  BY DEF PushCall, PopCall, Goto, Set, sanVars, ends, program, Typed, Types
<1>2. pc'[Main] \notin {"dtor_head"} \cup Gone /\ pc[Main] \notin {"dtor_head"} \cup Gone
  BY <1>1, MainAssumption DEF Gone, Freeing
<1>3. Aside
  BY <1>1 DEF Aside, Resting
<1> QED BY <1>1, <1>2, <1>3, CallsKeep

(* The destructor begins.                                                     *)
LEMMA DestroyInv ==
  ASSUME Hypotheses, Typed, NEW K, NEW O, NEW R, Inv(K, O, R), Destroy
  PROVE  Inv(K, O, R)'
<1>1. /\ Main \in Threads /\ pc[Main] = "idle" /\ pc'[Main] = "dtor_loop"
      /\ \A u \in Threads : u # Main => pc'[u] = pc[u]
      /\ UNCHANGED <<allocated, next_, backward_deleting_list_, del, head_, tail_, size_, data,
                     val, ori, new, h, tl, nxt, use>>
  BY MainAssumption DEF Destroy, Goto, sanVars, ends, program, Typed, Types
<1>2. pc'[Main] \notin {"dtor_head"} \cup Gone /\ pc[Main] \notin {"dtor_head"} \cup Gone
  BY <1>1 DEF Gone, Freeing
<1>3. Aside
  BY <1>1 DEF Aside, Resting, DtorLabels
<1> QED BY <1>1, <1>2, <1>3, CallsKeep

(* A step of the destructor outside its Pops.                                 *)
LEMMA DtorMoves ==
  ASSUME Typed, NEW from \in DtorLabels, NEW to \in DtorLabels \cup {"pop_head"}, DtorStep(from, to)
  PROVE  /\ Main \in Threads /\ Main \in Agents /\ pc[Main] = from /\ pc'[Main] = to /\ Aside
         /\ UNCHANGED <<head_, tail_, size_, data, use>>
<1>1. /\ Main \in Threads /\ pc[Main] = from /\ pc'[Main] = to
      /\ \A u \in Threads : u # Main => pc'[u] = pc[u]
      /\ UNCHANGED <<head_, tail_, size_, data, val, ori, new, h, tl, nxt, use>>
  BY MainAssumption DEF DtorStep, Goto, ends, program, Typed, Types
<1>2. Aside
  BY <1>1 DEF Aside, Resting
<1> QED BY <1>1, <1>2 DEF Agents

(* Its steps that move no node.                                               *)
LEMMA DtorMovesInv ==
  ASSUME Hypotheses, Typed, NEW K, NEW O, NEW R, Inv(K, O, R),
         DtorLoop \/ DtorStop \/ DtorJoin \/ DtorEnd
  PROVE  Inv(K, O, R)'
<1>1. /\ UNCHANGED <<allocated, next_, backward_deleting_list_, del>>
      /\ \/ DtorStep("dtor_loop", "pop_head") \/ DtorStep("dtor_stop", "dtor_join")
         \/ DtorStep("dtor_stop", "dtor_exchange") \/ DtorStep("dtor_join", "dtor_exchange")
         \/ DtorStep("dtor_free", "destroyed")
  BY DEF DtorLoop, DtorStop, DtorJoin, DtorEnd, StopBack, JoinBack, sanVars
<1>2. /\ pc'[Main] \in {"dtor_head"} \cup Gone <=> pc[Main] \in {"dtor_head"} \cup Gone
      /\ pc'[Main] \in Gone <=> pc[Main] \in Gone
      /\ Aside /\ UNCHANGED <<head_, tail_, size_, data, use>>
  BY <1>1, DtorMoves DEF Gone, Freeing, DtorLabels
<1> QED BY <1>1, <1>2, CallsKeep

(* The destructor deletes the dummy, which is all that the list holds then.    *)
LEMMA DtorHeadInv ==
  ASSUME Hypotheses, Typed, NEW K, NEW O, NEW R, Inv(K, O, R), DtorHead
  PROVE  Inv(K, O, R)'
<1>1. /\ DtorStep("dtor_head", "dtor_stop") /\ allocated' = allocated \ {head_}
      /\ UNCHANGED <<next_, backward_deleting_list_, del>>
  BY DEF DtorHead
<1>2. /\ pc[Main] = "dtor_head" /\ pc'[Main] = "dtor_stop" /\ Aside
      /\ UNCHANGED <<head_, tail_, size_, data, use>>
  BY <1>1, DtorMoves DEF DtorLabels
<1>3. Beside(K, O, R)'
  <2>1. Agree(K, O, R, K, O, R)
    BY <1>1 DEF Agree
  <2> QED BY <1>2, <2>1, BesideKept
<1>4. Book(K, O, R)'
  <2>1. Deleted = {} /\ Deleted' = {head_}
    BY <1>2 DEF Deleted, Gone, Freeing
  <2> QED BY <1>1, <2>1 DEF Inv, Book
<1>5. DelayedList(K, R)' /\ RestLists(K, O, R)' /\ InHands(K, O)'
  BY <1>1 DEF Inv, DelayedList, RestLists, InHands, At, RestOf
<1>6. Emptied'
  BY <1>1, <1>2 DEF Inv, Emptied
<1> QED BY <1>3, <1>4, <1>5, <1>6 DEF Inv, Beside

(* The destructor takes the delayed nodes when its thread is in no deletion.   *)
LEMMA DtorTakeInv ==
  ASSUME Hypotheses, Typed, NEW K, NEW O, NEW R, Inv(K, O, R), DtorTake
  PROVE  \E J, P, Q : Inv(J, P, Q)'
<1>1. /\ Main \in Agents /\ pc[Main] = "dtor_exchange" /\ pc'[Main] = "dtor_free" /\ Aside
      /\ UNCHANGED <<head_, tail_, size_, data, use>> /\ UNCHANGED <<allocated, next_>>
  BY DtorMoves DEF DtorTake, DtorExchange, DtorLabels
<1>2. del[Main].rest = NULL /\ del[Main].node = NULL /\ del[Main].pc = "none"
  BY <1>1, MainAssumption DEF Typed, Frames
<1>3. /\ backward_deleting_list_' = NULL /\ del'[Main].rest = backward_deleting_list_
      /\ del'[Main].node = NULL /\ del'[Main].pc \notin {"scan", "cas"}
      /\ \A b \in Agents : b # Main => del'[b] = del[b]
  BY <1>1, <1>2 DEF DtorTake, DtorExchange, Typed, Types, SanTypeOK, Frame
<1>4. Deleted' = Deleted
  BY <1>1 DEF Deleted, Gone, Freeing
<1>5. PICK J, P, Q : /\ Book(J, P, Q)' /\ DelayedList(J, Q)' /\ RestLists(J, P, Q)' /\ InHands(J, P)'
                     /\ Agree(K, O, R, J, P, Q)
  BY <1>1, <1>2, <1>3, <1>4, TakeDelayed
<1>6. Beside(J, P, Q)'
  BY <1>1, <1>5, BesideKept
<1>7. Emptied'
  BY <1>1 DEF Inv, Emptied, Gone, Freeing
<1> QED BY <1>5, <1>6, <1>7 DEF Inv, Beside

(* The destructor deletes the first of its nodes.                             *)
LEMMA DtorDeleteInv ==
  ASSUME Hypotheses, Typed, NEW K, NEW O, NEW R, Inv(K, O, R), DtorDelete
  PROVE  \E J, P, Q : Inv(J, P, Q)'
<1>1. /\ Main \in Agents /\ pc[Main] = "dtor_free" /\ pc'[Main] = "dtor_free" /\ Aside
      /\ UNCHANGED <<head_, tail_, size_, data, use>>
      /\ del[Main].rest # NULL /\ allocated' = allocated \ {del[Main].rest}
      /\ UNCHANGED <<next_, backward_deleting_list_>>
  BY DtorMoves DEF DtorDelete, DtorFree, DtorLabels
<1>2. /\ del'[Main].rest = next_[del[Main].rest] /\ del'[Main].node = del[Main].node
      /\ del'[Main].pc = del[Main].pc /\ del[Main].pc = "none"
      /\ \A b \in Agents : b # Main => del'[b] = del[b]
  BY <1>1, MainAssumption DEF DtorDelete, DtorFree, Typed, Frames, Types, SanTypeOK, Frame
<1>3. PICK n \in Nodes : n = del[Main].rest /\ K[n] = "rest" /\ O[n] = Main
  <2>1. /\ del[Main].rest \in Nodes /\ K[del[Main].rest] = "rest" /\ O[del[Main].rest] = Main
    BY <1>1, RestOfIs DEF Inv
  <2> QED BY <2>1
<1>4. K \in [Nodes -> Kinds] /\ O \in [Nodes -> Agents] /\ R \in [Nodes -> Nat]
  BY DEF Inv, Book
<1>5. PICK J \in [Nodes -> Kinds] : J[n] = "free" /\ \A m \in Nodes : m # n => J[m] = K[m]
  <2>1. "free" \in Kinds
    BY DEF Kinds
  <2>2. K \in [Nodes -> Kinds]
    BY <1>4
  <2> QED BY <2>1, <2>2, MoveOne
<1>6. Elsewhere(K, O, R, J, O, R, n)
  BY <1>1, <1>5 DEF Elsewhere
<1>7. Beside(J, O, R)'
  <2>1. Agree(K, O, R, J, O, R)
    BY <1>3, <1>5, <1>6, ElsewhereAgrees DEF InUse
  <2> QED BY <1>1, <2>1, BesideKept
<1>8. Book(J, O, R)'
  <2>1. Deleted' = Deleted
    BY <1>1 DEF Deleted
  <2>2. allocated' = {m \in Nodes : J[m] # "free"} \ Deleted
    BY <1>1, <1>3, <1>5 DEF Inv, Book
  <2> QED BY <1>4, <2>1, <2>2 DEF Book
<1>9. DelayedList(J, R)'
  BY <1>1, <1>3, <1>5, <1>6, DelayedElsewhere DEF Inv
<1>10. RestLists(J, O, R)'
  <2>1. \A b \in Agents : b # Main => del'[b].rest = del[b].rest
    BY <1>2
  <2> QED BY <1>1, <1>2, <1>3, <1>5, <2>1, RestsPop DEF Inv
<1>11. InHands(J, O)'
  <2>1. \A b \in Agents : del'[b].node = del[b].node /\ (del'[b].pc = "cas" => del'[b] = del[b])
    BY <1>2
  <2> QED BY <1>1, <1>3, <1>5, <2>1 DEF Inv, InHands
<1>12. Emptied'
  BY <1>1 DEF Inv, Emptied
<1> QED BY <1>7, <1>8, <1>9, <1>10, <1>11, <1>12 DEF Inv, Beside

-----------------------------------------------------------------------------
(* The invariant.                                                            *)

(* At first all nodes are free but the dummy.                                 *)
LEMMA InitInv ==
  ASSUME Hypotheses, Init
  PROVE  \E K, O, R : Inv(K, O, R)
<1>1. PICK n : n = FirstDummy
  OBVIOUS
<1>2. n \in Nodes
  BY <1>1 DEF FirstDummy, Hypotheses, FiniteSystem
<1>3. /\ \A t \in Threads : pc[t] = "idle"
      /\ \A a \in Agents : del[a] = NoDel
      /\ allocated = {n} /\ head_ = n /\ tail_ = n /\ backward_deleting_list_ = NULL /\ size_ = 0
      /\ next_ = [m \in Nodes |-> NULL] /\ Main \in Agents
  BY <1>1, MainAssumption DEF Init, Agents
<1>4. PICK K \in [Nodes -> Kinds] : K = [m \in Nodes |-> IF m = n THEN "list" ELSE "free"]
  BY DEF Kinds
<1>5. PICK O \in [Nodes -> Agents] : O = [m \in Nodes |-> Main]
  BY <1>3
<1>6. PICK R \in [Nodes -> Nat] : R = [m \in Nodes |-> 1]
  OBVIOUS
<1>7. /\ K[n] = "list" /\ \A m \in Nodes : m # n => K[m] = "free"
      /\ next_[n] = NULL /\ R[n] = 1
  BY <1>2, <1>3, <1>4, <1>6
<1>8. Book(K, O, R)
  <2>1. Deleted = {}
    BY <1>3, MainAssumption DEF Deleted, Gone, Freeing
  <2> QED BY <1>2, <1>3, <1>7, <2>1 DEF Book
<1>9. At(K, "list") = {n} /\ At(K, "delayed") = {} /\ \A a : RestOf(K, O, a) = {}
  BY <1>2, <1>7 DEF At, RestOf
<1>10. QueueList(K, R)
  <2>1. Cardinality({n}) = 1
    BY FS_Singleton
  <2>2. IsList({n}, R, next_, n)
    BY <1>2, <1>7, <2>1, NullAssumption DEF IsList
  <2> QED BY <1>3, <1>7, <1>9, <2>2 DEF QueueList
<1>11. DelayedList(K, R) /\ RestLists(K, O, R)
  <2>1. DelayedList(K, R)
    BY <1>3, <1>9, ListNull DEF DelayedList
  <2>2. RestLists(K, O, R)
    <3>1. \A a \in Agents : del[a].rest = NULL /\ RestOf(K, O, a) = {}
      BY <1>3, <1>9 DEF NoDel
    <3>2. IsList({}, R, next_, NULL)
      BY ListNull
    <3> QED BY <3>1, <3>2 DEF RestLists
  <2> QED BY <2>1, <2>2
<1>12. Fresh(K, O) /\ Popped(K, O)
  BY <1>3, <1>7 DEF Fresh, Popped, Unlinked, PushLabels, Limbo
<1>13. Behind /\ Producing(K, R) /\ Popping
  BY <1>3, <1>7 DEF Behind, Producing, Popping, Linking, Found
<1>14. Filled(K) /\ Emptied
  BY <1>3, <1>7 DEF Filled, Emptied
<1>15. InHands(K, O)
  <2>1. \A m \in Nodes : K[m] # "hand" /\ m # NULL
    BY <1>7, NullAssumption
  <2> QED BY <1>3, <2>1 DEF InHands, NoDel
<1>16. Counted(K)
  <2>1. Adding = {} /\ Taking = {}
    BY <1>3 DEF Adding, Taking
  <2>2. Cardinality(At(K, "list")) = 1 /\ Cardinality(Adding) = 0 /\ Cardinality(Taking) = 0
    BY <1>9, <2>1, FS_EmptySet, FS_Singleton
  <2>3. Rem(0, SizeMod) = 0
    BY SizeModAssumption, RemIs
  <2> QED BY <1>3, <2>2, <2>3 DEF Counted, Rem
<1> QED BY <1>8, <1>10, <1>11, <1>12, <1>13, <1>14, <1>15, <1>16 DEF Inv

(* Nothing changes when no variable does.                                     *)
LEMMA StutterInv ==
  ASSUME Hypotheses, Typed, NEW K, NEW O, NEW R, Inv(K, O, R), UNCHANGED vars
  PROVE  Inv(K, O, R)'
<1>1. UNCHANGED <<allocated, next_, backward_deleting_list_, del, head_, tail_, size_, data,
                  pc, val, ori, new, h, tl, nxt, use>>
  BY DEF vars, sanVars, ends, locals, program
<1>2. Aside
  BY <1>1 DEF Aside
<1> QED BY <1>1, <1>2, CallsKeep

(* The steps of a deletion.                                                   *)
LEMMA DeleteInv ==
  ASSUME Hypotheses, Typed, NEW K, NEW O, NEW R, Inv(K, O, R), NEW a \in Agents,
         a = Back \/ pc[a] = "pop_return", Deletion(a)
  PROVE  \E J, P, Q : Inv(J, P, Q)'
<1>1. Deletes(a)
  BY DEF Deletes, Deletion
<1>2. CASE ScanMiss(a) \/ ScanHit(a) \/ DelayLoad(a)
  BY <1>1, <1>2, HoldInv
<1>3. CASE ImmediateDelete(a)
  BY <1>1, <1>3, ImmediateDeleteInv
<1>4. CASE DelayLink(a)
  BY <1>1, <1>4, DelayLinkInv
<1>5. CASE DelayCas(a)
  <2>1. CASE backward_deleting_list_ = del[a].ori
    BY <1>1, <1>5, <2>1, DelayCasOkInv
  <2>2. CASE backward_deleting_list_ # del[a].ori
    BY <1>1, <1>5, <2>2, HoldInv
  <2> QED BY <2>1, <2>2
<1>6. CASE BackExchange(a)
  BY <1>1, <1>6, BackExchangeInv
<1>7. CASE BackNext(a)
  BY <1>1, <1>7, BackNextInv
<1> QED BY <1>2, <1>3, <1>4, <1>5, <1>6, <1>7 DEF Deletion, DeleteStep

(* A thread goes on to make the node it has found the dummy.                  *)
LEMMA FoundNext ==
  ASSUME Hypotheses, Typed, NEW K, NEW O, NEW R, Inv(K, O, R), NEW t \in Threads,
         pc[t] \in {"pop_cas", "pop_swap"}
  PROVE  nxt[t] # NULL
<1>1. CASE pc[t] = "pop_swap"
  BY <1>1, EndsOf DEF Inv, Popping
<1>2. CASE pc[t] = "pop_cas"
  <2>1. nxt[t] = next_[head_] /\ tail_ # head_
    BY <1>2 DEF Inv, Popping, Found
  <2>2. /\ R[tail_] \in Nat /\ R[tail_] >= 1 /\ R[tail_] <= R[head_] /\ R[head_] \in Nat
        /\ R[tail_] # R[head_]
    BY <2>1, EndsOf DEF Inv
  <2>3. R[head_] # 1
    BY <2>2
  <2>4. head_ \in Nodes /\ K[head_] = "list"
    BY EndsOf DEF Inv
  <2> QED BY <2>1, <2>3, <2>4, EndsOf DEF Inv
<1> QED BY <1>1, <1>2

(* The steps of a thread keep the types and the invariant.                    *)
LEMMA StepTyped ==
  ASSUME Hypotheses, Typed, NEW K, NEW O, NEW R, Inv(K, O, R), NEW t \in Threads, Call(t) \/ Step(t)
  PROVE  Typed'
<1>1. CASE Call(t)
  BY <1>1, PushCallTyped, PopCallTyped DEF Call
<1>2. CASE PushNew(t) \/ PushLoad(t) \/ PushAccess(t) \/ PushRecheck(t) \/ PushNext(t)
  BY <1>2, PushNewTyped, PushLoadTyped, PushAccessTyped, PushRecheckTyped, PushNextTyped
<1>3. CASE PushHelp(t) \/ PushAppend(t) \/ PushSwing(t) \/ PushSize(t)
  BY <1>3, PushHelpTyped, PushAppendTyped, PushSwingTyped, PushSizeTyped
<1>4. CASE PopHead(t) \/ PopTail(t) \/ PopNext(t) \/ PopHelp(t)
  BY <1>4, PopHeadTyped, PopTailTyped, PopNextTyped, PopHelpTyped
<1>5. CASE PopAccessHead(t) \/ PopAccessNext(t)
  BY <1>5, PopAccessHeadTyped, PopAccessNextTyped
<1>6. CASE PopCas(t) \/ PopSwap(t)
  <2>1. pc[t] \in {"pop_cas", "pop_swap"}
    BY <1>6 DEF PopCas, PopSwap
  <2>2. nxt[t] # NULL
    BY <2>1, FoundNext
  <2> QED BY <1>6, <2>2, PopCasTyped, PopSwapTyped
<1>7. CASE PopSize(t) \/ PopReset(t) \/ PopRelease(t) \/ PopReturn(t)
  BY <1>7, PopSizeTyped, PopResetTyped, PopReleaseTyped, PopReturnTyped
<1>8. CASE Deletion(t)
  <2>1. t \in Agents /\ pc[t] = "pop_return"
    BY <1>8, DeletingThread DEF Deletion, Agents
  <2> QED BY <1>8, <2>1, DeleteTyped DEF Deletion
<1> QED BY <1>1, <1>2, <1>3, <1>4, <1>5, <1>6, <1>7, <1>8 DEF Step

(* The steps of a thread.                                                     *)
LEMMA StepInv ==
  ASSUME Hypotheses, Typed, NEW K, NEW O, NEW R, Inv(K, O, R), NEW t \in Threads, Call(t) \/ Step(t)
  PROVE  \E J, P, Q : Inv(J, P, Q)'
<1>1. CASE Call(t)
  BY <1>1, CallInv DEF Call
<1>2. CASE PushNew(t) \/ PushLoad(t) \/ PushAccess(t)
  BY <1>2, PushNewInv, PushLoadInv, PushAccessInv
<1>3. CASE PushRecheck(t) \/ PushNext(t)
  BY <1>3, PushRecheckAgainInv, PushRecheckFoundInv, PushNextBehindInv, PushNextLastInv
<1>4. CASE PushAppend(t)
  BY <1>4, PushAppendOkInv, PushAppendFailsInv
<1>5. CASE PushHelp(t) \/ PushSwing(t) \/ PushSize(t)
  BY <1>5, PushHelpInv, PushSwingInv, PushSizeInv
<1>6. CASE PopHead(t) \/ PopTail(t) \/ PopHelp(t)
  BY <1>6, PopHeadInv, PopTailInv, PopHelpInv
<1>7. CASE PopNext(t)
  BY <1>7, PopNextEmptyInv, PopNextBehindInv, PopNextFoundInv
<1>8. CASE PopAccessHead(t) \/ PopAccessNext(t) \/ PopCas(t)
  BY <1>8, PopAccessHeadInv, PopAccessNextInv, PopCasInv
<1>9. CASE PopSwap(t) \/ PopSize(t) \/ PopReset(t) \/ PopRelease(t) \/ PopReturn(t)
  BY <1>9, PopSwapInv, PopSizeInv, PopResetInv, PopReleaseInv, PopReturnInv
<1>10. CASE Deletion(t)
  <2>1. t \in Agents /\ pc[t] = "pop_return"
    BY <1>10, DeletingThread DEF Deletion, Agents
  <2> QED BY <1>10, <2>1, DeleteInv
<1> QED BY <1>1, <1>2, <1>3, <1>4, <1>5, <1>6, <1>7, <1>8, <1>9, <1>10 DEF Step

(* All steps keep the types.                                                  *)
LEMMA NextTyped ==
  ASSUME Hypotheses, Typed, NEW K, NEW O, NEW R, Inv(K, O, R), [Next]_vars
  PROVE  Typed'
<1>1. CASE \E t \in Threads : Call(t) \/ Step(t)
  BY <1>1, StepTyped
<1>2. CASE BackStep
  <2>1. Back \in Agents
    BY DEF Agents
  <2> QED BY <1>2, <2>1, BackWakeTyped, DeleteTyped DEF BackStep, Deletion
<1>3. CASE Destroy \/ Destructor
  BY <1>3, DestroyTyped, DtorLoopTyped, DtorHeadTyped, DtorStopTyped, DtorJoinTyped, DtorTakeTyped,
     DtorDeleteTyped, DtorEndTyped DEF Destructor
<1>4. CASE UNCHANGED vars
  BY <1>4, StutterTyped
<1> QED BY <1>1, <1>2, <1>3, <1>4 DEF Next

(* After each step there are new places, owners and ranks.                    *)
LEMMA NextInv ==
  ASSUME Hypotheses, Typed, NEW K, NEW O, NEW R, Inv(K, O, R), [Next]_vars
  PROVE  \E J, P, Q : Inv(J, P, Q)'
<1>1. CASE \E t \in Threads : Call(t) \/ Step(t)
  BY <1>1, StepInv
<1>2. CASE BackStep
  <2>1. Back \in Agents
    BY DEF Agents
  <2> QED BY <1>2, <2>1, BackWakeInv, DeleteInv DEF BackStep
<1>3. CASE Destroy
  BY <1>3, DestroyInv
<1>4. CASE DtorLoop \/ DtorStop \/ DtorJoin \/ DtorEnd
  BY <1>4, DtorMovesInv
<1>5. CASE DtorHead \/ DtorTake \/ DtorDelete
  BY <1>5, DtorHeadInv, DtorTakeInv, DtorDeleteInv
<1>6. CASE UNCHANGED vars
  BY <1>6, StutterInv
<1> QED BY <1>1, <1>2, <1>3, <1>4, <1>5, <1>6 DEF Next, Destructor

(* Every reachable state has the invariant.                                  *)
THEOREM Inductive == ASSUME Hypotheses PROVE Spec => []IInv
<1>1. Init => IInv
  BY TypedInit, InitInv DEF IInv
<1>2. IInv /\ [Next]_vars => IInv'
  <2> SUFFICES ASSUME Typed, NEW K, NEW O, NEW R, Inv(K, O, R), [Next]_vars PROVE IInv'
    BY DEF IInv
  <2>1. Typed'
    BY NextTyped
  <2>2. \E J, P, Q : Inv(J, P, Q)'
    BY NextInv
  <2> QED BY <2>1, <2>2 DEF IInv
<1> QED BY <1>1, <1>2, PTL DEF Spec

-----------------------------------------------------------------------------
(* What follows from it.                                                     *)

(* The lists of the invariant are what the pointers reach.                    *)
LEMMA Reached ==
  ASSUME Hypotheses, Typed, NEW K, NEW O, NEW R, Inv(K, O, R)
  PROVE  /\ Chain(head_) = At(K, "list") /\ Chain(backward_deleting_list_) = At(K, "delayed")
         /\ \A a \in Agents : Chain(del[a].rest) = RestOf(K, O, a)
         /\ \A a \in Agents : \A n \in InHand(a) : n \in Nodes /\ K[n] = "hand" /\ O[n] = a
<1>1. /\ next_ \in [Nodes -> Ptr] /\ IsFiniteSet(Nodes)
      /\ head_ \in Ptr /\ backward_deleting_list_ \in Ptr
      /\ \A a \in Agents : del[a].rest \in Ptr
  BY DEF Typed, Types, SanTypeOK, Ptr, Hypotheses, FiniteSystem, Frame
<1>2. Chain(head_) = At(K, "list")
  BY <1>1, ChainIsList DEF Inv, QueueList
<1>3. Chain(backward_deleting_list_) = At(K, "delayed")
  BY <1>1, ChainIsList DEF Inv, DelayedList
<1>4. ASSUME NEW a \in Agents PROVE Chain(del[a].rest) = RestOf(K, O, a)
  <2>1. IsList(RestOf(K, O, a), R, next_, del[a].rest)
    BY DEF Inv, RestLists
  <2> QED BY <1>1, <2>1, ChainIsList
<1>5. ASSUME NEW a \in Agents, NEW n \in InHand(a) PROVE n \in Nodes /\ K[n] = "hand" /\ O[n] = a
  BY HandOf DEF Inv, InHand
<1> QED BY <1>2, <1>3, <1>4, <1>5

(* The node that a thread follows has a place of its own, and that is not     *)
(* free.                                                                      *)
LEMMA InvNoUse ==
  ASSUME Hypotheses, Typed, NEW K, NEW O, NEW R, Inv(K, O, R)
  PROVE  NoUseAfterFree
<1>1. /\ allocated = {n \in Nodes : K[n] # "free"} \ Deleted
      /\ head_ \in Nodes /\ K[head_] = "list"
  BY EndsOf DEF Inv, Book
<1>2. \A n \in Nodes : K[n] \notin {"free", "list"} => n \in allocated
  BY <1>1 DEF Deleted
<1>3. \A n \in Nodes : pc[Main] \notin Gone /\ K[n] # "free" => n \in allocated
  BY <1>1 DEF Deleted
<1>4. ASSUME NEW a \in Agents, del[a].rest # NULL PROVE del[a].rest \in allocated
  <2>1. RestLists(K, O, R)
    BY DEF Inv
  <2> QED BY <1>2, <1>4, <2>1, RestOfIs
<1>5. ASSUME NEW a \in Agents, del[a].node # NULL PROVE del[a].node \in allocated
  BY <1>2, <1>5, HandOf DEF Inv
<1>6. ASSUME NEW t \in Threads, pc[t] \in PushLabels \cup PopLabels PROVE pc[Main] \notin Gone
  BY <1>6 DEF Typed, Roles, Gone, Freeing, PushLabels, PopLabels
<1>7. ASSUME NEW t \in Threads PROVE Touches(t) \subseteq allocated
  <2>1. CASE pc[t] \in {"push_next", "push_append"}
    <3>1. ori[t] \in Nodes /\ K[ori[t]] = "list" /\ pc[Main] \notin Gone
      BY <1>6, <2>1, PushHolds DEF Inv, Linking, PushLabels
    <3> QED BY <1>3, <2>1, <3>1 DEF Touches
  <2>2. CASE pc[t] = "pop_next"
    <3>1. h[t] = head_ /\ pc[Main] \notin Gone
      BY <1>6, <2>2 DEF Inv, Popping, PopLabels
    <3> QED BY <1>1, <1>3, <2>2, <3>1 DEF Touches
  <2>3. CASE pc[t] = "pop_swap"
    <3>1. nxt[t] = head_ /\ pc[Main] \notin Gone
      BY <1>6, <2>3 DEF Inv, Popping, PopLabels
    <3> QED BY <1>1, <1>3, <2>3, <3>1 DEF Touches
  <2>4. CASE pc[t] = "dtor_head"
    <3>1. pc[Main] \notin Gone
      BY <2>4 DEF Typed, Roles, DtorLabels, Gone, Freeing
    <3> QED BY <1>1, <1>3, <2>4, <3>1 DEF Touches
  <2>5. CASE pc[t] = "dtor_free"
    <3>1. t \in Agents
      BY DEF Agents
    <3> QED BY <1>4, <2>5, <3>1 DEF Touches
  <2>6. CASE pc[t] \notin {"push_next", "push_append", "pop_next", "pop_swap", "dtor_head", "dtor_free"}
    BY <2>6 DEF Touches
  <2> QED BY <2>1, <2>2, <2>3, <2>4, <2>5, <2>6
<1>8. ASSUME NEW a \in Agents PROVE DeleteTouches(a) \subseteq allocated
  <2>1. CASE del[a].pc = "scan" \/ del[a].pc = "link"
    <3>1. del[a].node \in allocated
      BY <1>5, <2>1 DEF Typed, Frames
    <3> QED BY <2>1, <3>1 DEF DeleteTouches
  <2>2. CASE del[a].pc = "next"
    <3>1. del[a].rest \in allocated
      BY <1>4, <2>2 DEF Typed, Frames
    <3> QED BY <2>2, <3>1 DEF DeleteTouches
  <2>3. CASE del[a].pc \notin {"scan", "link", "next"}
    BY <2>3 DEF DeleteTouches
  <2> QED BY <2>1, <2>2, <2>3
<1> QED BY <1>7, <1>8 DEF NoUseAfterFree

(* Different places hold different nodes.                                     *)
LEMMA InvOnce ==
  ASSUME Hypotheses, Typed, NEW K, NEW O, NEW R, Inv(K, O, R)
  PROVE  RetiredOnce
<1>1. ASSUME NEW n \in Chain(backward_deleting_list_) PROVE n \in Nodes /\ K[n] = "delayed"
  BY Reached DEF At
<1>2. ASSUME NEW a \in Agents, NEW n \in InHand(a) PROVE n \in Nodes /\ K[n] = "hand" /\ O[n] = a
  BY Reached
<1>3. ASSUME NEW a \in Agents, NEW n \in Chain(del[a].rest) PROVE n \in Nodes /\ K[n] = "rest" /\ O[n] = a
  <2>1. n \in RestOf(K, O, a)
    BY Reached
  <2> QED BY <2>1 DEF RestOf
<1>4. ASSUME NEW a \in Agents, NEW n \in InHand(a) \cup Chain(del[a].rest)
      PROVE  n \in Nodes /\ K[n] # "delayed" /\ O[n] = a
  BY <1>2, <1>3
<1>5. \A a \in Agents : \A n \in InHand(a) \cup Chain(del[a].rest) : n \notin Chain(backward_deleting_list_)
  BY <1>1, <1>4
<1>6. \A a \in Agents : \A n \in InHand(a) : n \notin Chain(del[a].rest)
  BY <1>2, <1>3
<1>7. \A a, b \in Agents : a # b => \A n \in InHand(a) \cup Chain(del[a].rest) : n \notin InHand(b) \cup Chain(del[b].rest)
  BY <1>4
<1> QED BY <1>5, <1>6, <1>7 DEF RetiredOnce

(* At the end of the destructor each place is empty: nobody is in a call, the *)
(* queue was emptied by its loop, the dummy deleted, and the lists emptied by *)
(* the background thread and the final deletions.                             *)
LEMMA InvEmpty ==
  ASSUME Hypotheses, Typed, NEW K, NEW O, NEW R, Inv(K, O, R)
  PROVE  NothingLeaks
<1> SUFFICES ASSUME pc[Main] = "destroyed", NEW n \in Nodes PROVE K[n] = "free" \/ n \in Deleted
  BY DEF NothingLeaks, Inv, Book
<1>1. \A t \in Threads : t # Main => pc[t] = "idle"
  BY DEF Typed, Roles
<1>2. /\ Deleted = {head_} /\ next_[head_] = NULL /\ backward_deleting_list_ = NULL
      /\ ~isBackSanitizer_
  BY DEF Typed, Phases, Inv, Emptied, Deleted, Gone, Freeing
<1>3. \A a \in Agents : del[a].pc = "none"
  <2>1. del[Back].pc = "none"
    BY <1>2 DEF Typed, Phases
  <2>2. \A t \in Threads : pc[t] # "pop_return"
    BY <1>1
  <2> QED BY <2>1, <2>2 DEF Agents, Typed, Frames
<1>4. \A a \in Agents : del[a].node = NULL /\ del[a].rest = NULL
  <2>1. \A a \in Agents : del[a].node = NULL
    BY <1>3 DEF Typed, Frames
  <2>2. \A a \in Agents : ~del[a].loop
    BY <1>3 DEF Typed, Frames
  <2>3. \A a \in Agents : del[a].rest # NULL => FALSE
    BY <2>2 DEF Typed, Frames
  <2> QED BY <2>1, <2>3
<1>5. K[n] = "list" => n = head_
  <2>1. head_ \in Nodes /\ K[head_] = "list" /\ R[head_] = 1
    BY <1>2, EndsOf DEF Inv
  <2>2. K[n] = "list" => R[n] = R[head_]
    BY <2>1, EndsOf DEF Inv
  <2> QED BY <2>1, <2>2, EndsOf DEF Inv
<1>6. K[n] # "delayed"
  BY <1>2 DEF Inv, DelayedList, IsList, At
<1>7. K[n] # "rest"
  <2>1. O[n] \in Agents
    BY DEF Inv, Book
  <2>2. IsList(RestOf(K, O, O[n]), R, next_, NULL)
    BY <1>4, <2>1 DEF Inv, RestLists
  <2>3. RestOf(K, O, O[n]) = {}
    BY <2>2 DEF IsList
  <2> QED BY <2>3 DEF RestOf
<1>8. K[n] # "hand"
  BY <1>4, NullAssumption DEF Inv, Book, InHands
<1>9. K[n] # "new" /\ K[n] # "limbo"
  BY <1>1 DEF Inv, Fresh, Popped, Limbo, Unlinked, PushLabels
<1> QED BY <1>2, <1>5, <1>6, <1>7, <1>8, <1>9 DEF Inv, Book, Kinds

(* The nodes of the list are allocated and nowhere else, and the tail is the  *)
(* last of them or the one before.                                            *)
LEMMA InvTail ==
  ASSUME Hypotheses, Typed, NEW K, NEW O, NEW R, Inv(K, O, R)
  PROVE  TailInList
<1> SUFFICES ASSUME pc[Main] \notin Gone
             PROVE  /\ Chain(head_) \subseteq allocated
                    /\ \A n \in Chain(head_) : n \notin Retired
                    /\ tail_ \in Chain(head_) /\ (next_[tail_] # NULL => next_[next_[tail_]] = NULL)
  BY DEF TailInList, Gone, Freeing
<1>1. \A n : n \in Chain(head_) <=> n \in Nodes /\ K[n] = "list"
  BY Reached DEF At
<1>2. ASSUME NEW n \in Retired PROVE K[n] # "list"
  <2>1. CASE n \in Chain(backward_deleting_list_)
    BY <2>1, Reached DEF At
  <2>2. ASSUME NEW a \in Agents, n \in InHand(a) PROVE K[n] # "list"
    BY <2>2, Reached
  <2>3. ASSUME NEW a \in Agents, n \in Chain(del[a].rest) PROVE K[n] # "list"
    <3>1. n \in RestOf(K, O, a)
      BY <2>3, Reached
    <3> QED BY <3>1 DEF RestOf
  <2> QED BY <2>1, <2>2, <2>3 DEF Retired
<1>3. Chain(head_) \subseteq allocated
  BY <1>1 DEF Inv, Book, Deleted
<1>4. tail_ \in Nodes /\ K[tail_] = "list" /\ R[tail_] \in {1, 2}
  BY EndsOf DEF Inv, QueueList
<1>5. ASSUME next_[tail_] # NULL PROVE next_[next_[tail_]] = NULL
  <2>1. /\ R[tail_] = 2 /\ next_[tail_] \in Nodes /\ K[next_[tail_]] = "list"
        /\ R[next_[tail_]] = R[tail_] - 1
    BY <1>4, <1>5, EndsOf DEF Inv
  <2> QED BY <2>1, EndsOf DEF Inv
<1> QED BY <1>1, <1>2, <1>3, <1>4, <1>5

(* The list of the invariant is the one that size_ counts.                    *)
LEMMA InvSize ==
  ASSUME Hypotheses, Typed, NEW K, NEW O, NEW R, Inv(K, O, R)
  PROVE  SizeAccounts
<1>1. Counted(K) /\ Chain(head_) = At(K, "list")
  BY Reached DEF Inv
<1> QED BY <1>1 DEF SizeAccounts, Counted, Adding, Taking

(* No thread follows a pointer to a node that has been deleted, and no node   *)
(* is retired in two places: with one consumer nobody but the Pop that has    *)
(* unlinked a node can still reach it (Concurrent.hpp, Pop), and the node     *)
(* behind which a Push appends is still in the queue.  The destructor leaves  *)
(* no node, the dummy included.                                              *)
THEOREM MemoryIsSafe == ASSUME Hypotheses PROVE Spec => []MemorySafe
<1>1. IInv => MemorySafe
  BY InvNoUse, InvOnce, InvEmpty DEF IInv, MemorySafe
<1> QED BY <1>1, Inductive, PTL

(* The nodes of the queue are allocated and not retired, the tail is the last *)
(* of them or the one before it, and size_ counts them but for the operations *)
(* that have not yet reached their fetch_add or fetch_sub.                    *)
THEOREM QueueKeepsShape == ASSUME Hypotheses PROVE Spec => []QueueShape
<1>1. IInv => QueueShape
  <2>1. Types => TypeOK
    BY TypesAre
  <2> QED BY <2>1, InvTail, InvSize DEF IInv, Typed, QueueShape
<1> QED BY <1>1, Inductive, PTL

(* A Push appends behind a node of the queue where only one thread appends    *)
(* while another pops: what "it means the new_node_ptr has been successfully  *)
(* appended" (Concurrent.hpp:251) needs, and the run queue_lost_push shows    *)
(* that two producers beside a consumer break it.                            *)
THEOREM OneProducerAppends == ASSUME Hypotheses PROVE Spec => AppendedToQueue
<1>1. ASSUME Typed, NEW K, NEW O, NEW R, Inv(K, O, R), NEW t \in Threads, pc[t] = "push_append"
      PROVE  ori[t] \in Chain(head_)
  <2>1. ori[t] \in Nodes /\ K[ori[t]] = "list"
    BY <1>1, PushHolds DEF Inv, Linking
  <2> QED BY <1>1, <2>1, Reached DEF At
<1>2. IInv => [\A t \in Threads :
                 pc[t] = "push_append" /\ pc'[t] = "push_swing" => ori[t] \in Chain(head_)]_vars
  BY <1>1 DEF IInv
<1> QED BY <1>2, Inductive, PTL DEF AppendedToQueue

-----------------------------------------------------------------------------
(* What Contents computes.                                                   *)

(* Contents of the list that starts at first.                                    *)
ContentsOf(nx, d, first) ==
  LET walk[k \in 0 .. Cardinality(Nodes)] ==
        [n \in Ptr |-> IF n = NULL \/ k = 0 THEN <<>> ELSE <<d[n]>> \o walk[k - 1][nx[n]]]
  IN walk[Cardinality(Nodes)][first]

(* Its recursion, to the depth N.                                            *)
Walks(g, N, nx, d) ==
  g = [k \in 0 .. N |-> [n \in Ptr |->
         IF n = NULL \/ k = 0 THEN <<>> ELSE <<d[n]>> \o g[k - 1][nx[n]]]]

(* One more level can always be added.                                       *)
LEMMA WalkMore ==
  ASSUME NEW N \in Nat, NEW nx \in [Nodes -> Ptr], NEW d, NEW g, Walks(g, N, nx, d)
  PROVE  \E first : Walks(first, N + 1, nx, d)
<1>1. PICK first : first = [k \in 0 .. (N+1) |-> [n \in Ptr |->
                     IF n = NULL \/ k = 0 THEN <<>> ELSE <<d[n]>> \o g[k - 1][nx[n]]]]
  OBVIOUS
<1>2. \A k \in 0..N : g[k] = [n \in Ptr |->
                     IF n = NULL \/ k = 0 THEN <<>> ELSE <<d[n]>> \o g[k - 1][nx[n]]]
  BY DEF Walks
<1>3. \A k \in 0..(N+1) : first[k] = [n \in Ptr |->
                     IF n = NULL \/ k = 0 THEN <<>> ELSE <<d[n]>> \o g[k - 1][nx[n]]]
  BY <1>1
<1>4. ASSUME NEW k \in 0..N PROVE first[k] = g[k]
  <2>1. k \in 0..(N+1)
    OBVIOUS
  <2>2. PICK f : f = [n \in Ptr |-> IF n = NULL \/ k = 0 THEN <<>> ELSE <<d[n]>> \o g[k - 1][nx[n]]]
    OBVIOUS
  <2>3. first[k] = f
    BY <1>3, <2>1, <2>2
  <2>4. g[k] = f
    BY <1>2, <2>2
  <2> QED BY <2>3, <2>4
<1>5. \A k \in 0..(N+1) : k = 0 \/ first[k-1] = g[k-1]
  BY <1>4
<1>6. first = [k \in 0 .. (N+1) |-> [n \in Ptr |->
             IF n = NULL \/ k = 0 THEN <<>> ELSE <<d[n]>> \o first[k - 1][nx[n]]]]
  <2>1. ASSUME NEW k \in 0..(N+1)
        PROVE  first[k] = [n \in Ptr |->
                 IF n = NULL \/ k = 0 THEN <<>> ELSE <<d[n]>> \o first[k - 1][nx[n]]]
    <3>1. CASE k = 0
      BY <1>3, <3>1
    <3>2. CASE k # 0
      BY <1>3, <1>5, <3>2
    <3> QED BY <3>1, <3>2
  <2>2. first = [k \in 0 .. (N+1) |-> first[k]]
    BY <1>1
  <2> QED BY <2>1, <2>2
<1> QED BY <1>6 DEF Walks

(* For every depth there is such a recursion.                                *)
LEMMA WalkExists ==
  ASSUME NEW nx \in [Nodes -> Ptr], NEW d, NEW N \in Nat
  PROVE  \E g : Walks(g, N, nx, d)
<1>1. PICK P : P = {n \in Nat : \E g : Walks(g, n, nx, d)}
  OBVIOUS
<1>2. 0 \in P
  <2>1. PICK g : g = [k \in 0 .. 0 |-> [n \in Ptr |-> <<>>]]
    OBVIOUS
  <2>2. g = [k \in 0 .. 0 |-> [n \in Ptr |->
               IF n = NULL \/ k = 0 THEN <<>> ELSE <<d[n]>> \o g[k - 1][nx[n]]]]
    BY <2>1
  <2>3. Walks(g, 0, nx, d)
    BY <2>2 DEF Walks
  <2> QED BY <1>1, <2>3
<1>3. \A n \in Nat : n \in P => n + 1 \in P
  BY <1>1, WalkMore
<1>4. N \in P
  BY <1>2, <1>3, SetInduction
<1> QED BY <1>1, <1>4

(* Contents reads it at the depth of all nodes.                              *)
LEMMA ContentsWalk ==
  ASSUME NEW nx \in [Nodes -> Ptr], NEW d, IsFiniteSet(Nodes)
  PROVE  \E g : /\ Walks(g, Cardinality(Nodes), nx, d)
                /\ \A first : ContentsOf(nx, d, first) = g[Cardinality(Nodes)][first]
<1>1. \E g : Walks(g, Cardinality(Nodes), nx, d)
  BY WalkExists, FS_CardinalityType
<1>2. PICK g : g = CHOOSE f : Walks(f, Cardinality(Nodes), nx, d)
  OBVIOUS
<1>3. Walks(g, Cardinality(Nodes), nx, d)
  BY <1>1, <1>2
<1>4. \A first : ContentsOf(nx, d, first) = g[Cardinality(Nodes)][first]
  BY <1>2 DEF ContentsOf, Walks
<1> QED BY <1>3, <1>4

(* One level of the recursion.                                               *)
LEMMA WalkUnfolds ==
  ASSUME NEW N \in Nat, NEW nx \in [Nodes -> Ptr], NEW d, NEW g, Walks(g, N, nx, d)
  PROVE  /\ \A m \in Ptr : g[0][m] = <<>>
         /\ \A k \in 0..N : g[k][NULL] = <<>>
<1>1. \A k \in 0..N : g[k] = [n \in Ptr |->
         IF n = NULL \/ k = 0 THEN <<>> ELSE <<d[n]>> \o g[k - 1][nx[n]]]
  BY DEF Walks
<1>2. \A m \in Ptr : g[0][m] = <<>>
  <2>1. 0 \in 0..N
    OBVIOUS
  <2>2. g[0] = [n \in Ptr |-> IF n = NULL \/ 0 = 0 THEN <<>> ELSE <<d[n]>> \o g[0 - 1][nx[n]]]
    BY <1>1, <2>1
  <2> QED BY <2>2
<1>3. \A k \in 0..N : g[k][NULL] = <<>>
  BY <1>1 DEF Ptr
<1> QED BY <1>2, <1>3

(* And the next one.                                                          *)
LEMMA WalkNext ==
  ASSUME NEW N \in Nat, NEW nx \in [Nodes -> Ptr], NEW d, NEW g, Walks(g, N, nx, d),
         NEW i \in Nat, i + 1 <= N, NEW m \in Nodes
  PROVE  g[i + 1][m] = <<d[m]>> \o g[i][nx[m]]
<1>1. PICK k \in 0..N : k = i + 1
  OBVIOUS
<1>2. m \in Ptr /\ m # NULL /\ k # 0
  BY <1>1, NullAssumption DEF Ptr
<1>3. g[k] = [n \in Ptr |-> IF n = NULL \/ k = 0 THEN <<>> ELSE <<d[n]>> \o g[k - 1][nx[n]]]
  BY DEF Walks
<1>4. g[k][m] = IF m = NULL \/ k = 0 THEN <<>> ELSE <<d[m]>> \o g[k - 1][nx[m]]
  BY <1>2, <1>3
<1>5. PICK x : x = k - 1
  OBVIOUS
<1>6. g[k][m] = <<d[m]>> \o g[x][nx[m]]
  BY <1>2, <1>4, <1>5
<1>7. x = i
  BY <1>1, <1>5
<1> QED BY <1>1, <1>6, <1>7

(* An empty list has no contents.                                            *)
LEMMA ContentsOfNull ==
  ASSUME NEW nx \in [Nodes -> Ptr], NEW d, IsFiniteSet(Nodes)
  PROVE  ContentsOf(nx, d, NULL) = <<>>
<1>1. PICK N \in Nat : N = Cardinality(Nodes)
  BY FS_CardinalityType
<1>2. PICK g : Walks(g, N, nx, d) /\ \A first : ContentsOf(nx, d, first) = g[N][first]
  BY <1>1, ContentsWalk
<1>3. g[N][NULL] = <<>>
  BY <1>2, WalkUnfolds
<1> QED BY <1>2, <1>3

(* What a walk finds is a sequence of values; so are the contents.            *)
LEMMA WalkType ==
  ASSUME NEW D, NEW N \in Nat, NEW nx \in [Nodes -> Ptr], NEW d \in [Nodes -> D], NEW g,
         Walks(g, N, nx, d)
  PROVE  \A k \in 0 .. N : \A m \in Ptr : g[k][m] \in Seq(D)
<1>3. PICK P : P = {k \in Nat : k <= N => \A m \in Ptr : g[k][m] \in Seq(D)}
  OBVIOUS
<1>4. 0 \in P
  <2>1. \A m \in Ptr : g[0][m] = <<>>
    BY WalkUnfolds
  <2>2. <<>> \in Seq(D)
    OBVIOUS
  <2> QED BY <1>3, <2>1, <2>2
<1>5. ASSUME NEW k \in Nat, k \in P, k + 1 <= N, NEW m \in Ptr PROVE g[k + 1][m] \in Seq(D)
  <2>1. CASE m = NULL
    <3>1. PICK j \in 0..N : j = k + 1
      BY <1>5
    <3>2. g[j][NULL] = <<>>
      BY WalkUnfolds
    <3>3. <<>> \in Seq(D)
      OBVIOUS
    <3> QED BY <2>1, <3>1, <3>2, <3>3
  <2>2. CASE m \in Nodes
    <3>1. k <= N
      BY <1>5
    <3>2. g[k + 1][m] = <<d[m]>> \o g[k][nx[m]]
      <4>1. k + 1 <= N
        BY <1>5
      <4> QED BY <2>2, <4>1, WalkNext
    <3>3. g[k][nx[m]] \in Seq(D)
      BY <1>3, <1>5, <2>2, <3>1
    <3>4. <<d[m]>> \in Seq(D)
      BY <2>2
    <3> QED BY <3>2, <3>3, <3>4
  <2> QED BY <2>1, <2>2 DEF Ptr
<1>6. \A k \in Nat : k \in P => k + 1 \in P
  BY <1>3, <1>5
<1>7. \A k \in Nat : k \in P
  BY <1>4, <1>6, SetInduction
<1> QED BY <1>3, <1>7

(* So are the contents.                                                       *)
LEMMA ContentsType ==
  ASSUME NEW D, NEW nx \in [Nodes -> Ptr], NEW d \in [Nodes -> D], IsFiniteSet(Nodes),
         NEW first \in Ptr
  PROVE  ContentsOf(nx, d, first) \in Seq(D)
<1>1. PICK N \in Nat : N = Cardinality(Nodes)
  BY FS_CardinalityType
<1>2. PICK g : Walks(g, N, nx, d) /\ \A x : ContentsOf(nx, d, x) = g[N][x]
  BY <1>1, ContentsWalk
<1>3. \A k \in 0 .. N : \A m \in Ptr : g[k][m] \in Seq(D)
  BY <1>2, WalkType
<1> QED BY <1>2, <1>3

(* A walk deeper than the rest of the list finds no more.                    *)
LEMMA WalkEnough ==
  ASSUME NEW N \in Nat, NEW nx \in [Nodes -> Ptr], NEW d, NEW g, Walks(g, N, nx, d),
         IsFiniteSet(Nodes), NEW S, NEW R, NEW first, IsList(S, R, nx, first)
  PROVE  \A k \in Nat : k < N => \A m \in S : R[m] <= k => g[k + 1][m] = g[k][m]
<1>0. /\ S \subseteq Nodes /\ Cardinality(S) \in Nat
      /\ \A m \in S : R[m] \in Nat /\ R[m] >= 1
  <2>1. S \subseteq Nodes /\ Cardinality(S) \in Nat
    BY FS_Subset, FS_CardinalityType DEF IsList
  <2> QED BY <2>1 DEF IsList
<1>1. PICK P : P = {k \in Nat : k < N => \A m \in S : R[m] <= k => g[k + 1][m] = g[k][m]}
  OBVIOUS
<1>2. 0 \in P
  <2>1. \A m \in S : ~ (R[m] <= 0)
    BY <1>0
  <2> QED BY <1>1, <2>1
<1>3. ASSUME NEW k \in Nat, k \in P, NEW j \in Nat, j = k + 1, j < N, NEW m \in S, R[m] <= j
      PROVE  g[j + 1][m] = g[j][m]
  <2>1. g[j + 1][m] = <<d[m]>> \o g[j][nx[m]]
    <3>1. j + 1 <= N /\ m \in Nodes
      BY <1>0, <1>3
    <3> QED BY <3>1, WalkNext
  <2>2. g[j][m] = <<d[m]>> \o g[k][nx[m]]
    <3>1. k + 1 <= N /\ m \in Nodes
      BY <1>0, <1>3
    <3>2. g[k + 1][m] = <<d[m]>> \o g[k][nx[m]]
      BY <3>1, WalkNext
    <3> QED BY <1>3, <3>2
  <2>3. g[j][nx[m]] = g[k][nx[m]]
    <3>1. CASE R[m] = 1
      <4>1. nx[m] = NULL
        BY <3>1 DEF IsList
      <4>2. j \in 0..N /\ k \in 0..N
        BY <1>3
      <4>3. g[j][NULL] = <<>> /\ g[k][NULL] = <<>>
        BY <4>2, WalkUnfolds
      <4> QED BY <4>1, <4>3
    <3>2. CASE R[m] # 1
      <4>1. nx[m] \in S /\ R[nx[m]] = R[m] - 1
        BY <3>2 DEF IsList
      <4>2. R[nx[m]] <= k /\ k < N
        BY <1>0, <1>3, <4>1
      <4>3. g[k + 1][nx[m]] = g[k][nx[m]]
        BY <1>1, <1>3, <4>1, <4>2
      <4> QED BY <1>3, <4>3
    <3> QED BY <3>1, <3>2
  <2> QED BY <2>1, <2>2, <2>3
<1>4. ASSUME NEW k \in Nat, k \in P PROVE k + 1 \in P
  <2>1. PICK j \in Nat : j = k + 1
    OBVIOUS
  <2>2. j < N => \A m \in S : R[m] <= j => g[j + 1][m] = g[j][m]
    BY <1>3, <1>4, <2>1
  <2> QED BY <1>1, <2>1, <2>2
<1>5. \A k \in Nat : k \in P
  BY <1>2, <1>4, SetInduction
<1> QED BY <1>1, <1>5

(* The contents begin with the value of the first node; those of the rest     *)
(* follow.                                                                   *)
LEMMA ContentsFirst ==
  ASSUME NEW nx \in [Nodes -> Ptr], NEW d, IsFiniteSet(Nodes), NEW S, NEW R, NEW first,
         IsList(S, R, nx, first), first # NULL
  PROVE  ContentsOf(nx, d, first) = <<d[first]>> \o ContentsOf(nx, d, nx[first])
<1>1. PICK N \in Nat : N = Cardinality(Nodes)
  BY FS_CardinalityType
<1>2. PICK g : Walks(g, N, nx, d) /\ \A x : ContentsOf(nx, d, x) = g[N][x]
  BY <1>1, ContentsWalk
<1>3. /\ S \subseteq Nodes /\ Cardinality(S) \in Nat /\ Cardinality(S) <= N
      /\ first \in S /\ R[first] = Cardinality(S) /\ R[first] >= 1
  BY <1>1, FS_Subset, FS_CardinalityType DEF IsList
<1>4. PICK M \in Nat : N = M + 1
  <2>1. N - 1 \in Nat /\ N = (N - 1) + 1
    BY <1>3
  <2> QED BY <2>1
<1>5. g[N][first] = <<d[first]>> \o g[M][nx[first]]
  <2>1. M + 1 <= N /\ first \in Nodes
    BY <1>3, <1>4
  <2>2. g[M + 1][first] = <<d[first]>> \o g[M][nx[first]]
    BY <1>2, <2>1, WalkNext
  <2> QED BY <1>4, <2>2
<1>6. g[N][nx[first]] = g[M][nx[first]]
  <2>1. CASE R[first] = 1
    <3>1. nx[first] = NULL
      BY <1>3, <2>1 DEF IsList
    <3>2. N \in 0..N /\ M \in 0..N
      BY <1>4
    <3>3. g[N][NULL] = <<>> /\ g[M][NULL] = <<>>
      BY <1>2, <3>2, WalkUnfolds
    <3> QED BY <3>1, <3>3
  <2>2. CASE R[first] # 1
    <3>1. nx[first] \in S /\ R[nx[first]] = R[first] - 1
      BY <1>3, <2>2 DEF IsList
    <3>2. R[nx[first]] <= M /\ M < N
      BY <1>3, <1>4, <3>1
    <3>3. g[M + 1][nx[first]] = g[M][nx[first]]
      BY <1>2, <3>1, <3>2, WalkEnough
    <3> QED BY <1>4, <3>3
  <2> QED BY <2>1, <2>2
<1> QED BY <1>2, <1>5, <1>6

(* The contents depend only on the nodes of the list.                         *)
LEMMA ContentsSame ==
  ASSUME NEW nx \in [Nodes -> Ptr], NEW d, NEW ny \in [Nodes -> Ptr], NEW e, IsFiniteSet(Nodes),
         NEW S, NEW R, NEW first, IsList(S, R, nx, first), \A m \in S : ny[m] = nx[m] /\ e[m] = d[m]
  PROVE  ContentsOf(ny, e, first) = ContentsOf(nx, d, first)
<1>1. PICK N \in Nat : N = Cardinality(Nodes)
  BY FS_CardinalityType
<1>2. PICK g : Walks(g, N, nx, d) /\ \A x : ContentsOf(nx, d, x) = g[N][x]
  BY <1>1, ContentsWalk
<1>3. PICK f : Walks(f, N, ny, e) /\ \A x : ContentsOf(ny, e, x) = f[N][x]
  BY <1>1, ContentsWalk
<1>4. S \subseteq Nodes
  BY DEF IsList
<1>5. PICK P : P = {k \in Nat : k <= N => \A m \in S : f[k][m] = g[k][m]}
  OBVIOUS
<1>6. 0 \in P
  <2>1. \A m \in S : f[0][m] = <<>> /\ g[0][m] = <<>>
    BY <1>2, <1>3, <1>4, WalkUnfolds DEF Ptr
  <2> QED BY <1>5, <2>1
<1>7. ASSUME NEW k \in Nat, k \in P, k + 1 <= N, NEW m \in S PROVE f[k + 1][m] = g[k + 1][m]
  <2>1. k \in 0..N /\ k <= N /\ m \in Nodes
    BY <1>4, <1>7
  <2>2. g[k + 1][m] = <<d[m]>> \o g[k][nx[m]]
    BY <1>2, <1>7, <2>1, WalkNext
  <2>3. f[k + 1][m] = <<d[m]>> \o f[k][ny[m]]
    <3>1. f[k + 1][m] = <<e[m]>> \o f[k][ny[m]]
      BY <1>3, <1>7, <2>1, WalkNext
    <3> QED BY <3>1
  <2>4. f[k][nx[m]] = g[k][nx[m]]
    <3>1. CASE nx[m] = NULL
      BY <1>2, <1>3, <2>1, <3>1, WalkUnfolds
    <3>2. CASE nx[m] # NULL
      <4>1. nx[m] \in S
        BY <3>2 DEF IsList
      <4> QED BY <1>5, <1>7, <2>1, <4>1
    <3> QED BY <3>1, <3>2
  <2>5. ny[m] = nx[m]
    OBVIOUS
  <2> QED BY <2>2, <2>3, <2>4, <2>5
<1>8. \A k \in Nat : k \in P => k + 1 \in P
  BY <1>5, <1>7
<1>9. N \in P
  BY <1>6, <1>8, SetInduction
<1>10. CASE first = NULL
  BY <1>10, ContentsOfNull
<1>11. CASE first # NULL
  BY <1>2, <1>3, <1>5, <1>9, <1>11 DEF IsList
<1> QED BY <1>10, <1>11

(* Sequences that get one more value at either end.                           *)
LEMMA AppendLater ==
  ASSUME NEW D, NEW a \in D, NEW v \in D, NEW s \in Seq(D)
  PROVE  <<a>> \o (s \o <<v>>) = (<<a>> \o s) \o <<v>>
<1>1. PICK x : x = <<a>>
  OBVIOUS
<1>2. PICK y : y = <<v>>
  OBVIOUS
<1>a. x \in Seq(D)
  BY <1>1
<1>b. y \in Seq(D)
  BY <1>2
<1>3. x \o (s \o y) = (x \o s) \o y
  BY <1>a, <1>b, ConcatAssociative
<1> QED BY <1>1, <1>2, <1>3

(* The same at the end of a list.                                             *)
LEMMA AppendAlone ==
  ASSUME NEW D, NEW a \in D, NEW v \in D
  PROVE  /\ <<a>> \o <<>> = <<a>>
         /\ <<a>> \o (<<v>> \o <<>>) = (<<a>> \o <<>>) \o <<v>>
<1>1. PICK x : x = <<a>>
  OBVIOUS
<1>2. PICK y : y = <<v>>
  OBVIOUS
<1>a. x \in Seq(D)
  BY <1>1
<1>b. y \in Seq(D)
  BY <1>2
<1>3. x \o <<>> = x /\ y \o <<>> = y
  BY <1>a, <1>b, ConcatEmptySeq
<1> QED BY <1>1, <1>2, <1>3

Unfolded(g, N, nx, d) ==
  \A i \in Nat : i + 1 <= N => \A m \in Nodes : g[i + 1][m] = <<d[m]>> \o g[i][nx[m]]

(* Every level of the recursion at once.                                      *)
LEMMA WalkUnfolded ==
  ASSUME NEW N \in Nat, NEW nx \in [Nodes -> Ptr], NEW d, NEW g, Walks(g, N, nx, d)
  PROVE  Unfolded(g, N, nx, d)
  BY WalkNext DEF Unfolded

(* n is linked behind the last node of S, and has none behind it.             *)
Linked(S, R, nx, ny, n) ==
  n \notin S /\ ny[n] = NULL /\ \A m \in S : ny[m] = IF R[m] = 1 THEN n ELSE nx[m]

(* f finds one value more than g, v, and needs one step more to do so.        *)
Longer(f, g, N, S, R, v) ==
  \A k \in Nat : k < N => \A m \in S : R[m] <= k => f[k + 1][m] = g[k][m] \o <<v>>

(* A node linked behind the last one adds its value to what a walk finds.     *)
LEMMA WalkAppend ==
  ASSUME NEW N \in Nat, NEW nx \in [Nodes -> Ptr], NEW g, NEW D, NEW d \in [Nodes -> D],
         Walks(g, N, nx, d), IsFiniteSet(Nodes), NEW S, NEW R, NEW first, IsList(S, R, nx, first),
         NEW n \in Nodes, NEW ny \in [Nodes -> Ptr], Linked(S, R, nx, ny, n),
         NEW f, Walks(f, N, ny, d)
  PROVE  Longer(f, g, N, S, R, d[n])
<1>a. \A k \in 0 .. N : \A m \in Ptr : g[k][m] \in Seq(D)
  BY WalkType
<1>b. ny[n] = NULL /\ \A m \in S : ny[m] = IF R[m] = 1 THEN n ELSE nx[m]
  BY DEF Linked
<1>0. /\ S \subseteq Nodes /\ Cardinality(S) \in Nat
      /\ \A m \in S : R[m] \in Nat /\ R[m] >= 1
  <2>1. S \subseteq Nodes /\ Cardinality(S) \in Nat
    BY FS_Subset, FS_CardinalityType DEF IsList
  <2> QED BY <2>1 DEF IsList
<1>1. PICK P : P = {k \in Nat : k < N => \A m \in S : R[m] <= k => f[k + 1][m] = g[k][m] \o <<d[n]>>}
  OBVIOUS
<1>2. 0 \in P
  <2>1. \A m \in S : ~ (R[m] <= 0)
    BY <1>0
  <2> QED BY <1>1, <2>1
<1>3. ASSUME NEW k \in Nat, k \in P, NEW j \in Nat, j = k + 1, j < N, NEW m \in S, R[m] <= j
      PROVE  f[j + 1][m] = g[j][m] \o <<d[n]>>
  <2>0. j + 1 <= N /\ m \in Nodes /\ k + 1 <= N /\ k < N /\ k \in 0..N
    BY <1>0, <1>3
  <2>1. f[j + 1][m] = <<d[m]>> \o f[j][ny[m]]
    BY <2>0, WalkNext
  <2>2. g[j][m] = <<d[m]>> \o g[k][nx[m]]
    <3>1. g[k + 1][m] = <<d[m]>> \o g[k][nx[m]]
      BY <2>0, WalkNext
    <3> QED BY <1>3, <3>1
  <2>3. d[m] \in D /\ d[n] \in D
    BY <2>0
  <2>4. CASE R[m] = 1
    <3>1. nx[m] = NULL /\ ny[m] = n
      BY <1>b, <2>4 DEF IsList
    <3>2. f[j][n] = <<d[n]>> \o f[k][NULL]
      <4>1. k + 1 <= N
        BY <2>0
      <4>2. Unfolded(f, N, ny, d)
        BY WalkUnfolded
      <4>3. f[k + 1][n] = <<d[n]>> \o f[k][ny[n]]
        BY <4>1, <4>2 DEF Unfolded
      <4> QED BY <1>3, <1>b, <4>3
    <3>3. f[k][NULL] = <<>> /\ g[k][NULL] = <<>>
      BY <2>0, WalkUnfolds
    <3>4. f[j + 1][m] = <<d[m]>> \o (<<d[n]>> \o <<>>)
      BY <2>1, <3>1, <3>2, <3>3
    <3>5. g[j][m] = <<d[m]>> \o <<>>
      BY <2>2, <3>1, <3>3
    <3> QED BY <2>3, <3>4, <3>5, AppendAlone
  <2>5. CASE R[m] # 1
    <3>1. nx[m] \in S /\ R[nx[m]] = R[m] - 1 /\ ny[m] = nx[m]
      BY <1>b, <2>5 DEF IsList
    <3>2. R[nx[m]] <= k /\ nx[m] \in Ptr
      BY <1>0, <1>3, <3>1 DEF Ptr
    <3>3. f[k + 1][nx[m]] = g[k][nx[m]] \o <<d[n]>>
      BY <1>1, <1>3, <2>0, <3>1, <3>2
    <3>4. g[k][nx[m]] \in Seq(D)
      BY <1>a, <2>0, <3>2
    <3>5. f[j + 1][m] = <<d[m]>> \o (g[k][nx[m]] \o <<d[n]>>)
      BY <1>3, <2>1, <3>1, <3>3
    <3>6. g[j][m] = <<d[m]>> \o g[k][nx[m]]
      BY <2>2, <3>1
    <3>7. <<d[m]>> \o (g[k][nx[m]] \o <<d[n]>>) = (<<d[m]>> \o g[k][nx[m]]) \o <<d[n]>>
      <4>1. PICK a \in D : a = d[m]
        BY <2>3
      <4>2. PICK v \in D : v = d[n]
        BY <2>3
      <4>3. PICK s \in Seq(D) : s = g[k][nx[m]]
        BY <3>4
      <4>4. <<a>> \o (s \o <<v>>) = (<<a>> \o s) \o <<v>>
        BY AppendLater
      <4> QED BY <4>1, <4>2, <4>3, <4>4
    <3>8. f[j + 1][m] = (<<d[m]>> \o g[k][nx[m]]) \o <<d[n]>>
      BY <3>5, <3>7
    <3> QED BY <3>6, <3>8
  <2> QED BY <2>4, <2>5
<1>4. ASSUME NEW k \in Nat, k \in P PROVE k + 1 \in P
  <2>1. PICK j \in Nat : j = k + 1
    OBVIOUS
  <2>2. j < N => \A m \in S : R[m] <= j => f[j + 1][m] = g[j][m] \o <<d[n]>>
    BY <1>3, <1>4, <2>1
  <2> QED BY <1>1, <2>1, <2>2
<1>5. \A k \in Nat : k \in P
  BY <1>2, <1>4, SetInduction
<1> QED BY <1>1, <1>5 DEF Longer

(* A list of one node has one value.                                          *)
LEMMA ContentsAlone ==
  ASSUME NEW D, NEW nx \in [Nodes -> Ptr], NEW d \in [Nodes -> D], IsFiniteSet(Nodes),
         NEW n \in Nodes, nx[n] = NULL
  PROVE  ContentsOf(nx, d, n) = <<d[n]>>
<1>1. PICK N \in Nat : N = Cardinality(Nodes)
  BY FS_CardinalityType
<1>2. PICK g : Walks(g, N, nx, d) /\ \A x : ContentsOf(nx, d, x) = g[N][x]
  BY <1>1, ContentsWalk
<1>3. PICK M \in Nat : N = M + 1
  <2>1. N # 0
    BY <1>1, FS_EmptySet
  <2>2. N - 1 \in Nat /\ N = (N - 1) + 1
    BY <2>1
  <2> QED BY <2>2
<1>4. g[M + 1][n] = <<d[n]>> \o g[M][nx[n]]
  <2>1. M + 1 <= N
    BY <1>3
  <2>2. Unfolded(g, N, nx, d)
    BY <1>2, WalkUnfolded
  <2> QED BY <2>1, <2>2 DEF Unfolded
<1>5. g[M][NULL] = <<>>
  <2>1. M \in 0..N
    BY <1>3
  <2> QED BY <1>2, <2>1, WalkUnfolds
<1>6. g[N][n] = <<d[n]>> \o <<>>
  BY <1>3, <1>4, <1>5
<1>7. d[n] \in D
  OBVIOUS
<1> QED BY <1>2, <1>6, <1>7, AppendAlone

Appended(ny, nx, d, S, n) ==
  \A m \in S : ContentsOf(ny, d, m) = ContentsOf(nx, d, m) \o <<d[n]>>

(* So the contents of a list grow by one value at their end.                  *)
LEMMA ContentsAppend ==
  ASSUME NEW D, NEW nx \in [Nodes -> Ptr], NEW d \in [Nodes -> D], IsFiniteSet(Nodes),
         NEW S, NEW R, NEW first, IsList(S, R, nx, first),
         NEW n \in Nodes, NEW ny \in [Nodes -> Ptr], Linked(S, R, nx, ny, n)
  PROVE  Appended(ny, nx, d, S, n)
<1> SUFFICES ASSUME NEW m \in S
             PROVE  ContentsOf(ny, d, m) = ContentsOf(nx, d, m) \o <<d[n]>>
  BY DEF Appended
<1>1. PICK N \in Nat : N = Cardinality(Nodes)
  BY FS_CardinalityType
<1>2. PICK g : Walks(g, N, nx, d) /\ \A x : ContentsOf(nx, d, x) = g[N][x]
  BY <1>1, ContentsWalk
<1>3. PICK f : Walks(f, N, ny, d) /\ \A x : ContentsOf(ny, d, x) = f[N][x]
  BY <1>1, ContentsWalk
<1>4. /\ Cardinality(S) \in Nat /\ Cardinality(S) + 1 <= N
      /\ R[m] \in Nat /\ R[m] >= 1 /\ R[m] <= Cardinality(S)
  <2>1. S \subseteq Nodes /\ IsFiniteSet(S) /\ Cardinality(S) \in Nat
    BY FS_Subset, FS_CardinalityType DEF IsList
  <2>2. Cardinality(S \cup {n}) = Cardinality(S) + 1
    BY <2>1, FS_AddElement DEF Linked
  <2>3. S \cup {n} \subseteq Nodes
    BY <2>1
  <2>4. Cardinality(S \cup {n}) <= N
    BY <1>1, <2>3, FS_Subset
  <2> QED BY <2>1, <2>2, <2>4 DEF IsList
<1>5. PICK M \in Nat : N = M + 1
  <2>1. N - 1 \in Nat /\ N = (N - 1) + 1
    BY <1>4
  <2> QED BY <2>1
<1>6. M < N /\ R[m] <= M
  BY <1>4, <1>5
<1>8. f[M + 1][m] = g[M][m] \o <<d[n]>>
  <2>1. Longer(f, g, N, S, R, d[n])
    BY <1>2, <1>3, WalkAppend
  <2> QED BY <1>6, <2>1 DEF Longer
<1>9. g[M + 1][m] = g[M][m]
  BY <1>2, <1>6, WalkEnough
<1> QED BY <1>2, <1>3, <1>5, <1>8, <1>9

(* A sequence with one more value in front.                                   *)
LEMMA PushedFirst ==
  ASSUME NEW D, NEW v \in D, NEW s \in Seq(D)
  PROVE  /\ <<v>> \o s # <<>>
         /\ Head(<<v>> \o s) = v
         /\ Tail(<<v>> \o s) = s
<1>1. PICK q : q = <<v>> \o s
  OBVIOUS
<1>2. q \in Seq(D) /\ Len(q) = Len(s) + 1 /\ q[1] = v /\ \A i \in 1 .. Len(s) : q[i + 1] = s[i]
  BY <1>1
<1>3. Len(s) \in Nat /\ Len(q) # 0
  BY <1>2
<1>4. q # <<>>
  BY <1>3
<1>5. Head(q) = v
  BY <1>2, <1>4
<1>6. Tail(q) = s
  <2>1. Tail(q) \in Seq(D) /\ Len(Tail(q)) = Len(s)
    BY <1>2, <1>3, <1>4
  <2>2. \A i \in 1 .. Len(s) : Tail(q)[i] = s[i]
    BY <1>2, <1>3, <1>4
  <2> QED BY <2>1, <2>2
<1> QED BY <1>1, <1>4, <1>5, <1>6

-----------------------------------------------------------------------------
(* Each step is one of the atomic container, or none.                         *)

(* What the Push under way has put into its node is what it was called with. *)
Carried == \A t \in Threads : pc[t] \in Unlinked => data[new[t]] = val[t]

Ops == [t \in Threads |-> Op(t)]

(* Op as a function of what it reads.                                        *)
Pushes == Unlinked \cup {"push_new"}
Seeks == {"pop_head", "pop_tail", "pop_next", "pop_help", "pop_access_head",
          "pop_access_next", "pop_cas"}
Carries == {"pop_size", "pop_reset", "pop_release", "pop_return"}
OpAt(l, v, d) ==
  CASE l \in {"push_new", "push_load", "push_access", "push_recheck", "push_next",
              "push_help", "push_append"} -> [kind |-> "push", val |-> v]
    [] l \in {"push_swing", "push_size"} -> [kind |-> "pushed", val |-> NoValue]
    [] l \in {"pop_head", "pop_tail", "pop_next", "pop_help", "pop_access_head",
              "pop_access_next", "pop_cas"} -> [kind |-> "pop", val |-> NoValue]
    [] l = "pop_swap" -> [kind |-> "popped", val |-> d]
    [] l \in {"pop_size", "pop_reset", "pop_release", "pop_return"} ->
         [kind |-> "popped", val |-> v]
    [] OTHER -> [kind |-> "idle", val |-> NoValue]

(* What Op reads before a step, and after it.                                 *)
LEMMA OpReads ==
  ASSUME NEW u
  PROVE  Op(u) = OpAt(pc[u], val[u], data[nxt[u]]) /\ Op(u)' = OpAt(pc'[u], val'[u], data'[nxt'[u]])
  BY DEF Op, OpAt

(* Its value at each label.                                                   *)
LEMMA OpCases ==
  ASSUME NEW l, NEW v, NEW d
  PROVE  /\ l \in Pushes => OpAt(l, v, d) = [kind |-> "push", val |-> v]
         /\ l \in {"push_swing", "push_size"} => OpAt(l, v, d) = [kind |-> "pushed", val |-> NoValue]
         /\ l \in Seeks => OpAt(l, v, d) = [kind |-> "pop", val |-> NoValue]
         /\ l = "pop_swap" => OpAt(l, v, d) = [kind |-> "popped", val |-> d]
         /\ l \in Carries => OpAt(l, v, d) = [kind |-> "popped", val |-> v]
         /\ l \in {"idle"} \cup DtorLabels => OpAt(l, v, d) = [kind |-> "idle", val |-> NoValue]
<1>1. l \in Pushes => l \in {"push_new", "push_load", "push_access", "push_recheck", "push_next",
                             "push_help", "push_append"}
  BY DEF Pushes, Unlinked, PushLabels
<1> QED BY <1>1 DEF OpAt, Seeks, Carries, DtorLabels

(* Only the Pop about to take its value looks at the data.                    *)
LEMMA OpData ==
  ASSUME NEW l, NEW v, NEW d, NEW e, l = "pop_swap" => e = d
  PROVE  OpAt(l, v, d) = OpAt(l, v, e)
<1>1. CASE l = "pop_swap"
  BY <1>1
<1>2. CASE l # "pop_swap"
  BY <1>2 DEF OpAt
<1> QED BY <1>1, <1>2

(* The operations of all threads, when the step moves that of t.              *)
LEMMA OpsMove ==
  ASSUME NEW t \in Threads, \A u \in Threads : u # t => Op(u)' = Op(u)
  PROVE  Ops' = [Ops EXCEPT ![t] = Op(t)']
  BY DEF Ops

(* And when it moves none.                                                    *)
LEMMA OpsKeep ==
  ASSUME \A u \in Threads : Op(u)' = Op(u)
  PROVE  Ops' = Ops
  BY DEF Ops

(* What a step of t writes into the memory: nothing, a new node, or what its  *)
(* Pop has taken from the node that is now the dummy.                        *)
Writes(K, t) ==
  \/ data' = data
  \/ \E n \in Nodes : K[n] = "free" /\ \A m \in Nodes : m # n => data'[m] = data[m]
  \/ pc[t] = "pop_swap" /\ \A m \in Nodes : m # head_ => data'[m] = data[m]

(* The operations of the other threads: no other Pop is about to take a       *)
(* value.                                                                     *)
LEMMA OthersOp ==
  ASSUME Hypotheses, Typed, NEW K, NEW O, NEW R, Inv(K, O, R), NEW t \in Threads, Writes(K, t),
         \A u \in Threads : u # t => pc'[u] = pc[u] /\ val'[u] = val[u] /\ nxt'[u] = nxt[u]
  PROVE  \A u \in Threads : u # t => Op(u)' = Op(u)
<1> SUFFICES ASSUME NEW u \in Threads, u # t PROVE Op(u)' = Op(u)
  OBVIOUS
<1>1. ASSUME pc[u] = "pop_swap" PROVE data'[nxt[u]] = data[nxt[u]]
  <2>1. nxt[u] = head_ /\ head_ \in Nodes /\ K[head_] = "list"
    BY <1>1, EndsOf DEF Inv, Popping
  <2>2. pc[t] # "pop_swap"
    BY <1>1, OnePop DEF PopLabels
  <2> QED BY <2>1, <2>2 DEF Writes
<1>2. OpAt(pc[u], val[u], data[nxt[u]]) = OpAt(pc[u], val[u], data'[nxt[u]])
  BY <1>1, OpData
<1> QED BY <1>2, OpReads

(* The contents, while the step leaves the nodes of the list as they are.     *)
LEMMA ContentsAre ==
  /\ Contents = ContentsOf(next_, data, next_[head_])
  /\ Contents' = ContentsOf(next_', data', next_'[head_'])
  BY DEF Contents, ContentsOf

(* They are those of the list without its dummy.                              *)
LEMMA ContentsList ==
  ASSUME Hypotheses, Typed, NEW K, NEW R, QueueList(K, R)
  PROVE  /\ IsList(At(K, "list") \ {head_}, R, next_, next_[head_])
         /\ head_ \in Nodes /\ next_ \in [Nodes -> Ptr] /\ next_[head_] \in Ptr
         /\ IsFiniteSet(Nodes) /\ data \in [Nodes -> Values \cup {NoValue}]
<1>1. /\ head_ \in Nodes /\ next_ \in [Nodes -> Ptr]
      /\ IsFiniteSet(Nodes) /\ data \in [Nodes -> Values \cup {NoValue}]
  BY DEF Typed, Types, SanTypeOK, Hypotheses, FiniteSystem
<1>2. IsList(At(K, "list"), R, next_, head_) /\ head_ # NULL
  BY <1>1, NullAssumption DEF QueueList
<1>3. IsList(At(K, "list") \ {head_}, R, next_, next_[head_])
  BY <1>1, <1>2, ListPop
<1> QED BY <1>1, <1>3

(* They stay, while the step leaves the nodes of the list as they are; what   *)
(* is in the dummy does not count.                                            *)
LEMMA ContentsKept ==
  ASSUME Hypotheses, Typed, Typed', NEW K, NEW O, NEW R, Inv(K, O, R), head_' = head_,
         \A n \in Nodes : K[n] = "list" => next_'[n] = next_[n],
         \A n \in Nodes : K[n] = "list" /\ n # head_ => data'[n] = data[n]
  PROVE  Contents' = Contents
<1>1. /\ IsList(At(K, "list") \ {head_}, R, next_, next_[head_])
      /\ head_ \in Nodes /\ K[head_] = "list" /\ next_ \in [Nodes -> Ptr] /\ IsFiniteSet(Nodes)
  BY ContentsList, EndsOf DEF Inv
<1>2. next_' \in [Nodes -> Ptr]
  BY DEF Typed, Types, SanTypeOK
<1>3. \A n \in At(K, "list") \ {head_} : next_'[n] = next_[n] /\ data'[n] = data[n]
  BY DEF At
<1>4. ContentsOf(next_', data', next_[head_]) = ContentsOf(next_, data, next_[head_])
  BY <1>1, <1>2, <1>3, ContentsSame
<1>5. next_'[head_'] = next_[head_]
  BY <1>1
<1> QED BY <1>4, <1>5, ContentsAre

(* Carried, when no Push gets a node: its node is nobody else's.              *)
LEMMA CarriedKept ==
  ASSUME Hypotheses, Typed, NEW K, NEW O, NEW R, Inv(K, O, R), Carried, NEW t \in Threads,
         Writes(K, t),
         \A u \in Threads : pc'[u] \in Unlinked =>
           pc[u] \in Unlinked /\ val'[u] = val[u] /\ new'[u] = new[u]
  PROVE  Carried'
<1> SUFFICES ASSUME NEW u \in Threads, pc[u] \in Unlinked
             PROVE  data'[new[u]] = data[new[u]]
  BY DEF Carried
<1>1. new[u] \in Nodes /\ K[new[u]] = "new"
  BY PushHolds DEF Inv
<1>2. K[head_] = "list"
  BY EndsOf DEF Inv
<1> QED BY <1>1, <1>2 DEF Writes

(* What each step does to the container.                                      *)
Moves == Carried' /\ (Atomic!Next \/ (Contents' = Contents /\ Ops' = Ops))

(* A step of t that does not write to the list, nor change Carried.           *)
Quietly(K, t) ==
  /\ Writes(K, t) /\ head_' = head_
  /\ \A n \in Nodes : K[n] = "list" => next_'[n] = next_[n]
  /\ \A u \in Threads : u # t => pc'[u] = pc[u] /\ val'[u] = val[u] /\ nxt'[u] = nxt[u]
  /\ \A u \in Threads : pc'[u] \in Unlinked =>
       pc[u] \in Unlinked /\ val'[u] = val[u] /\ new'[u] = new[u]

(* What follows for the container.                                            *)
LEMMA QuietlyKeeps ==
  ASSUME Hypotheses, Typed, Typed', NEW K, NEW O, NEW R, Inv(K, O, R), Carried,
         NEW t \in Threads, Quietly(K, t)
  PROVE  Contents' = Contents /\ Ops' = [Ops EXCEPT ![t] = Op(t)'] /\ Carried'
<1>1. \A n \in Nodes : K[n] = "list" /\ n # head_ => data'[n] = data[n]
  BY DEF Quietly, Writes
<1>2. Contents' = Contents
  BY <1>1, ContentsKept DEF Quietly
<1>3. Carried'
  BY CarriedKept DEF Quietly
<1>4. Ops' = [Ops EXCEPT ![t] = Op(t)']
  BY OthersOp, OpsMove DEF Quietly
<1> QED BY <1>2, <1>3, <1>4

(* If the operation of t does not move either, the container does not step.   *)
LEMMA SilentMoves ==
  ASSUME Hypotheses, Typed, Typed', NEW K, NEW O, NEW R, Inv(K, O, R), Carried,
         NEW t \in Threads, Quietly(K, t), Op(t)' = Op(t)
  PROVE  Moves
<1>1. [Ops EXCEPT ![t] = Op(t)'] = Ops
  BY DEF Ops
<1> QED BY <1>1, QuietlyKeeps DEF Moves

(* The call of Push.                                                          *)
LEMMA CallPushMoves ==
  ASSUME Hypotheses, Typed, Typed', NEW K, NEW O, NEW R, Inv(K, O, R), Carried,
         NEW t \in Threads, Quietly(K, t), NEW v \in Values,
         Op(t) = [kind |-> "idle", val |-> NoValue], Op(t)' = [kind |-> "push", val |-> v]
  PROVE  Moves
<1>1. Contents' = Contents /\ Ops' = [Ops EXCEPT ![t] = [kind |-> "push", val |-> v]] /\ Carried'
  BY QuietlyKeeps
<1>2. Ops'[t] # Ops[t] /\ Ops[t] = Op(t)
  BY <1>1 DEF Ops
<1>3. Atomic!CallPush(t, v)
  BY <1>1, <1>2 DEF Atomic!CallPush, Atomic!Idle, Ops
<1>4. Atomic!Next
  BY <1>2, <1>3 DEF Atomic!Next, Ops
<1> QED BY <1>1, <1>4 DEF Moves

(* The call of Pop.                                                           *)
LEMMA CallPopMoves ==
  ASSUME Hypotheses, Typed, Typed', NEW K, NEW O, NEW R, Inv(K, O, R), Carried,
         NEW t \in Threads, Quietly(K, t),
         Op(t) = [kind |-> "idle", val |-> NoValue], Op(t)' = [kind |-> "pop", val |-> NoValue]
  PROVE  Moves
<1>1. Contents' = Contents /\ Ops' = [Ops EXCEPT ![t] = [kind |-> "pop", val |-> NoValue]] /\ Carried'
  BY QuietlyKeeps
<1>2. Ops'[t] # Ops[t] /\ Ops[t] = Op(t)
  BY <1>1 DEF Ops
<1>3. Atomic!CallPop(t)
  BY <1>1, <1>2 DEF Atomic!CallPop, Atomic!Idle, Ops
<1>4. Atomic!Next
  BY <1>2, <1>3 DEF Atomic!Next, Ops
<1> QED BY <1>1, <1>4 DEF Moves

(* The return of either.                                                      *)
LEMMA ReturnMoves ==
  ASSUME Hypotheses, Typed, Typed', NEW K, NEW O, NEW R, Inv(K, O, R), Carried,
         NEW t \in Threads, Quietly(K, t), NEW v, NEW k \in {"pushed", "popped"},
         Op(t) = [kind |-> k, val |-> v], Op(t)' = [kind |-> "idle", val |-> NoValue]
  PROVE  Moves
<1>1. Contents' = Contents /\ Ops' = [Ops EXCEPT ![t] = [kind |-> "idle", val |-> NoValue]] /\ Carried'
  BY QuietlyKeeps
<1>2. Ops'[t] # Ops[t] /\ Ops[t] = Op(t)
  BY <1>1 DEF Ops
<1>3. Atomic!Return(t)
  BY <1>1, <1>2 DEF Atomic!Return, Atomic!Idle, Ops
<1>4. Atomic!Next
  BY <1>2, <1>3 DEF Atomic!Next, Ops
<1> QED BY <1>1, <1>4 DEF Moves

(* A Pop takes effect where it reads a null next_ of the head, for then the   *)
(* queue is empty.                                                            *)
LEMMA PopEmptyMoves ==
  ASSUME Hypotheses, Typed, Typed', NEW K, NEW O, NEW R, Inv(K, O, R), Carried,
         NEW t \in Threads, Quietly(K, t), next_[head_] = NULL,
         Op(t) = [kind |-> "pop", val |-> NoValue], Op(t)' = [kind |-> "idle", val |-> NoValue]
  PROVE  Moves
<1>1. Contents' = Contents /\ Ops' = [Ops EXCEPT ![t] = [kind |-> "idle", val |-> NoValue]] /\ Carried'
  BY QuietlyKeeps
<1>2. Ops'[t] # Ops[t] /\ Ops[t] = Op(t)
  BY <1>1 DEF Ops
<1>3. next_ \in [Nodes -> Ptr] /\ IsFiniteSet(Nodes)
  BY DEF Typed, Types, SanTypeOK, Hypotheses, FiniteSystem
<1>4. Contents = <<>>
  BY <1>3, ContentsAre, ContentsOfNull
<1>5. Atomic!PopEmpty(t)
  BY <1>1, <1>2, <1>4 DEF Atomic!PopEmpty, Atomic!Idle, Ops
<1>6. Atomic!Next
  BY <1>2, <1>5 DEF Atomic!Next, Ops
<1> QED BY <1>1, <1>6 DEF Moves

(* The steps of Push before its exchange: they write to nothing that the      *)
(* contents are read from.                                                    *)
LEMMA PushLoadMoves ==
  ASSUME Hypotheses, Typed, Typed', NEW K, NEW O, NEW R, Inv(K, O, R), Carried,
         NEW t \in Threads, PushLoad(t)
  PROVE  Moves
<1>1. pc[t] = "push_load" /\ pc'[t] = "push_access" /\ val'[t] = val[t]
  BY DEF PushLoad, Goto, Set, Typed, Types
<1>2. Quietly(K, t)
  BY <1>1 DEF PushLoad, Goto, Set, Quietly, Writes, sanVars, ends, program, Unlinked,
     PushLabels, Typed, Types
<1>3. Op(t) = [kind |-> "push", val |-> val[t]] /\ Op(t)' = [kind |-> "push", val |-> val'[t]]
  BY <1>1, OpReads, OpCases DEF Pushes, Unlinked, PushLabels
<1> QED BY <1>1, <1>2, <1>3, SilentMoves

(* The store to the hazard pointer.                                           *)
LEMMA PushAccessMoves ==
  ASSUME Hypotheses, Typed, Typed', NEW K, NEW O, NEW R, Inv(K, O, R), Carried,
         NEW t \in Threads, PushAccess(t)
  PROVE  Moves
<1>1. pc[t] = "push_access" /\ pc'[t] = "push_recheck" /\ val'[t] = val[t]
  BY DEF PushAccess, Goto, Set, Typed, Types
<1>2. Quietly(K, t)
  BY <1>1 DEF PushAccess, Goto, Set, Quietly, Writes, sanVars, ends, program, Unlinked,
     PushLabels, Typed, Types
<1>3. Op(t) = [kind |-> "push", val |-> val[t]] /\ Op(t)' = [kind |-> "push", val |-> val'[t]]
  BY <1>1, OpReads, OpCases DEF Pushes, Unlinked, PushLabels
<1> QED BY <1>1, <1>2, <1>3, SilentMoves

(* The second load of the tail: back to the access.                           *)
LEMMA PushRecheckAgainMoves ==
  ASSUME Hypotheses, Typed, Typed', NEW K, NEW O, NEW R, Inv(K, O, R), Carried,
         NEW t \in Threads, PushRecheck(t), tail_ # pre[t]
  PROVE  Moves
<1>1. pc[t] = "push_recheck" /\ pc'[t] = "push_access" /\ val'[t] = val[t]
  BY DEF PushRecheck, Goto, Set, Typed, Types
<1>2. Quietly(K, t)
  BY <1>1 DEF PushRecheck, Goto, Set, Quietly, Writes, sanVars, ends, program, Unlinked,
     PushLabels, Typed, Types
<1>3. Op(t) = [kind |-> "push", val |-> val[t]] /\ Op(t)' = [kind |-> "push", val |-> val'[t]]
  BY <1>1, OpReads, OpCases DEF Pushes, Unlinked, PushLabels
<1> QED BY <1>1, <1>2, <1>3, SilentMoves

(* Or on with the node.                                                       *)
LEMMA PushRecheckOkMoves ==
  ASSUME Hypotheses, Typed, Typed', NEW K, NEW O, NEW R, Inv(K, O, R), Carried,
         NEW t \in Threads, PushRecheck(t), tail_ = pre[t]
  PROVE  Moves
<1>1. pc[t] = "push_recheck" /\ pc'[t] = "push_next" /\ val'[t] = val[t]
  BY DEF PushRecheck, Goto, Set, Typed, Types
<1>2. Quietly(K, t)
  BY <1>1 DEF PushRecheck, Goto, Set, Quietly, Writes, sanVars, ends, program, Unlinked,
     PushLabels, Typed, Types
<1>3. Op(t) = [kind |-> "push", val |-> val[t]] /\ Op(t)' = [kind |-> "push", val |-> val'[t]]
  BY <1>1, OpReads, OpCases DEF Pushes, Unlinked, PushLabels
<1> QED BY <1>1, <1>2, <1>3, SilentMoves

(* The load of next_.                                                         *)
LEMMA PushNextMoves ==
  ASSUME Hypotheses, Typed, Typed', NEW K, NEW O, NEW R, Inv(K, O, R), Carried,
         NEW t \in Threads, PushNext(t)
  PROVE  Moves
<1>1. pc[t] = "push_next" /\ pc'[t] \in {"push_help", "push_append"} /\ val'[t] = val[t]
  BY DEF PushNext, Goto, Set, Typed, Types
<1>2. Quietly(K, t)
  BY <1>1 DEF PushNext, Goto, Set, Quietly, Writes, sanVars, ends, program, Unlinked,
     PushLabels, Typed, Types
<1>3. Op(t) = [kind |-> "push", val |-> val[t]] /\ Op(t)' = [kind |-> "push", val |-> val'[t]]
  BY <1>1, OpReads, OpCases DEF Pushes, Unlinked, PushLabels
<1> QED BY <1>1, <1>2, <1>3, SilentMoves

(* The tail moves, and it is no part of the contents.                         *)
LEMMA PushHelpMoves ==
  ASSUME Hypotheses, Typed, Typed', NEW K, NEW O, NEW R, Inv(K, O, R), Carried,
         NEW t \in Threads, PushHelp(t)
  PROVE  Moves
<1>1. pc[t] = "push_help" /\ pc'[t] = "push_access" /\ val'[t] = val[t]
  BY DEF PushHelp, PushAgain, Goto, Set, Typed, Types
<1>2. Quietly(K, t)
  BY <1>1 DEF PushHelp, PushAgain, Goto, Set, Quietly, Writes, sanVars, ends, program, Unlinked,
     PushLabels, Typed, Types
<1>3. Op(t) = [kind |-> "push", val |-> val[t]] /\ Op(t)' = [kind |-> "push", val |-> val'[t]]
  BY <1>1, OpReads, OpCases DEF Pushes, Unlinked, PushLabels
<1> QED BY <1>1, <1>2, <1>3, SilentMoves

(* A failed exchange reads only.                                              *)
LEMMA PushAppendFailsMoves ==
  ASSUME Hypotheses, Typed, Typed', NEW K, NEW O, NEW R, Inv(K, O, R), Carried,
         NEW t \in Threads, PushAppend(t), next_[ori[t]] # NULL
  PROVE  Moves
<1>1. pc[t] = "push_append" /\ pc'[t] = "push_access" /\ val'[t] = val[t]
  BY DEF PushAppend, PushAgain, Goto, Set, Typed, Types
<1>2. Quietly(K, t)
  BY <1>1 DEF PushAppend, PushAgain, Goto, Set, Quietly, Writes, sanVars, ends, program, Unlinked,
     PushLabels, Typed, Types
<1>3. Op(t) = [kind |-> "push", val |-> val[t]] /\ Op(t)' = [kind |-> "push", val |-> val'[t]]
  BY <1>1, OpReads, OpCases DEF Pushes, Unlinked, PushLabels
<1> QED BY <1>1, <1>2, <1>3, SilentMoves

(* The tail moves after the Push has taken effect.                            *)
LEMMA PushSwingMoves ==
  ASSUME Hypotheses, Typed, Typed', NEW K, NEW O, NEW R, Inv(K, O, R), Carried,
         NEW t \in Threads, PushSwing(t)
  PROVE  Moves
<1>1. pc[t] = "push_swing" /\ pc'[t] = "push_size"
  BY DEF PushSwing, Goto, Set, Typed, Types
<1>2. Quietly(K, t)
  BY <1>1 DEF PushSwing, Goto, Set, Quietly, Writes, sanVars, ends, program, Unlinked,
     PushLabels, Typed, Types
<1>3. Op(t) = [kind |-> "pushed", val |-> NoValue] /\ Op(t)' = [kind |-> "pushed", val |-> NoValue]
  BY <1>1, OpReads, OpCases DEF Pushes
<1> QED BY <1>1, <1>2, <1>3, SilentMoves

(* The steps of Pop before its exchange.                                      *)
LEMMA PopHeadMoves ==
  ASSUME Hypotheses, Typed, Typed', NEW K, NEW O, NEW R, Inv(K, O, R), Carried,
         NEW t \in Threads, PopHead(t)
  PROVE  Moves
<1>1. pc[t] = "pop_head" /\ pc'[t] = "pop_tail"
  BY DEF PopHead, Goto, Set, Typed, Types
<1>2. Quietly(K, t)
  BY <1>1 DEF PopHead, Goto, Set, Quietly, Writes, sanVars, ends, program, Unlinked,
     PushLabels, Typed, Types
<1>3. Op(t) = [kind |-> "pop", val |-> NoValue] /\ Op(t)' = [kind |-> "pop", val |-> NoValue]
  BY <1>1, OpReads, OpCases DEF Seeks
<1> QED BY <1>1, <1>2, <1>3, SilentMoves

(* The load of the tail.                                                      *)
LEMMA PopTailMoves ==
  ASSUME Hypotheses, Typed, Typed', NEW K, NEW O, NEW R, Inv(K, O, R), Carried,
         NEW t \in Threads, PopTail(t)
  PROVE  Moves
<1>1. pc[t] = "pop_tail" /\ pc'[t] = "pop_next"
  BY DEF PopTail, Goto, Set, Typed, Types
<1>2. Quietly(K, t)
  BY <1>1 DEF PopTail, Goto, Set, Quietly, Writes, sanVars, ends, program, Unlinked,
     PushLabels, Typed, Types
<1>3. Op(t) = [kind |-> "pop", val |-> NoValue] /\ Op(t)' = [kind |-> "pop", val |-> NoValue]
  BY <1>1, OpReads, OpCases DEF Seeks
<1> QED BY <1>1, <1>2, <1>3, SilentMoves

(* The load of next_, where the Pop does not return.                          *)
LEMMA PopNextFoundMoves ==
  ASSUME Hypotheses, Typed, Typed', NEW K, NEW O, NEW R, Inv(K, O, R), Carried,
         NEW t \in Threads, PopNext(t), h[t] # tl[t] \/ next_[h[t]] # NULL
  PROVE  Moves
<1>1. pc[t] = "pop_next" /\ pc'[t] \in {"pop_help", "pop_access_head"}
  BY DEF PopNext, Goto, Set, Typed, Types
<1>2. Quietly(K, t)
  BY <1>1 DEF PopNext, Goto, Set, Quietly, Writes, sanVars, ends, program, Unlinked,
     PushLabels, Typed, Types
<1>3. Op(t) = [kind |-> "pop", val |-> NoValue] /\ Op(t)' = [kind |-> "pop", val |-> NoValue]
  BY <1>1, OpReads, OpCases DEF Seeks
<1> QED BY <1>1, <1>2, <1>3, SilentMoves

(* The tail moves.                                                            *)
LEMMA PopHelpMoves ==
  ASSUME Hypotheses, Typed, Typed', NEW K, NEW O, NEW R, Inv(K, O, R), Carried,
         NEW t \in Threads, PopHelp(t)
  PROVE  Moves
<1>1. pc[t] = "pop_help" /\ pc'[t] = "pop_head"
  BY DEF PopHelp, PopAgain, Goto, Set, Typed, Types
<1>2. Quietly(K, t)
  BY <1>1 DEF PopHelp, PopAgain, Goto, Set, Quietly, Writes, sanVars, ends, program, Unlinked,
     PushLabels, Typed, Types
<1>3. Op(t) = [kind |-> "pop", val |-> NoValue] /\ Op(t)' = [kind |-> "pop", val |-> NoValue]
  BY <1>1, OpReads, OpCases DEF Seeks
<1> QED BY <1>1, <1>2, <1>3, SilentMoves

(* The stores to the hazard pointers.                                         *)
LEMMA PopAccessHeadMoves ==
  ASSUME Hypotheses, Typed, Typed', NEW K, NEW O, NEW R, Inv(K, O, R), Carried,
         NEW t \in Threads, PopAccessHead(t)
  PROVE  Moves
<1>1. pc[t] = "pop_access_head" /\ pc'[t] = "pop_access_next"
  BY DEF PopAccessHead, Goto, Set, Typed, Types
<1>2. Quietly(K, t)
  BY <1>1 DEF PopAccessHead, Goto, Set, Quietly, Writes, sanVars, ends, program, Unlinked,
     PushLabels, Typed, Types
<1>3. Op(t) = [kind |-> "pop", val |-> NoValue] /\ Op(t)' = [kind |-> "pop", val |-> NoValue]
  BY <1>1, OpReads, OpCases DEF Seeks
<1> QED BY <1>1, <1>2, <1>3, SilentMoves

(* The second of them.                                                        *)
LEMMA PopAccessNextMoves ==
  ASSUME Hypotheses, Typed, Typed', NEW K, NEW O, NEW R, Inv(K, O, R), Carried,
         NEW t \in Threads, PopAccessNext(t)
  PROVE  Moves
<1>1. pc[t] = "pop_access_next" /\ pc'[t] = "pop_cas"
  BY DEF PopAccessNext, Goto, Set, Typed, Types
<1>2. Quietly(K, t)
  BY <1>1 DEF PopAccessNext, Goto, Set, Quietly, Writes, sanVars, ends, program, Unlinked,
     PushLabels, Typed, Types
<1>3. Op(t) = [kind |-> "pop", val |-> NoValue] /\ Op(t)' = [kind |-> "pop", val |-> NoValue]
  BY <1>1, OpReads, OpCases DEF Seeks
<1> QED BY <1>1, <1>2, <1>3, SilentMoves

(* A failed exchange reads only.                                              *)
LEMMA PopCasFailsMoves ==
  ASSUME Hypotheses, Typed, Typed', NEW K, NEW O, NEW R, Inv(K, O, R), Carried,
         NEW t \in Threads, PopCas(t), head_ # h[t]
  PROVE  Moves
<1>1. pc[t] = "pop_cas" /\ pc'[t] = "pop_head"
  BY DEF PopCas, PopAgain, Goto, Set, Typed, Types
<1>2. Quietly(K, t)
  BY <1>1 DEF PopCas, PopAgain, Goto, Set, Quietly, Writes, sanVars, ends, program, Unlinked,
     PushLabels, Typed, Types
<1>3. Op(t) = [kind |-> "pop", val |-> NoValue] /\ Op(t)' = [kind |-> "pop", val |-> NoValue]
  BY <1>1, OpReads, OpCases DEF Seeks
<1> QED BY <1>1, <1>2, <1>3, SilentMoves

(* The steps of Pop between its exchange and its return.                      *)
LEMMA PopSizeMoves ==
  ASSUME Hypotheses, Typed, Typed', NEW K, NEW O, NEW R, Inv(K, O, R), Carried,
         NEW t \in Threads, PopSize(t)
  PROVE  Moves
<1>1. pc[t] = "pop_size" /\ pc'[t] = "pop_reset" /\ val'[t] = val[t]
  BY DEF PopSize, Goto, Set, Typed, Types
<1>2. Quietly(K, t)
  BY <1>1 DEF PopSize, Goto, Set, Quietly, Writes, sanVars, ends, program, Unlinked,
     PushLabels, Typed, Types
<1>3. Op(t) = [kind |-> "popped", val |-> val[t]] /\ Op(t)' = [kind |-> "popped", val |-> val'[t]]
  BY <1>1, OpReads, OpCases DEF Carries
<1> QED BY <1>1, <1>2, <1>3, SilentMoves

(* The first store of reset.                                                  *)
LEMMA PopResetMoves ==
  ASSUME Hypotheses, Typed, Typed', NEW K, NEW O, NEW R, Inv(K, O, R), Carried,
         NEW t \in Threads, PopReset(t)
  PROVE  Moves
<1>1. pc[t] = "pop_reset" /\ pc'[t] = "pop_release" /\ val'[t] = val[t]
  BY DEF PopReset, Goto, Set, Typed, Types
<1>2. Quietly(K, t)
  BY <1>1 DEF PopReset, Goto, Set, Quietly, Writes, sanVars, ends, program, Unlinked,
     PushLabels, Typed, Types
<1>3. Op(t) = [kind |-> "popped", val |-> val[t]] /\ Op(t)' = [kind |-> "popped", val |-> val'[t]]
  BY <1>1, OpReads, OpCases DEF Carries
<1> QED BY <1>1, <1>2, <1>3, SilentMoves

(* The last store of reset and the begin of release.                          *)
LEMMA PopReleaseMoves ==
  ASSUME Hypotheses, Typed, Typed', NEW K, NEW O, NEW R, Inv(K, O, R), Carried,
         NEW t \in Threads, PopRelease(t)
  PROVE  Moves
<1>1. pc[t] = "pop_release" /\ pc'[t] = "pop_return" /\ val'[t] = val[t]
  BY DEF PopRelease, Goto, Set, Typed, Types
<1>2. Quietly(K, t)
  BY <1>1 DEF PopRelease, Goto, Set, Quietly, Writes, sanVars, ends, program, Unlinked,
     PushLabels, Typed, Types
<1>3. Op(t) = [kind |-> "popped", val |-> val[t]] /\ Op(t)' = [kind |-> "popped", val |-> val'[t]]
  BY <1>1, OpReads, OpCases DEF Carries
<1> QED BY <1>1, <1>2, <1>3, SilentMoves

(* The value moves from the dummy to the local that Op then speaks of.        *)
LEMMA PopSwapMoves ==
  ASSUME Hypotheses, Typed, Typed', NEW K, NEW O, NEW R, Inv(K, O, R), Carried,
         NEW t \in Threads, PopSwap(t)
  PROVE  Moves
<1>1. pc[t] = "pop_swap" /\ pc'[t] = "pop_size" /\ val'[t] = data[nxt[t]] /\ nxt[t] = head_
  BY DEF PopSwap, Goto, Set, Typed, Types, Inv, Popping
<1>2. Quietly(K, t)
  BY <1>1 DEF PopSwap, Quietly, Writes, Goto, Set, sanVars, ends, program, Unlinked, PushLabels,
     Typed, Types
<1>3. Op(t) = [kind |-> "popped", val |-> data[nxt[t]]] /\ Op(t)' = [kind |-> "popped", val |-> val'[t]]
  BY <1>1, OpReads, OpCases DEF Carries
<1> QED BY <1>1, <1>2, <1>3, SilentMoves

(* The end of Push.                                                           *)
LEMMA PushSizeMoves ==
  ASSUME Hypotheses, Typed, Typed', NEW K, NEW O, NEW R, Inv(K, O, R), Carried,
         NEW t \in Threads, PushSize(t)
  PROVE  Moves
<1>1. pc[t] = "push_size" /\ pc'[t] = "idle"
  BY DEF PushSize, Leave, Goto, Set, Typed, Types
<1>2. Quietly(K, t)
  BY <1>1 DEF PushSize, Leave, Goto, Set, Quietly, Writes, sanVars, ends, program, Unlinked,
     PushLabels, Typed, Types
<1>3. Op(t) = [kind |-> "pushed", val |-> NoValue] /\ Op(t)' = [kind |-> "idle", val |-> NoValue]
  BY <1>1, OpReads, OpCases
<1> QED BY <1>1, <1>2, <1>3, ReturnMoves

(* The end of Pop, with a value.                                              *)
LEMMA PopReturnMoves ==
  ASSUME Hypotheses, Typed, Typed', NEW K, NEW O, NEW R, Inv(K, O, R), Carried,
         NEW t \in Threads, PopReturn(t)
  PROVE  Moves
<1>1. pc[t] = "pop_return" /\ pc'[t] \in {"idle", "dtor_head", "dtor_loop"}
  BY DEF PopReturn, Leave, Caller, Goto, Set, Typed, Types
<1>2. Quietly(K, t)
  BY <1>1 DEF PopReturn, Leave, Caller, Goto, Set, Quietly, Writes, sanVars, ends, program,
       Unlinked,
     PushLabels, Typed, Types
<1>3. Op(t) = [kind |-> "popped", val |-> val[t]] /\ Op(t)' = [kind |-> "idle", val |-> NoValue]
  BY <1>1, OpReads, OpCases DEF Carries, DtorLabels
<1> QED BY <1>1, <1>2, <1>3, ReturnMoves

(* The call of Pop.                                                           *)
LEMMA PopCallMoves ==
  ASSUME Hypotheses, Typed, Typed', NEW K, NEW O, NEW R, Inv(K, O, R), Carried,
         NEW t \in Threads, PopCall(t)
  PROVE  Moves
<1>1. pc[t] = "idle" /\ pc'[t] = "pop_head"
  BY DEF PopCall, Goto, Set, Typed, Types
<1>2. Quietly(K, t)
  BY <1>1 DEF PopCall, Goto, Set, Quietly, Writes, sanVars, ends, program, Unlinked,
     PushLabels, Typed, Types
<1>3. Op(t) = [kind |-> "idle", val |-> NoValue] /\ Op(t)' = [kind |-> "pop", val |-> NoValue]
  BY <1>1, OpReads, OpCases DEF Seeks
<1> QED BY <1>1, <1>2, <1>3, CallPopMoves

(* A Pop returns null only where the queue is empty: h[t] is still the head.   *)
LEMMA PopNextEmptyMoves ==
  ASSUME Hypotheses, Typed, Typed', NEW K, NEW O, NEW R, Inv(K, O, R), Carried,
         NEW t \in Threads, PopNext(t), h[t] = tl[t], next_[h[t]] = NULL
  PROVE  Moves
<1>1. pc[t] = "pop_next" /\ pc'[t] \in {"idle", "dtor_head"}
  BY DEF PopNext, Leave, Caller, Goto, Set, Typed, Types
<1>2. Quietly(K, t)
  BY <1>1 DEF PopNext, Leave, Caller, Goto, Set, Quietly, Writes, sanVars, ends, program, Unlinked,
     PushLabels, Typed, Types
<1>3. Op(t) = [kind |-> "pop", val |-> NoValue] /\ Op(t)' = [kind |-> "idle", val |-> NoValue]
  BY <1>1, OpReads, OpCases DEF Seeks, DtorLabels
<1>4. next_[head_] = NULL
  BY <1>1 DEF Inv, Popping
<1> QED BY <1>1, <1>2, <1>3, <1>4, PopEmptyMoves

(* The n-th Push is called with the value n.                                  *)
LEMMA PushCallMoves ==
  ASSUME Hypotheses, Typed, Typed', NEW K, NEW O, NEW R, Inv(K, O, R), Carried,
         NEW t \in Threads, PushCall(t)
  PROVE  Moves
<1>1. pc[t] = "idle" /\ pc'[t] = "push_new" /\ val'[t] = pushes + 1 /\ pushes + 1 \in Values
  BY ValuesTyped DEF PushCall, Goto, Set, Typed, Types
<1>2. Quietly(K, t)
  BY <1>1 DEF PushCall, Quietly, Writes, Goto, Set, sanVars, ends, Unlinked, PushLabels,
       Typed, Types
<1>3. Op(t) = [kind |-> "idle", val |-> NoValue] /\ Op(t)' = [kind |-> "push", val |-> val'[t]]
  BY <1>1, OpReads, OpCases DEF Pushes
<1> QED BY <1>1, <1>2, <1>3, CallPushMoves

(* new: the node is nobody's, and carries the value of the Push from here on. *)
LEMMA PushNewMoves ==
  ASSUME Hypotheses, Typed, Typed', NEW K, NEW O, NEW R, Inv(K, O, R), Carried,
         NEW t \in Threads, PushNew(t)
  PROVE  Moves
<1>1. PICK n \in Nodes : /\ n \notin allocated /\ next_' = [next_ EXCEPT ![n] = NULL]
                         /\ data' = [data EXCEPT ![n] = val[t]] /\ new' = [new EXCEPT ![t] = n]
  BY DEF PushNew, Set
<1>2. /\ pc[t] = "push_new" /\ pc'[t] = "push_load"
      /\ \A u \in Threads : u # t => pc'[u] = pc[u] /\ new'[u] = new[u]
      /\ head_' = head_ /\ nxt' = nxt /\ val' = val
      /\ data'[n] = val[t] /\ new'[t] = n
  BY <1>1 DEF PushNew, Goto, ends, program, Typed, Types
<1>3. K[n] = "free"
  <2>1. Deleted = {}
    <3>0. pc[t] \in PushLabels
      BY <1>2 DEF PushLabels
    <3>1. pc[Main] = "idle"
      BY <3>0, PushIsNotMain
    <3> QED BY <3>1 DEF Deleted, Gone, Freeing
  <2> QED BY <1>1, <2>1 DEF Inv, Book
<1>4. \A m \in Nodes : m # n => next_'[m] = next_[m] /\ data'[m] = data[m]
  BY <1>1 DEF Typed, Types, SanTypeOK
<1>5. Contents' = Contents
  <2>1. \A m \in Nodes : K[m] = "list" => next_'[m] = next_[m] /\ data'[m] = data[m]
    BY <1>3, <1>4
  <2> QED BY <1>2, <2>1, ContentsKept
<1>6. Op(t)' = Op(t)
  <2>1. Op(t) = [kind |-> "push", val |-> val[t]] /\ Op(t)' = [kind |-> "push", val |-> val'[t]]
    BY <1>2, OpReads, OpCases DEF Pushes, Unlinked, PushLabels
  <2> QED BY <1>2, <2>1
<1>7. Ops' = Ops
  <2>1. Writes(K, t)
    BY <1>3, <1>4 DEF Writes
  <2>2. \A u \in Threads : u # t => Op(u)' = Op(u)
    BY <1>2, <2>1, OthersOp
  <2> QED BY <1>6, <2>2, OpsKeep
<1>8. Carried'
  <2> SUFFICES ASSUME NEW u \in Threads, pc'[u] \in Unlinked PROVE data'[new'[u]] = val'[u]
    BY DEF Carried
  <2>1. CASE u = t
    BY <1>2, <2>1
  <2>2. CASE u # t
    <3>1. pc[u] \in Unlinked /\ new'[u] = new[u]
      BY <1>2, <2>2
    <3>2. new[u] \in Nodes /\ K[new[u]] = "new"
      BY <3>1, PushHolds DEF Inv
    <3>3. data'[new[u]] = data[new[u]]
      BY <1>3, <1>4, <3>2
    <3> QED BY <1>2, <3>1, <3>3 DEF Carried
  <2> QED BY <2>1, <2>2
<1> QED BY <1>5, <1>7, <1>8 DEF Moves

(* A Push takes effect where it links its node behind the last one.           *)
LEMMA PushAppendOkMoves ==
  ASSUME Hypotheses, Typed, Typed', NEW K, NEW O, NEW R, Inv(K, O, R), Carried,
         NEW t \in Threads, PushAppend(t), next_[ori[t]] = NULL
  PROVE  Moves
<1>1. /\ pc[t] = "push_append" /\ pc'[t] = "push_swing"
      /\ \A u \in Threads : u # t => pc'[u] = pc[u]
      /\ next_' = [next_ EXCEPT ![ori[t]] = new[t]]
      /\ UNCHANGED <<head_, data, nxt, new, val>>
  BY DEF PushAppend, Goto, ends, program, Typed, Types
<1>2. /\ ori[t] \in Nodes /\ K[ori[t]] = "list" /\ R[ori[t]] = 1
  BY <1>1, LinksAtTail
<1>3. PICK n \in Nodes : n = new[t] /\ K[n] = "new" /\ next_[n] = NULL /\ data[n] = val[t]
  <2>1. pc[t] \in Unlinked
    BY <1>1 DEF Unlinked, PushLabels
  <2>2. new[t] \in Nodes /\ K[new[t]] = "new" /\ next_[new[t]] = NULL
    BY <2>1, PushHolds DEF Inv
  <2> QED BY <2>1, <2>2 DEF Carried
<1>4. /\ IsList(At(K, "list"), R, next_, head_) /\ head_ \in Nodes /\ K[head_] = "list"
      /\ next_ \in [Nodes -> Ptr] /\ IsFiniteSet(Nodes) /\ next_[head_] \in Ptr
      /\ data \in [Nodes -> Values \cup {NoValue}]
  BY ContentsList, EndsOf DEF Inv, QueueList
<1>5. next_' \in [Nodes -> Ptr]
  BY DEF Typed, Types, SanTypeOK
<1>6. /\ next_'[ori[t]] = n /\ next_'[n] = NULL
      /\ \A m \in Nodes : m # ori[t] => next_'[m] = next_[m]
  BY <1>1, <1>2, <1>3, <1>4
<1>7. PICK S : S = At(K, "list")
  OBVIOUS
<1>8. \A m \in Nodes : m \in S <=> K[m] = "list"
  BY <1>7 DEF At
<1>9. Linked(S, R, next_, next_', n)
  <2>1. n \notin S /\ S \subseteq Nodes
    BY <1>3, <1>7, <1>8 DEF At
  <2>2. \A m \in S : R[m] = 1 => m = ori[t]
    BY <1>2, <1>8, <2>1, EndsOf DEF Inv
  <2> QED BY <1>2, <1>6, <2>1, <2>2 DEF Linked
<1>10. PICK v \in Values \cup {NoValue} : v = val[t]
  BY DEF Typed, Types
<1>11. PICK c \in Seq(Values \cup {NoValue}) : c = Contents
  BY <1>4, ContentsType, ContentsAre
<1>12. Contents' = c \o <<v>>
  <2>1. CASE next_[head_] = NULL
    <3>1. head_ = ori[t]
      BY <1>2, <1>4, <2>1, EndsOf DEF Inv
    <3>2. Contents' = ContentsOf(next_', data, n)
      BY <1>1, <1>6, <3>1, ContentsAre
    <3>3. ContentsOf(next_', data, n) = <<data[n]>>
      BY <1>4, <1>5, <1>6, ContentsAlone
    <3>4. c = <<>>
      BY <1>4, <1>11, <2>1, ContentsOfNull, ContentsAre
    <3>5. <<>> \o <<v>> = <<v>>
      OBVIOUS
    <3> QED BY <1>3, <1>10, <3>2, <3>3, <3>4, <3>5
  <2>2. CASE next_[head_] # NULL
    <3>1. PICK m \in S : m = next_[head_]
      BY <1>4, <1>8, <2>2, EndsOf DEF Inv
    <3>2. Contents' = ContentsOf(next_', data, m)
      <4>1. head_ # ori[t]
        BY <2>2
      <4>2. next_'[head_] = m
        BY <1>4, <1>6, <3>1, <4>1
      <4> QED BY <1>1, <4>2, ContentsAre
    <3>3. IsList(S, R, next_, head_)
      BY <1>4, <1>7
    <3>4. ContentsOf(next_', data, m) = ContentsOf(next_, data, m) \o <<data[n]>>
      <4>1. PICK ny \in [Nodes -> Ptr] : ny = next_'
        BY <1>5
      <4>2. Linked(S, R, next_, ny, n)
        BY <1>9, <4>1
      <4>3. Appended(ny, next_, data, S, n)
        BY <1>4, <3>3, <4>2, ContentsAppend
      <4> QED BY <4>1, <4>3 DEF Appended
    <3>5. ContentsOf(next_, data, m) = c
      BY <1>11, <3>1, ContentsAre
    <3> QED BY <1>3, <1>10, <3>2, <3>4, <3>5
  <2> QED BY <2>1, <2>2
<1>13. Contents' = Append(Contents, val[t])
  <2>1. Append(c, v) = c \o <<v>>
    BY AppendIsConcat
  <2> QED BY <1>10, <1>11, <1>12, <2>1
<1>14. Op(t) = [kind |-> "push", val |-> val[t]] /\ Op(t)' = [kind |-> "pushed", val |-> NoValue]
  BY <1>1, OpReads, OpCases DEF Pushes, Unlinked, PushLabels
<1>15. Ops' = [Ops EXCEPT ![t] = [kind |-> "pushed", val |-> NoValue]]
  <2>1. Writes(K, t)
    BY <1>1 DEF Writes
  <2>2. \A u \in Threads : u # t => pc'[u] = pc[u] /\ val'[u] = val[u] /\ nxt'[u] = nxt[u]
    BY <1>1
  <2>3. \A u \in Threads : u # t => Op(u)' = Op(u)
    BY <2>1, <2>2, OthersOp
  <2> QED BY <1>14, <2>3, OpsMove
<1>16. Ops'[t] # Ops[t] /\ Ops[t] = [kind |-> "push", val |-> val[t]]
  BY <1>14, <1>15 DEF Ops
<1>17. Atomic!Push(t)
  BY <1>13, <1>15, <1>16 DEF Atomic!Push, Ops
<1>18. Atomic!Next
  BY <1>16, <1>17 DEF Atomic!Next, Ops
<1>19. Carried'
  BY <1>1 DEF Carried, Unlinked
<1> QED BY <1>18, <1>19 DEF Moves

(* And a Pop where it shifts the head: it takes the first of the contents.    *)
LEMMA PopCasOkMoves ==
  ASSUME Hypotheses, Typed, Typed', NEW K, NEW O, NEW R, Inv(K, O, R), Carried,
         NEW t \in Threads, PopCas(t), head_ = h[t]
  PROVE  Moves
<1>1. /\ pc[t] = "pop_cas" /\ pc'[t] = "pop_swap" /\ head_' = nxt[t]
      /\ \A u \in Threads : u # t => pc'[u] = pc[u]
      /\ UNCHANGED <<next_, data, nxt, new, val>>
  BY DEF PopCas, Goto, sanVars, program, Typed, Types
<1>2. PICK m \in Nodes : m = nxt[t] /\ m = next_[head_] /\ m # NULL
  <2>1. nxt[t] # NULL
    BY <1>1, FoundNext
  <2>2. nxt[t] = next_[head_]
    BY <1>1 DEF Inv, Popping, Found
  <2>3. next_[head_] \in Ptr
    BY ContentsList DEF Inv
  <2> QED BY <2>1, <2>2, <2>3 DEF Ptr
<1>3. /\ IsList(At(K, "list") \ {head_}, R, next_, m)
      /\ IsFiniteSet(Nodes) /\ next_ \in [Nodes -> Ptr] /\ next_[m] \in Ptr
      /\ data \in [Nodes -> Values \cup {NoValue}]
  BY <1>2, ContentsList DEF Inv
<1>4. PICK rest \in Seq(Values \cup {NoValue}) : rest = Contents' /\ Contents = <<data[m]>> \o rest
  <2>1. ContentsOf(next_, data, m) = <<data[m]>> \o ContentsOf(next_, data, next_[m])
    BY <1>2, <1>3, ContentsFirst
  <2>2. ContentsOf(next_, data, next_[m]) \in Seq(Values \cup {NoValue})
    BY <1>3, ContentsType
  <2> QED BY <1>1, <1>2, <2>1, <2>2, ContentsAre
<1>5. Contents # <<>> /\ Head(Contents) = data[m] /\ Tail(Contents) = Contents'
  <2>1. data[m] \in Values \cup {NoValue}
    BY <1>3
  <2> QED BY <1>4, <2>1, PushedFirst
<1>6. /\ Op(t) = [kind |-> "pop", val |-> NoValue]
      /\ Op(t)' = [kind |-> "popped", val |-> Head(Contents)]
  <2>1. OpAt(pc[t], val[t], data[nxt[t]]) = [kind |-> "pop", val |-> NoValue]
    BY <1>1, OpCases DEF Seeks
  <2>2. OpAt(pc'[t], val'[t], data'[nxt'[t]]) = [kind |-> "popped", val |-> data'[nxt'[t]]]
    BY <1>1, OpCases
  <2>3. data'[nxt'[t]] = Head(Contents)
    BY <1>1, <1>2, <1>5
  <2> QED BY <2>1, <2>2, <2>3, OpReads
<1>7. Ops' = [Ops EXCEPT ![t] = [kind |-> "popped", val |-> Head(Contents)]]
  <2>1. Writes(K, t)
    BY <1>1 DEF Writes
  <2>2. \A u \in Threads : u # t => pc'[u] = pc[u] /\ val'[u] = val[u] /\ nxt'[u] = nxt[u]
    BY <1>1
  <2>3. \A u \in Threads : u # t => Op(u)' = Op(u)
    BY <2>1, <2>2, OthersOp
  <2> QED BY <1>6, <2>3, OpsMove
<1>8. Ops'[t] # Ops[t] /\ Ops[t] = [kind |-> "pop", val |-> NoValue]
  BY <1>6, <1>7 DEF Ops
<1>9. Atomic!Pop(t)
  BY <1>5, <1>7, <1>8 DEF Atomic!Pop, Ops
<1>10. Atomic!Next
  BY <1>8, <1>9 DEF Atomic!Next, Ops
<1>11. Carried'
  BY <1>1 DEF Carried, Unlinked, PushLabels
<1> QED BY <1>10, <1>11 DEF Moves

(* A step that leaves the list alone, and moves no thread into a call or out   *)
(* of one.                                                                   *)
Apart(K) ==
  /\ head_' = head_ /\ data' = data /\ nxt' = nxt /\ new' = new /\ val' = val
  /\ \A n \in Nodes : K[n] = "list" => next_'[n] = next_[n]
  /\ \A u \in Threads : \/ pc'[u] = pc[u]
                        \/ pc[u] \in {"idle"} \cup DtorLabels /\ pc'[u] \in {"idle"} \cup DtorLabels

(* Deletions, the background thread and the destructor are of this kind.      *)
LEMMA ApartMoves ==
  ASSUME Hypotheses, Typed, Typed', NEW K, NEW O, NEW R, Inv(K, O, R), Carried,
         Apart(K)
  PROVE  Moves
<1>1. Contents' = Contents
  BY ContentsKept DEF Apart
<1>2. ASSUME NEW u \in Threads PROVE Op(u)' = Op(u)
  <2>1. CASE pc'[u] = pc[u]
    <3>1. OpAt(pc'[u], val'[u], data'[nxt'[u]]) = OpAt(pc[u], val[u], data[nxt[u]])
      BY <2>1 DEF Apart
    <3> QED BY <3>1, OpReads
  <2>2. CASE pc[u] \in {"idle"} \cup DtorLabels /\ pc'[u] \in {"idle"} \cup DtorLabels
    <3>1. /\ OpAt(pc[u], val[u], data[nxt[u]]) = [kind |-> "idle", val |-> NoValue]
          /\ OpAt(pc'[u], val'[u], data'[nxt'[u]]) = [kind |-> "idle", val |-> NoValue]
      BY <2>2, OpCases
    <3> QED BY <3>1, OpReads
  <2> QED BY <2>1, <2>2 DEF Apart
<1>3. Ops' = Ops
  BY <1>2, OpsKeep
<1>4. Carried'
  BY DEF Apart, Carried, DtorLabels, Unlinked, PushLabels
<1> QED BY <1>1, <1>3, <1>4 DEF Moves

(* A deletion writes to next_ of the node in hand only.                       *)
LEMMA DeletionMoves ==
  ASSUME Hypotheses, Typed, Typed', NEW K, NEW O, NEW R, Inv(K, O, R), Carried,
         NEW a \in Agents, Deletion(a)
  PROVE  Moves
<1>1. head_' = head_ /\ UNCHANGED <<data, pc, nxt, new, val>>
  BY DEF Deletion, locals, ends
<1>2. ASSUME NEW n \in Nodes, K[n] = "list" PROVE next_'[n] = next_[n]
  <2>1. CASE DelayLink(a)
    <3>1. del[a].node # NULL
      BY <2>1 DEF DelayLink, Typed, Frames
    <3>2. K[del[a].node] = "hand"
      BY <3>1, HandOf DEF Inv
    <3> QED BY <1>2, <2>1, <3>2 DEF DelayLink, Typed, Types, SanTypeOK
  <2>2. CASE ~DelayLink(a)
    BY <2>2 DEF Deletion, DeleteStep, ScanMiss, ScanHit, ImmediateDelete, DelayLoad, DelayCas,
                BackExchange, BackNext
  <2> QED BY <2>1, <2>2
<1>3. Apart(K)
  BY <1>1, <1>2 DEF Apart
<1> QED BY <1>3, ApartMoves

(* The background thread wakes.                                               *)
LEMMA BackWakeMoves ==
  ASSUME Hypotheses, Typed, Typed', NEW K, NEW O, NEW R, Inv(K, O, R), Carried,
         BackWake, UNCHANGED <<ends, size_, data, locals>>
  PROVE  Moves
<1>1. head_' = head_ /\ next_' = next_ /\ UNCHANGED <<data, pc, nxt, new, val>>
  BY DEF BackWake, locals, ends
<1>2. Apart(K)
  BY <1>1 DEF Apart
<1> QED BY <1>2, ApartMoves

(* No variable changes.                                                       *)
LEMMA StutterMoves ==
  ASSUME Hypotheses, Typed, Typed', NEW K, NEW O, NEW R, Inv(K, O, R), Carried, UNCHANGED vars
  PROVE  Moves
<1>1. head_' = head_ /\ next_' = next_ /\ UNCHANGED <<data, pc, nxt, new, val>>
  BY DEF vars, sanVars, locals, ends
<1>2. Apart(K)
  BY <1>1 DEF Apart
<1> QED BY <1>2, ApartMoves

(* The destructor outside its loop.                                           *)
LEMMA DestructorMoves ==
  ASSUME Hypotheses, Typed, Typed', NEW K, NEW O, NEW R, Inv(K, O, R), Carried,
         Destroy \/ DtorHead \/ DtorStop \/ DtorJoin \/ DtorTake \/ DtorDelete \/ DtorEnd
  PROVE  Moves
<1>1. head_' = head_ /\ UNCHANGED <<next_, data, nxt, new, val>>
  BY DEF Destroy, DtorHead, DtorStop, DtorJoin, DtorTake, DtorDelete, DtorEnd, DtorStep,
         StopBack, JoinBack, DtorExchange, DtorFree, sanVars, ends
<1>2. /\ \A u \in Threads : u # Main => pc'[u] = pc[u]
      /\ pc[Main] \in {"idle"} \cup DtorLabels /\ pc'[Main] \in {"idle"} \cup DtorLabels
  BY MainAssumption DEF Destroy, DtorHead, DtorStop, DtorJoin, DtorTake, DtorDelete, DtorEnd,
       DtorStep,
         Goto, DtorLabels, Typed, Types
<1>3. Apart(K)
  BY <1>1, <1>2 DEF Apart
<1> QED BY <1>3, ApartMoves

(* The loop of the destructor calls Pop.                                      *)
LEMMA DtorLoopMoves ==
  ASSUME Hypotheses, Typed, Typed', NEW K, NEW O, NEW R, Inv(K, O, R), Carried, DtorLoop
  PROVE  Moves
<1>1. PICK t \in Threads : t = Main
  BY MainAssumption
<1>2. pc[t] = "dtor_loop" /\ pc'[t] = "pop_head"
  BY <1>1 DEF DtorLoop, DtorStep, Goto, Typed, Types
<1>3. Quietly(K, t)
  BY <1>1, <1>2 DEF DtorLoop, DtorStep, Quietly, Writes, Goto, sanVars, ends, Unlinked,
         PushLabels, Typed, Types
<1>4. Op(t) = [kind |-> "idle", val |-> NoValue] /\ Op(t)' = [kind |-> "pop", val |-> NoValue]
  BY <1>2, OpReads, OpCases DEF DtorLabels, Seeks
<1> QED BY <1>3, <1>4, CallPopMoves

(* The steps of a thread.                                                     *)
LEMMA StepMoves ==
  ASSUME Hypotheses, Typed, Typed', NEW K, NEW O, NEW R, Inv(K, O, R), Carried,
         NEW t \in Threads, Call(t) \/ Step(t)
  PROVE  Moves
<1>1. CASE Call(t)
  BY <1>1, PushCallMoves, PopCallMoves DEF Call
<1>2. CASE PushNew(t) \/ PushLoad(t) \/ PushAccess(t) \/ PushNext(t) \/ PushHelp(t) \/ PushSwing(t)
           \/ PushSize(t)
  BY <1>2, PushNewMoves, PushLoadMoves, PushAccessMoves, PushNextMoves, PushHelpMoves,
     PushSwingMoves, PushSizeMoves
<1>3. CASE PushRecheck(t)
  BY <1>3, PushRecheckAgainMoves, PushRecheckOkMoves
<1>4. CASE PushAppend(t)
  BY <1>4, PushAppendOkMoves, PushAppendFailsMoves
<1>5. CASE PopHead(t) \/ PopTail(t) \/ PopHelp(t) \/ PopAccessHead(t) \/ PopAccessNext(t)
  BY <1>5, PopHeadMoves, PopTailMoves, PopHelpMoves, PopAccessHeadMoves, PopAccessNextMoves
<1>6. CASE PopNext(t)
  BY <1>6, PopNextEmptyMoves, PopNextFoundMoves
<1>7. CASE PopCas(t)
  BY <1>7, PopCasOkMoves, PopCasFailsMoves
<1>8. CASE PopSwap(t) \/ PopSize(t) \/ PopReset(t) \/ PopRelease(t) \/ PopReturn(t)
  BY <1>8, PopSwapMoves, PopSizeMoves, PopResetMoves, PopReleaseMoves, PopReturnMoves
<1>9. CASE Deletion(t)
  <2>1. t \in Agents
    BY DEF Agents
  <2> QED BY <1>9, <2>1, DeletionMoves
<1> QED BY <1>1, <1>2, <1>3, <1>4, <1>5, <1>6, <1>7, <1>8, <1>9 DEF Step

(* All steps.                                                                 *)
LEMMA NextMoves ==
  ASSUME Hypotheses, IInv, IInv', Carried, [Next]_vars
  PROVE  Moves
<1> SUFFICES ASSUME Typed, Typed', NEW K, NEW O, NEW R, Inv(K, O, R) PROVE Moves
  BY DEF IInv
<1>1. CASE \E t \in Threads : Call(t) \/ Step(t)
  BY <1>1, StepMoves
<1>2. CASE BackStep
  <2>1. Back \in Agents
    BY DEF Agents
  <2> QED BY <1>2, <2>1, BackWakeMoves, DeletionMoves DEF BackStep
<1>3. CASE Destroy \/ Destructor
  BY <1>3, DestructorMoves, DtorLoopMoves DEF Destructor
<1>4. CASE UNCHANGED vars
  BY <1>4, StutterMoves
<1> QED BY <1>1, <1>2, <1>3, <1>4 DEF Next

(* Where one thread pops, and one pushes beside it, the queue is linearizable  *)
(* (Concurrent.hpp, Push and Pop): every behaviour is one of a queue on which  *)
(* each Push and each Pop takes effect at once, so that no value is lost, none *)
(* is returned twice, and they come back first in, first out.                 *)
THEOREM QueueIsLinearizable == ASSUME Hypotheses PROVE Spec => Linearizable
<1>1. Init => Atomic!Init /\ Carried
  <2> SUFFICES ASSUME Init PROVE Atomic!Init /\ Carried
    OBVIOUS
  <2>1. FirstDummy \in Nodes
    BY DEF FirstDummy, Hypotheses, FiniteSystem
  <2>2. next_ \in [Nodes -> Ptr] /\ IsFiniteSet(Nodes) /\ next_[head_] = NULL
    BY <2>1 DEF Init, Hypotheses, FiniteSystem, Ptr
  <2>3. Contents = <<>>
    BY <2>2, ContentsOfNull, ContentsAre
  <2>4. \A t \in Threads : Op(t) = [kind |-> "idle", val |-> NoValue]
    BY OpReads, OpCases DEF Init
  <2>5. Carried
    BY DEF Init, Carried, Unlinked, PushLabels
  <2> QED BY <2>3, <2>4, <2>5 DEF Atomic!Init, Atomic!Idle
<1>2. IInv /\ IInv' /\ Carried /\ [Next]_vars
        => Carried' /\ [Atomic!Next]_<<Contents, [t \in Threads |-> Op(t)]>>
  BY NextMoves DEF Moves, Ops
<1> QED BY <1>1, <1>2, Inductive, PTL DEF Spec, Linearizable, Atomic!Spec
==============================================================================
