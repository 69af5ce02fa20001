---------------------------- MODULE LoggerProofs ----------------------------
(***************************************************************************)
(* Proofs about Logger, for any finite number of logging threads, any number  *)
(* of callers, messages and blocks of any size.  First what the sum of a      *)
(* function is, since the swap buffer claims to hold all that was consumed;   *)
(* then IInv, which is inductive, and the books and the answers to sync that  *)
(* follow from it.                                                           *)
(***************************************************************************)
EXTENDS Logger, FiniteSetTheorems, WellFoundedInduction, TLAPS

(***************************************************************************)
(* Sums over finite sets.  The induction theorems of the library take an      *)
(* operator; a set of numbers has a least element, and that serves as well.  *)
(***************************************************************************)

(* A set of numbers has a least element.                                    *)
LEMMA LeastNumber ==
  ASSUME NEW T \in SUBSET Nat, T # {}
  PROVE  \E n \in T : \A k \in T : n <= k
<1>1. IsWellFoundedOn(OpToRel(<, Nat), Nat)
  BY NatLessThanWellFounded
<1>2. PICK R : R = OpToRel(<, Nat)
  OBVIOUS
<1>3. PICK n \in T : \A k \in T : ~ (<<k, n>> \in R)
  BY <1>1, <1>2, WFMin
<1>4. \A k \in T : ~ (k < n)
  BY <1>2, <1>3 DEF OpToRel
<1> QED BY <1>3, <1>4

(* The element that FoldFunction takes next.                                *)
Pick(s) == CHOOSE x \in s : TRUE

(* CHOOSE takes an element of the set.                                      *)
LEMMA PickIn == ASSUME NEW s, s # {} PROVE Pick(s) \in s
  BY DEF Pick

(* Taking that element makes a finite set smaller by one.                   *)
LEMMA SizeFacts ==
  ASSUME NEW S, IsFiniteSet(S), NEW s \in SUBSET S
  PROVE  /\ Cardinality(s) \in Nat
         /\ Cardinality(s) = 0 <=> s = {}
         /\ s # {} => /\ s \ {Pick(s)} \in SUBSET S
                      /\ Cardinality(s \ {Pick(s)}) = Cardinality(s) - 1
<1>1. IsFiniteSet(s)
  BY FS_Subset
<1>2. Cardinality(s) \in Nat /\ (Cardinality(s) = 0 <=> s = {})
  BY <1>1, FS_CardinalityType, FS_EmptySet
<1>3. ASSUME s # {} PROVE Cardinality(s \ {Pick(s)}) = Cardinality(s) - 1
  BY <1>1, <1>3, PickIn, FS_RemoveElement
<1> QED BY <1>2, <1>3

(* What holds of the empty set, and of a set if it holds of it without the    *)
(* element that is taken next, holds of all.                                *)
LEMMA TakingInduction ==
  ASSUME NEW S, IsFiniteSet(S), NEW P, {} \in P,
         \A s \in SUBSET S : s # {} /\ s \ {Pick(s)} \in P => s \in P
  PROVE  S \in P
<1> SUFFICES ASSUME S \notin P PROVE FALSE
  OBVIOUS
<1>1. PICK T : T = {Cardinality(s) : s \in {z \in SUBSET S : z \notin P}}
  OBVIOUS
<1>2. T \in SUBSET Nat /\ T # {}
  <2>1. S \in {z \in SUBSET S : z \notin P}
    OBVIOUS
  <2>2. \A s \in SUBSET S : Cardinality(s) \in Nat
    BY SizeFacts
  <2> QED BY <1>1, <2>1, <2>2
<1>3. PICK n \in T : \A k \in T : n <= k
  BY <1>2, LeastNumber
<1>4. PICK s \in SUBSET S : s \notin P /\ n = Cardinality(s)
  BY <1>1, <1>3
<1>5. s # {} /\ s \ {Pick(s)} \in SUBSET S /\ s \ {Pick(s)} \notin P
  BY <1>4
<1>6. Cardinality(s \ {Pick(s)}) \in T
  BY <1>1, <1>5
<1>7. Cardinality(s) \in Nat /\ Cardinality(s \ {Pick(s)}) = Cardinality(s) - 1
  BY <1>5, SizeFacts
<1> QED BY <1>3, <1>4, <1>6, <1>7

(* The recursion that a fold is the last value of.                          *)
Step(b, f, it, s) == IF s = {} THEN b ELSE f[Pick(s)] + it[s \ {Pick(s)}]

Iterates(b, f, S, it) ==
  it \in [SUBSET S -> Nat] /\ \A s \in SUBSET S : it[s] = Step(b, f, it, s)

(* It is defined on the sets of at most n elements, whatever n.             *)
LEMMA IterationExists ==
  ASSUME NEW S, IsFiniteSet(S), NEW b \in Nat, NEW f \in [S -> Nat]
  PROVE  \E it : Iterates(b, f, S, it)
<1>1. PICK size \in [SUBSET S -> Nat] :
        /\ \A s \in SUBSET S : size[s] = 0 <=> s = {}
        /\ \A s \in SUBSET S :
             s # {} => s \ {Pick(s)} \in SUBSET S /\ size[s \ {Pick(s)}] = size[s] - 1
        /\ \A s \in SUBSET S : size[s] <= size[S]
  <2>1. PICK size : size = [s \in SUBSET S |-> Cardinality(s)]
    OBVIOUS
  <2>2. \A s \in SUBSET S : Cardinality(s) <= Cardinality(S)
    BY FS_Subset
  <2>3. \A s \in SUBSET S : Cardinality(s) \in Nat /\ (Cardinality(s) = 0 <=> s = {})
    BY SizeFacts
  <2>4. \A s \in SUBSET S : s # {} =>
          s \ {Pick(s)} \in SUBSET S /\ Cardinality(s \ {Pick(s)}) = Cardinality(s) - 1
    BY SizeFacts
  <2> QED BY <2>1, <2>2, <2>3, <2>4
<1>2. PICK good : good = {n \in Nat : \E it \in [SUBSET S -> Nat] :
                            \A s \in SUBSET S : size[s] <= n => it[s] = Step(b, f, it, s)}
  OBVIOUS
<1>3. 0 \in good
  <2>1. PICK it : it = [s \in SUBSET S |-> b]
    OBVIOUS
  <2>2. it \in [SUBSET S -> Nat] /\ \A s \in SUBSET S : size[s] <= 0 => it[s] = Step(b, f, it, s)
    BY <1>1, <2>1 DEF Step
  <2> QED BY <1>2, <2>2
<1>4. ASSUME NEW n \in good PROVE n + 1 \in good
  <2>1. n \in Nat
    BY <1>2
  <2>2. PICK it \in [SUBSET S -> Nat] :
          \A s \in SUBSET S : size[s] <= n => it[s] = Step(b, f, it, s)
    BY <1>2
  <2>3. PICK next : next = [s \in SUBSET S |-> IF size[s] <= n THEN it[s] ELSE
                              IF s = {} THEN b ELSE f[Pick(s)] + it[s \ {Pick(s)}]]
    OBVIOUS
  <2>4. \A s \in SUBSET S : s # {} => f[Pick(s)] \in Nat /\ it[s \ {Pick(s)}] \in Nat
    BY PickIn
  <2>5. next \in [SUBSET S -> Nat]
    BY <2>3, <2>4
  <2>6. ASSUME NEW s \in SUBSET S, size[s] <= n + 1 PROVE next[s] = Step(b, f, next, s)
    <3>1. CASE s = {}
      BY <1>1, <2>1, <2>2, <2>3, <3>1 DEF Step
    <3>2. CASE s # {}
      <4>1. PICK r \in SUBSET S : r = s \ {Pick(s)}
        BY <1>1, <3>2
      <4>2. size[r] <= n /\ size[r] \in Nat /\ size[s] \in Nat
        BY <1>1, <2>1, <2>6, <3>2, <4>1
      <4>3. next[r] = it[r]
        BY <2>3, <4>2
      <4>4. next[s] = f[Pick(s)] + it[r]
        <5>1. CASE size[s] <= n
          BY <2>2, <2>3, <3>2, <4>1, <5>1 DEF Step
        <5>2. CASE ~(size[s] <= n)
          BY <2>3, <3>2, <4>1, <5>2
        <5> QED BY <5>1, <5>2
      <4> QED BY <3>2, <4>1, <4>3, <4>4 DEF Step
    <3> QED BY <3>1, <3>2
  <2> QED BY <1>2, <2>1, <2>5, <2>6
<1>5. Nat \subseteq good
  <2>0. PICK T \in SUBSET Nat : T = Nat \ good
    OBVIOUS
  <2> SUFFICES ASSUME T # {} PROVE FALSE
    BY <2>0
  <2>1. PICK n \in T : \A k \in T : n <= k
    BY LeastNumber
  <2>2. n # 0 /\ n \in Nat
    BY <1>3, <2>0
  <2>3. n - 1 \in Nat /\ n - 1 \notin T /\ (n - 1) + 1 = n
    BY <2>1, <2>2
  <2>4. n - 1 \in good
    BY <2>0, <2>3
  <2>5. (n - 1) + 1 \in good
    BY <1>4, <2>4
  <2> QED BY <2>0, <2>3, <2>5
<1>6. PICK it \in [SUBSET S -> Nat] :
        \A s \in SUBSET S : size[s] <= size[S] => it[s] = Step(b, f, it, s)
  <2>1. size[S] \in good
    BY <1>1, <1>5
  <2> QED BY <1>2, <2>1
<1> QED BY <1>1, <1>6 DEF Iterates

Sum(b, f) == FoldFunction(+, b, f)

(* The fold of the model is the value of that recursion for the whole set.  *)
LEMMA SumIsIteration ==
  ASSUME NEW S, IsFiniteSet(S), NEW b \in Nat, NEW f \in [S -> Nat]
  PROVE  \E it : Iterates(b, f, S, it) /\ Sum(b, f) = it[S]
<1> DEFINE Recursion(h) == h = [s \in SUBSET DOMAIN f |-> IF s = {} THEN b
                             ELSE f[CHOOSE x \in s : TRUE] + h[s \ {CHOOSE x \in s : TRUE}]]
<1>1. PICK it : it = CHOOSE h : Recursion(h)
  OBVIOUS
<1>2. Sum(b, f) = it[DOMAIN f]
  BY <1>1 DEF Sum, FoldFunction, FoldFunctionOnSet, MapThenFoldSet
<1>3. PICK g : Iterates(b, f, S, g)
  BY IterationExists
<1>4. Recursion(g)
  BY <1>3 DEF Iterates, Step, Pick
<1>5. Recursion(it)
  <2> HIDE DEF Recursion
  <2> QED BY <1>1, <1>4
<1>6. it = [s \in SUBSET S |-> Step(b, f, it, s)]
  BY <1>5 DEF Step, Pick
<1>7. it \in [SUBSET S -> Nat]
  <2>1. PICK P : P = {s \in SUBSET S : it[s] \in Nat}
    OBVIOUS
  <2> SUFFICES ASSUME NEW z \in SUBSET S PROVE it[z] \in Nat
    BY <1>6
  <2>2. IsFiniteSet(z)
    BY FS_Subset
  <2>3. {} \in P
    BY <1>6, <2>1 DEF Step
  <2>4. ASSUME NEW s \in SUBSET z, s # {}, s \ {Pick(s)} \in P PROVE s \in P
    <3>1. Pick(s) \in S /\ s \in SUBSET S
      BY <2>4, PickIn
    <3>2. it[s] = f[Pick(s)] + it[s \ {Pick(s)}]
      BY <1>6, <2>4, <3>1 DEF Step
    <3> QED BY <2>1, <2>4, <3>1, <3>2
  <2>5. z \in P
    BY <2>2, <2>3, <2>4, TakingInduction
  <2> QED BY <2>1, <2>5
<1>8. \A s \in SUBSET S : it[s] = Step(b, f, it, s)
  BY <1>6
<1> QED BY <1>2, <1>7, <1>8 DEF Iterates

(* What the recursion says of no elements, and of some.                      *)
LEMMA IterationFacts ==
  ASSUME NEW S, NEW b, NEW f, NEW it, Iterates(b, f, S, it)
  PROVE  /\ it[{}] = b
         /\ \A s \in SUBSET S : s # {} =>
              /\ it[s] = f[Pick(s)] + it[s \ {Pick(s)}]
              /\ s \ {Pick(s)} \in SUBSET S /\ Pick(s) \in S
              /\ it[s] \in Nat /\ it[s \ {Pick(s)}] \in Nat
  BY PickIn DEF Iterates, Step

(* Nothing adds up to nothing.                                              *)
LEMMA SumOfNothing ==
  ASSUME NEW S, IsFiniteSet(S), NEW f \in [S -> Nat], \A p \in S : f[p] = 0
  PROVE  Sum(0, f) = 0
<1>1. PICK it : Iterates(0, f, S, it) /\ Sum(0, f) = it[S]
  BY SumIsIteration
<1>2. PICK P : P = {s \in SUBSET S : it[s] = 0}
  OBVIOUS
<1>3. {} \in P
  BY <1>1, <1>2, IterationFacts
<1>4. \A s \in SUBSET S : s # {} /\ s \ {Pick(s)} \in P => s \in P
  BY <1>1, <1>2, IterationFacts
<1>5. S \in P
  BY <1>3, <1>4, TakingInduction
<1> QED BY <1>1, <1>2, <1>5

(* One more in one place is one more in the sum.                            *)
LEMMA SumAdds ==
  ASSUME NEW S, IsFiniteSet(S), NEW f \in [S -> Nat], NEW g \in [S -> Nat],
         NEW p \in S, NEW n \in Nat, g[p] = f[p] + n, \A q \in S \ {p} : g[q] = f[q]
  PROVE  Sum(0, g) = Sum(0, f) + n
<1>1. PICK it : Iterates(0, f, S, it) /\ Sum(0, f) = it[S]
  BY SumIsIteration
<1>2. PICK jt : Iterates(0, g, S, jt) /\ Sum(0, g) = jt[S]
  BY SumIsIteration
<1>i. \A s \in SUBSET S : s # {} =>
        /\ Pick(s) \in S /\ s \ {Pick(s)} \in SUBSET S
        /\ it[s] = f[Pick(s)] + it[s \ {Pick(s)}] /\ it[s \ {Pick(s)}] \in Nat
  BY <1>1, IterationFacts
<1>j. \A s \in SUBSET S : s # {} =>
        jt[s] = g[Pick(s)] + jt[s \ {Pick(s)}] /\ jt[s \ {Pick(s)}] \in Nat
  BY <1>2, IterationFacts
<1>3. PICK P : P = {s \in SUBSET S : jt[s] = IF p \in s THEN it[s] + n ELSE it[s]}
  OBVIOUS
<1>4. {} \in P
  BY <1>1, <1>2, <1>3, IterationFacts
<1>5. ASSUME NEW s \in SUBSET S, s # {}, s \ {Pick(s)} \in P PROVE s \in P
  <2>0. Pick(s) \in S /\ s \ {Pick(s)} \in SUBSET S
        /\ it[s] = f[Pick(s)] + it[s \ {Pick(s)}] /\ it[s \ {Pick(s)}] \in Nat
    BY <1>5, <1>i
  <2>a. jt[s] = g[Pick(s)] + jt[s \ {Pick(s)}] /\ jt[s \ {Pick(s)}] \in Nat
    BY <1>5, <1>j
  <2>1. PICK r \in SUBSET S, x \in S : r = s \ {x} /\ x = Pick(s)
    BY <2>0
  <2>2. x \in s
    BY <1>5, <2>1, PickIn
  <2>3. it[s] = f[x] + it[r] /\ it[r] \in Nat
    BY <2>0, <2>1
  <2>4. jt[s] = g[x] + jt[r] /\ jt[r] \in Nat
    BY <2>a, <2>1
  <2>5. jt[r] = IF p \in r THEN it[r] + n ELSE it[r]
    BY <1>3, <1>5, <2>1
  <2>6. CASE x = p
    <3>1. g[x] = f[x] + n /\ f[x] \in Nat /\ p \notin r /\ p \in s
      BY <2>1, <2>2, <2>6
    <3>2. jt[s] = it[s] + n
      BY <2>3, <2>4, <2>5, <3>1
    <3> QED BY <1>3, <3>1, <3>2
  <2>7. CASE x # p
    <3>1. g[x] = f[x] /\ f[x] \in Nat /\ (p \in r <=> p \in s)
      BY <2>1, <2>7
    <3>2. jt[s] = IF p \in s THEN it[s] + n ELSE it[s]
      BY <2>3, <2>4, <2>5, <3>1
    <3> QED BY <1>3, <3>2
  <2> QED BY <2>6, <2>7
<1>6. S \in P
  BY <1>4, <1>5, TakingInduction
<1> QED BY <1>1, <1>2, <1>3, <1>6

(* A sum of numbers is no less than the first and any one of them.          *)
LEMMA SumBounds ==
  ASSUME NEW S, IsFiniteSet(S), NEW b \in Nat, NEW f \in [S -> Nat], NEW p \in S
  PROVE  Sum(b, f) \in Nat /\ b + f[p] <= Sum(b, f)
<1>1. PICK it : Iterates(b, f, S, it) /\ Sum(b, f) = it[S]
  BY SumIsIteration
<1>2. PICK P : P = {s \in SUBSET S : b <= it[s] /\ (p \in s => b + f[p] <= it[s])}
  OBVIOUS
<1>3. {} \in P
  BY <1>1, <1>2, IterationFacts
<1>4. ASSUME NEW s \in SUBSET S, s # {}, s \ {Pick(s)} \in P PROVE s \in P
  <2>0. Pick(s) \in S /\ s \ {Pick(s)} \in SUBSET S
        /\ it[s] = f[Pick(s)] + it[s \ {Pick(s)}] /\ it[s \ {Pick(s)}] \in Nat
    BY <1>1, <1>4, IterationFacts
  <2>1. PICK r \in SUBSET S, x \in S : r = s \ {x} /\ x = Pick(s)
    BY <2>0
  <2>2. it[s] = f[x] + it[r] /\ it[r] \in Nat /\ f[x] \in Nat
    BY <2>0, <2>1
  <2>3. b <= it[r] /\ (p \in r => b + f[p] <= it[r])
    BY <1>2, <1>4, <2>1
  <2>4. b <= it[s]
    BY <2>2, <2>3
  <2>5. p \in s => b + f[p] <= it[s]
    <3>1. CASE x = p
      BY <2>2, <2>3, <3>1
    <3>2. CASE x # p
      <4>1. p \in s => p \in r
        BY <2>1, <3>2
      <4> QED BY <2>2, <2>3, <4>1
    <3> QED BY <3>1, <3>2
  <2> QED BY <1>2, <2>4, <2>5
<1>5. S \in P
  BY <1>3, <1>4, TakingInduction
<1>6. it[S] \in Nat
  BY <1>1 DEF Iterates
<1> QED BY <1>1, <1>2, <1>5, <1>6

-----------------------------------------------------------------------------
(* The invariant.                                                           *)

IoPlaces ==
  {"begin", "test", "load", "next", "empty", "sleep", "aio", "complete", "flush", "exited", "dead"}
InRound == {"load", "next", "empty"}

Types ==
  /\ mThreadLoggerBufferPtrs \in Seq(Producers)
  /\ committed \in [Producers -> 0..MaxBytes] /\ consumed \in [Producers -> 0..MaxBytes]
  /\ mLoadedBufferSize \in Nat /\ mIsFull \in BOOLEAN /\ mIsAioing \in BOOLEAN
  /\ mCurLoadingPos \in 0..BlockSize /\ blocks \in Nat
  /\ mFlushFuture \in {"none", "pending", "ready"}
  /\ mSyncStatus \in {"SYNCPENDING", "DOUBLECHECK", "AIOPENDING", "COMPLETED"}
  /\ mBGThreadStatus \in {"RESTART", "RUNNING", "STOPPING"}
  /\ pc \in [Threads -> {"idle", "wait", "notified", "stop", "join"}]
  /\ target \in [Threads -> [Producers -> Nat]]
  /\ calls \in 0..MaxCalls
  /\ io \in [at : IoPlaces, cur : Nat, last : Nat, peeked : Nat, idle : BOOLEAN]

(* The ring that the IO thread is at exists; what it has peeked was committed. *)
Rounds ==
  /\ io.last = 0 \/ io.last < Len(mThreadLoggerBufferPtrs)
  /\ io.at \in {"load", "next"} => io.cur < Len(mThreadLoggerBufferPtrs)
  /\ io.at = "load" =>
       LET p == mThreadLoggerBufferPtrs[io.cur + 1]
       IN  io.peeked > 0 /\ consumed[p] + io.peeked <= committed[p]

(* Nothing leaves the swap buffer, so an I/O in progress means that something *)
(* is loaded.                                                               *)
Books ==
  /\ mLoadedBufferSize = Sum(0, consumed) /\ mLoadedBufferSize < BufferLimit
  /\ mIsFull <=> mLoadedBufferSize >= HighWaterMark
  /\ \A p \in Producers : consumed[p] <= committed[p]
  /\ mIsAioing => mLoadedBufferSize # 0
  /\ mSyncStatus # "AIOPENDING"

(* One caller waits at a time, and only while its sync is not answered; what   *)
(* it asks for had been committed, to rings that were there.                 *)
Waiters ==
  /\ \A c \in Threads : pc[c] = "wait" => mSyncStatus # "COMPLETED"
  /\ \A c, d \in Threads : pc[c] = "wait" /\ pc[d] = "wait" => c = d
  /\ \A c \in Threads, p \in Producers : target[c][p] <= committed[p]
  /\ \A p \in Producers : p \notin Registered => committed[p] = 0

Unloaded == mLoadedBufferSize = 0 /\ "backlog" \notin mishaps
Asked(p) == \E c \in Threads : pc[c] = "wait" /\ target[c][p] # 0

(* A stage that answers a sync is reached only while nothing was ever loaded. *)
(* Then every round has begun at the first ring, and the second one after the *)
(* call has found each ring empty that it has passed.                        *)
DoubleCheck ==
  Unloaded =>
    /\ io.last = 0
    /\ mSyncStatus = "DOUBLECHECK" /\ io.at \in InRound =>
         \A i \in 1..Len(mThreadLoggerBufferPtrs) :
           Asked(mThreadLoggerBufferPtrs[i]) =>
             \/ io.at = "next" /\ i > io.cur + 1
             \/ io.at = "load" /\ i > io.cur

IInv == Types /\ Rounds /\ Books /\ Waiters /\ DoubleCheck /\ SyncCovers

-----------------------------------------------------------------------------
(* Facts about a state.                                                     *)

(* The constants.                                                           *)
LEMMA Limits ==
  /\ BlockSize \in Nat \ {0} /\ HighWaterMark \in Nat \ {0} /\ BufferLimit \in Nat
  /\ MaxBytes \in Nat /\ MaxCalls \in Nat /\ Rotator \in Threads
  /\ IsFiniteSet(Producers) /\ MessageSizes \subseteq Nat \ {0}
  BY LoggerAssumption DEF HighWaterMark, BufferLimit, Threads

(* Nothing loaded means nothing consumed.                                   *)
LEMMA EmptyMeansUntouched ==
  ASSUME Types, Books, mLoadedBufferSize = 0, NEW p \in Producers
  PROVE  consumed[p] = 0
<1>1. consumed \in [Producers -> Nat]
  BY Limits DEF Types
<1>2. 0 + consumed[p] <= Sum(0, consumed)
  BY <1>1, Limits, SumBounds
<1> QED BY <1>1, <1>2 DEF Books

(* The rings of the list, and their owners.                                 *)
LEMMA RingsAre ==
  ASSUME Types
  PROVE  /\ mThreadLoggerBufferPtrs \in Seq(Producers) /\ Len(mThreadLoggerBufferPtrs) \in Nat
         /\ DOMAIN mThreadLoggerBufferPtrs = 1..Len(mThreadLoggerBufferPtrs)
         /\ \A i \in 1..Len(mThreadLoggerBufferPtrs) : mThreadLoggerBufferPtrs[i] \in Producers
<1>1. mThreadLoggerBufferPtrs \in Seq(Producers)
  BY DEF Types
<1> QED BY <1>1

(* The threads that have logged.                                            *)
LEMMA RegisteredIs ==
  ASSUME Types
  PROVE  /\ Registered = {mThreadLoggerBufferPtrs[i] : i \in 1..Len(mThreadLoggerBufferPtrs)}
         /\ Registered \subseteq Producers
<1>1. Registered = {mThreadLoggerBufferPtrs[i] : i \in DOMAIN mThreadLoggerBufferPtrs}
  BY DEF Registered, Range
<1> QED BY <1>1, RingsAre

(* The locals of the IO thread.                                             *)
LEMMA IoIs ==
  ASSUME Types
  PROVE  /\ io.at \in IoPlaces /\ io.cur \in Nat /\ io.last \in Nat /\ io.peeked \in Nat
         /\ io.idle \in BOOLEAN
<1>1. io \in [at : IoPlaces, cur : Nat, last : Nat, peeked : Nat, idle : BOOLEAN]
  BY DEF Types
<1> QED BY <1>1

(* The ring that the IO thread has peeked into.                              *)
LEMMA RingAtHand ==
  ASSUME Types, Rounds, io.at = "load"
  PROVE  \E p \in Producers, n \in Nat \ {0} :
           /\ io.cur + 1 \in 1..Len(mThreadLoggerBufferPtrs)
           /\ p = mThreadLoggerBufferPtrs[io.cur + 1] /\ n = io.peeked
           /\ consumed[p] + n <= committed[p]
<1>1. io.cur + 1 \in 1..Len(mThreadLoggerBufferPtrs) /\ io.peeked \in Nat
  BY IoIs, RingsAre DEF Rounds
<1>2. mThreadLoggerBufferPtrs[io.cur + 1] \in Producers
  BY <1>1, RingsAre
<1> QED BY <1>1, <1>2 DEF Rounds

(* Nobody has asked for anything of a ring that was not there.              *)
LEMMA NotAsked ==
  ASSUME Types, Waiters, NEW p \in Producers, p \notin Registered
  PROVE  ~Asked(p)
<1>1. \A c \in Threads : target[c][p] \in Nat /\ target[c][p] <= 0
  BY DEF Types, Waiters
<1> QED BY <1>1 DEF Asked

-----------------------------------------------------------------------------
(* Preservation.                                                            *)

(* The first state: nothing committed, nothing asked.                       *)
LEMMA InitIInv == Init => IInv
<1> SUFFICES ASSUME Init PROVE IInv
  OBVIOUS
<1>0. Nothing \in [Producers -> 0..MaxBytes] /\ Nothing \in [Producers -> Nat]
      /\ \A p \in Producers : Nothing[p] = 0
  BY Limits DEF Nothing
<1>1. Types
  <2>1. mThreadLoggerBufferPtrs \in Seq(Producers)
    BY DEF Init
  <2>2. io \in [at : IoPlaces, cur : Nat, last : Nat, peeked : Nat, idle : BOOLEAN]
    BY DEF Init, Fresh, IoPlaces
  <2>3. target \in [Threads -> [Producers -> Nat]] /\ calls \in 0..MaxCalls
        /\ mCurLoadingPos \in 0..BlockSize
    BY <1>0, Limits DEF Init
  <2>4. committed \in [Producers -> 0..MaxBytes] /\ consumed \in [Producers -> 0..MaxBytes]
    BY <1>0 DEF Init
  <2>5. pc \in [Threads -> {"idle", "wait", "notified", "stop", "join"}]
    BY DEF Init
  <2> QED BY <2>1, <2>2, <2>3, <2>4, <2>5 DEF Init, Types
<1>2. Rounds
  BY DEF Init, Rounds, Fresh
<1>3. Books
  <2>1. Sum(0, consumed) = 0
    BY <1>0, Limits, SumOfNothing DEF Init
  <2>2. 0 < BufferLimit /\ ~(0 >= HighWaterMark)
    BY Limits DEF BufferLimit
  <2> QED BY <1>0, <2>1, <2>2 DEF Init, Books
<1>4. Waiters
  BY <1>0 DEF Init, Waiters
<1>5. DoubleCheck
  BY DEF Init, DoubleCheck, Fresh
<1>6. SyncCovers
  BY DEF Init, SyncCovers
<1> QED BY <1>1, <1>2, <1>3, <1>4, <1>5, <1>6 DEF IInv

(* A new ring is at the end of the round, and nobody has asked for it.       *)
LEMMA AllocateIInv ==
  ASSUME IInv, NEW p \in Producers, allocate_logger_buffer(p) \/ StrayPointer(p)
  PROVE  IInv'
<1> USE DEF rings, swap, flush, callers, status
<1>0. /\ p \notin Registered
      /\ UNCHANGED <<committed, consumed, swap, flush, callers, status>>
      /\ "backlog" \in mishaps' <=> "backlog" \in mishaps
  BY DEF allocate_logger_buffer, StrayPointer
<1>io. /\ io' \in [at : IoPlaces, cur : Nat, last : Nat, peeked : Nat, idle : BOOLEAN]
       /\ io'.last = io.last /\ (io' = io \/ io'.at = "dead")
  BY DEF allocate_logger_buffer, StrayPointer, IInv, Types, IoPlaces
<1>1. PICK n \in Nat :
        /\ n = Len(mThreadLoggerBufferPtrs) /\ n + 1 = Len(mThreadLoggerBufferPtrs')
        /\ mThreadLoggerBufferPtrs' \in Seq(Producers)
        /\ \A i \in 1..n : mThreadLoggerBufferPtrs'[i] = mThreadLoggerBufferPtrs[i]
        /\ mThreadLoggerBufferPtrs'[n + 1] = p
  <2>1. mThreadLoggerBufferPtrs \in Seq(Producers)
    BY DEF IInv, Types
  <2>2. mThreadLoggerBufferPtrs' = Append(mThreadLoggerBufferPtrs, p)
    BY DEF allocate_logger_buffer, StrayPointer
  <2>3. PICK s \in Seq(Producers) : s = mThreadLoggerBufferPtrs
    BY <2>1
  <2>4. /\ Append(s, p) \in Seq(Producers) /\ Len(s) \in Nat /\ Len(Append(s, p)) = Len(s) + 1
        /\ \A i \in 1..Len(s) : Append(s, p)[i] = s[i]
        /\ Append(s, p)[Len(s) + 1] = p
    BY <2>3
  <2> QED BY <2>2, <2>3, <2>4
<1>2. Types'
  BY <1>0, <1>io, <1>1 DEF IInv, Types
<1>3. Rounds'
  <2>1. io.at = "load" => io.cur + 1 \in 1..n
    BY <1>1, RingAtHand DEF IInv
  <2>2. io.last \in Nat /\ io.cur \in Nat
    BY IoIs DEF IInv
  <2>3. /\ io.last = 0 \/ io.last < n + 1
        /\ io.at \in {"load", "next"} => io.cur < n + 1
    BY <1>1, <2>2 DEF IInv, Rounds
  <2>4. io.at = "load" => mThreadLoggerBufferPtrs'[io.cur + 1] = mThreadLoggerBufferPtrs[io.cur + 1]
    BY <1>1, <2>1
  <2>5. /\ io'.last = io.last /\ (io' = io \/ io'.at = "dead")
        /\ consumed' = consumed /\ committed' = committed
    BY <1>0, <1>io
  <2>6. io.at = "load" =>
          io.peeked > 0 /\ consumed[mThreadLoggerBufferPtrs[io.cur + 1]] + io.peeked
                             <= committed[mThreadLoggerBufferPtrs[io.cur + 1]]
    BY DEF IInv, Rounds
  <2> QED BY <1>1, <2>3, <2>4, <2>5, <2>6 DEF Rounds
<1>4. Books'
  BY <1>0 DEF IInv, Books
<1>5. Waiters'
  <2>1. Registered \subseteq Registered'
    <3>1. \A i \in 1..n : i \in 1..(n + 1)
      OBVIOUS
    <3>2. Registered = {mThreadLoggerBufferPtrs[i] : i \in 1..n}
      BY <1>1, RegisteredIs DEF IInv
    <3>3. Registered' = {mThreadLoggerBufferPtrs'[i] : i \in 1..(n + 1)}
      BY <1>1 DEF Registered, Range
    <3> QED BY <1>1, <3>1, <3>2, <3>3
  <2> QED BY <1>0, <2>1 DEF IInv, Waiters
<1>6. DoubleCheck'
  <2>1. ~Asked(p)
    BY <1>0, NotAsked DEF IInv
  <2>2. \A i \in 1..(n + 1) : Asked(mThreadLoggerBufferPtrs'[i]) =>
          i \in 1..n /\ Asked(mThreadLoggerBufferPtrs[i])
    <3> TAKE i \in 1..(n + 1)
    <3>1. i \in 1..n \/ i = n + 1
      BY <1>1
    <3>2. CASE i = n + 1
      BY <1>1, <2>1, <3>2
    <3>3. CASE i \in 1..n
      BY <1>1, <3>3
    <3> QED BY <3>1, <3>2, <3>3
  <2>3. /\ io'.last = io.last /\ (io' = io \/ io'.at \notin InRound)
        /\ mSyncStatus' = mSyncStatus /\ (Unloaded' <=> Unloaded)
        /\ pc' = pc /\ target' = target
    BY <1>0, <1>io DEF Unloaded, InRound
  <2>4. ASSUME Unloaded, mSyncStatus = "DOUBLECHECK", io.at \in InRound,
               NEW i \in 1..(n + 1), Asked(mThreadLoggerBufferPtrs'[i])
        PROVE  (io.at = "next" /\ i > io.cur + 1) \/ (io.at = "load" /\ i > io.cur)
    <3>1. i \in 1..n /\ Asked(mThreadLoggerBufferPtrs[i])
      BY <2>2, <2>4
    <3>2. i \in 1..Len(mThreadLoggerBufferPtrs)
      BY <1>1, <3>1
    <3> QED BY <2>4, <3>1, <3>2 DEF IInv, DoubleCheck
  <2>5. Unloaded => io.last = 0
    BY DEF IInv, DoubleCheck
  <2>6. ASSUME Unloaded, mSyncStatus = "DOUBLECHECK", io.at \in InRound
        PROVE  \A i \in 1..Len(mThreadLoggerBufferPtrs') :
                 Asked(mThreadLoggerBufferPtrs[i])' =>
                   (io.at = "next" /\ i > io.cur + 1) \/ (io.at = "load" /\ i > io.cur)
    BY <1>1, <2>3, <2>4, <2>6 DEF Asked
  <2> QED BY <2>3, <2>5, <2>6 DEF DoubleCheck
<1>7. SyncCovers'
  BY <1>0 DEF IInv, SyncCovers
<1> QED BY <1>2, <1>3, <1>4, <1>5, <1>6, <1>7 DEF IInv

(* Bytes committed now were not asked for by a sync before.                 *)
LEMMA CommitIInv ==
  ASSUME IInv, NEW p \in Producers, NEW n \in MessageSizes, commit_buffer_with_size(p, n)
  PROVE  IInv'
<1> USE DEF rings, swap, flush, callers, status
<1>0. /\ p \in Registered /\ Sum(n, committed) <= MaxBytes /\ n \in Nat
      /\ committed' = [committed EXCEPT ![p] = @ + n]
      /\ UNCHANGED <<mThreadLoggerBufferPtrs, consumed, swap, flush, callers, status, io, mishaps>>
  BY Limits DEF commit_buffer_with_size, Sum
<1>1. committed' \in [Producers -> 0..MaxBytes]
  <2>1. committed \in [Producers -> Nat]
    BY Limits DEF IInv, Types
  <2>2. Sum(n, committed) \in Nat /\ n + committed[p] <= Sum(n, committed)
    BY <1>0, <2>1, Limits, SumBounds
  <2>3. committed[p] + n \in 0..MaxBytes
    BY <1>0, <2>1, <2>2, Limits
  <2> QED BY <1>0, <2>3 DEF IInv, Types
<1>2. \A q \in Producers : committed[q] <= committed'[q] /\ committed[q] \in Nat /\ committed'[q] \in Nat
                           /\ (q # p => committed'[q] = committed[q])
  BY <1>0, <1>1, Limits DEF IInv, Types
<1>3. Types'
  BY <1>0, <1>1 DEF IInv, Types
<1>4. Rounds'
  <2>1. ASSUME io.at = "load"
        PROVE  LET q == mThreadLoggerBufferPtrs[io.cur + 1]
               IN  io.peeked > 0 /\ consumed[q] + io.peeked <= committed'[q]
    <3>1. PICK q \in Producers, m \in Nat \ {0} :
            q = mThreadLoggerBufferPtrs[io.cur + 1] /\ m = io.peeked
            /\ consumed[q] + m <= committed[q]
      BY <2>1, RingAtHand DEF IInv
    <3>2. consumed[q] \in Nat
      BY Limits DEF IInv, Types
    <3> QED BY <1>2, <3>1, <3>2
  <2> QED BY <1>0, <2>1 DEF IInv, Rounds
<1>5. Books'
  <2>1. \A q \in Producers : consumed[q] <= committed'[q]
    <3> TAKE q \in Producers
    <3>1. consumed[q] \in Nat /\ consumed[q] <= committed[q]
      BY Limits DEF IInv, Types, Books
    <3> QED BY <1>2, <3>1
  <2> QED BY <1>0, <2>1 DEF IInv, Books
<1>6. Waiters'
  <2>1. ASSUME NEW c \in Threads, NEW q \in Producers PROVE target[c][q] <= committed'[q]
    <3>1. target[c][q] \in Nat /\ target[c][q] <= committed[q]
      BY DEF IInv, Types, Waiters
    <3> QED BY <1>2, <3>1
  <2>2. Registered' = Registered
    BY <1>0 DEF Registered
  <2> QED BY <1>0, <1>2, <2>1, <2>2 DEF IInv, Waiters
<1>7. DoubleCheck'
  <2>1. \A q : Asked(q)' <=> Asked(q)
    BY <1>0 DEF Asked
  <2> QED BY <1>0, <2>1 DEF IInv, DoubleCheck, Unloaded
<1>8. SyncCovers'
  BY <1>0 DEF IInv, SyncCovers
<1> QED BY <1>3, <1>4, <1>5, <1>6, <1>7, <1>8 DEF IInv

(* A sync that is not turned away asks for what is committed now, and the     *)
(* status that it sets is not that of a second round.                        *)
LEMMA SyncIInv ==
  ASSUME IInv, NEW c \in Threads, sync_internal(c)
  PROVE  IInv'
<1> USE DEF rings, swap, flush, callers, status
<1>0. /\ pc[c] = "idle" /\ calls < MaxCalls /\ calls' = calls + 1
      /\ UNCHANGED <<rings, consumed, swap, flush, mBGThreadStatus, io, mishaps>>
      /\ Returned(c) \in {"idle", "stop"}
  BY DEF sync_internal, Returned
<1>1. Rounds' /\ Books'
  BY <1>0 DEF IInv, Rounds, Books, sync_internal
<1>2. CASE mSyncStatus # "COMPLETED"
  <2>1. /\ pc' = [pc EXCEPT ![c] = Returned(c)] /\ UNCHANGED <<mSyncStatus, target>>
    BY <1>2 DEF sync_internal
  <2>2. Types'
    BY <1>0, <2>1, Limits DEF IInv, Types
  <2>3. \A d \in Threads : pc'[d] \in {"wait", "notified"} => pc[d] = pc'[d]
    BY <1>0, <2>1 DEF IInv, Types
  <2>4. Waiters'
    BY <1>0, <2>1, <2>3 DEF IInv, Waiters, Registered
  <2>5. DoubleCheck'
    <3>1. \A q : Asked(q)' => Asked(q)
      BY <2>1, <2>3 DEF Asked
    <3> QED BY <1>0, <2>1, <3>1 DEF IInv, DoubleCheck, Unloaded
  <2>6. SyncCovers'
    BY <1>0, <2>1, <2>3 DEF IInv, SyncCovers
  <2> QED BY <1>1, <2>2, <2>4, <2>5, <2>6 DEF IInv
<1>3. CASE mSyncStatus = "COMPLETED"
  <2>1. /\ pc' = [pc EXCEPT ![c] = "wait"] /\ mSyncStatus' = "SYNCPENDING"
        /\ target' = [target EXCEPT ![c] = committed]
    BY <1>3 DEF sync_internal
  <2>2. Types'
    <3>1. committed \in [Producers -> Nat]
      BY Limits DEF IInv, Types
    <3>2. calls' \in 0..MaxCalls
      BY <1>0, Limits DEF IInv, Types
    <3> QED BY <1>0, <2>1, <3>1, <3>2 DEF IInv, Types
  <2>3. \A d \in Threads : pc[d] # "wait" /\ (d # c => pc'[d] = pc[d] /\ target'[d] = target[d])
                           /\ pc'[c] = "wait" /\ target'[c] = committed
    BY <1>3, <2>1 DEF IInv, Types, Waiters
  <2>4. Waiters'
    <3>1. \A q \in Producers : committed[q] <= committed[q]
      BY Limits DEF IInv, Types
    <3> QED BY <1>0, <2>1, <2>3, <3>1 DEF IInv, Waiters, Registered
  <2>5. DoubleCheck'
    BY <1>0, <2>1 DEF IInv, DoubleCheck, Unloaded
  <2>6. SyncCovers'
    BY <1>0, <2>3 DEF IInv, SyncCovers
  <2> QED BY <1>1, <2>2, <2>4, <2>5, <2>6 DEF IInv
<1> QED BY <1>2, <1>3

(* A caller that returns asks for nothing more.                             *)
LEMMA ReturnIInv ==
  ASSUME IInv, NEW c \in Threads, pc[c] \in {"wait", "notified"}, Return(c)
  PROVE  IInv'
<1> USE DEF rings, swap, flush, callers, status
<1>0. /\ pc' = [pc EXCEPT ![c] = Returned(c)] /\ Returned(c) \in {"idle", "stop"}
      /\ target' = [target EXCEPT ![c] = Nothing]
      /\ UNCHANGED <<rings, consumed, swap, flush, calls, status, io, mishaps>>
      /\ Nothing \in [Producers -> Nat] /\ \A p \in Producers : Nothing[p] = 0
  BY DEF Return, Returned, Nothing
<1>1. Rounds' /\ Books'
  BY <1>0 DEF IInv, Rounds, Books
<1>2. Types'
  BY <1>0 DEF IInv, Types
<1>3. \A d \in Threads : pc'[d] \in {"wait", "notified"} =>
                           pc[d] = pc'[d] /\ target'[d] = target[d] /\ d # c
  BY <1>0 DEF IInv, Types
<1>4. Waiters'
  <2>1. ASSUME NEW d \in Threads, NEW q \in Producers PROVE target'[d][q] <= committed[q]
    <3>1. committed[q] \in Nat /\ target[d][q] <= committed[q]
      BY Limits DEF IInv, Types, Waiters
    <3> QED BY <1>0, <3>1 DEF IInv, Types
  <2> QED BY <1>0, <1>3, <2>1 DEF IInv, Waiters, Registered
<1>5. DoubleCheck'
  <2>1. \A q : Asked(q)' => Asked(q)
    BY <1>3 DEF Asked
  <2> QED BY <1>0, <2>1 DEF IInv, DoubleCheck, Unloaded
<1>6. SyncCovers'
  BY <1>0, <1>3 DEF IInv, SyncCovers
<1> QED BY <1>1, <1>2, <1>4, <1>5, <1>6 DEF IInv

(* The IO thread is not in a round, and counts and answers stay.             *)
LEMMA QuietIInv ==
  ASSUME IInv, UNCHANGED <<rings, consumed, swap, flush, target, calls, mSyncStatus>>,
         io' \in [at : IoPlaces \ InRound, cur : Nat, last : Nat, peeked : Nat, idle : BOOLEAN],
         io'.last \in {0, io.last}, mBGThreadStatus' \in {"RESTART", "RUNNING", "STOPPING"},
         pc' \in [Threads -> {"idle", "wait", "notified", "stop", "join"}],
         \A c \in Threads : pc'[c] \in {"wait", "notified"} => pc[c] = pc'[c],
         "backlog" \in mishaps' <=> "backlog" \in mishaps
  PROVE  IInv'
<1> USE DEF rings, swap, flush, callers, status
<1>1. Types'
  BY DEF IInv, Types, IoPlaces, InRound
<1>2. Rounds'
  BY DEF IInv, Rounds, InRound
<1>3. Books'
  BY DEF IInv, Books
<1>4. Waiters'
  BY DEF IInv, Waiters, Registered
<1>5. DoubleCheck'
  BY DEF IInv, DoubleCheck, Unloaded, InRound
<1>6. SyncCovers'
  BY DEF IInv, SyncCovers
<1> QED BY <1>1, <1>2, <1>3, <1>4, <1>5, <1>6 DEF IInv

(* A set_log_file that gives up is a call and nothing more.                  *)
LEMMA CannotOpenIInv == ASSUME IInv, CannotOpen PROVE IInv'
<1> USE DEF rings, swap, flush, callers, status
<1>0. /\ calls < MaxCalls /\ calls' = calls + 1
      /\ UNCHANGED <<rings, consumed, swap, flush, pc, target, status, io, mishaps>>
  BY DEF CannotOpen
<1>1. Types'
  <2>1. calls' \in 0..MaxCalls
    BY <1>0, Limits DEF IInv, Types
  <2> QED BY <1>0, <2>1 DEF IInv, Types
<1>2. Rounds' /\ Books'
  BY <1>0 DEF IInv, Rounds, Books
<1>3. Waiters'
  BY <1>0 DEF IInv, Waiters, Registered
<1>4. DoubleCheck'
  BY <1>0 DEF IInv, DoubleCheck, Unloaded, Asked
<1>5. SyncCovers'
  BY <1>0 DEF IInv, SyncCovers
<1> QED BY <1>1, <1>2, <1>3, <1>4, <1>5 DEF IInv

(* set_log_file moves its own thread, and starts the IO thread afresh.      *)
LEMMA SetLogFileIInv == ASSUME IInv, set_log_file_internal PROVE IInv'
<1> USE DEF rings, swap, flush, callers, status
<1>1. CASE Stop
  <2>1. /\ pc[Rotator] = "stop" /\ pc' = [pc EXCEPT ![Rotator] = "join"]
        /\ mBGThreadStatus' = "STOPPING"
        /\ UNCHANGED <<rings, consumed, swap, flush, target, calls, mSyncStatus, io, mishaps>>
    BY <1>1 DEF Stop
  <2>2. \A c \in Threads : pc'[c] \in {"wait", "notified"} => pc[c] = pc'[c]
    BY <2>1 DEF IInv, Types
  <2>3. Types'
    BY <2>1 DEF IInv, Types
  <2>4. Rounds' /\ Books'
    BY <2>1 DEF IInv, Rounds, Books
  <2>5. Waiters'
    BY <2>1, <2>2 DEF IInv, Waiters, Registered
  <2>6. DoubleCheck'
    <3>1. \A q : Asked(q)' => Asked(q)
      BY <2>1, <2>2 DEF Asked
    <3> QED BY <2>1, <3>1 DEF IInv, DoubleCheck, Unloaded
  <2>7. SyncCovers'
    BY <2>1, <2>2 DEF IInv, SyncCovers
  <2> QED BY <2>3, <2>4, <2>5, <2>6, <2>7 DEF IInv
<1>2. CASE JoinAndRestart
  <2>1. \A c \in Threads : pc'[c] \in {"wait", "notified"} => pc[c] = pc'[c]
    BY <1>2 DEF JoinAndRestart, IInv, Types
  <2>2. pc' \in [Threads -> {"idle", "wait", "notified", "stop", "join"}]
    BY <1>2 DEF JoinAndRestart, IInv, Types
  <2>3. /\ io' \in [at : IoPlaces \ InRound, cur : Nat, last : Nat, peeked : Nat, idle : BOOLEAN]
        /\ io'.last = 0
    BY <1>2 DEF JoinAndRestart, Fresh, IoPlaces, InRound
  <2> QED BY <1>2, <2>1, <2>2, <2>3, QuietIInv DEF JoinAndRestart
<1> QED BY <1>1, <1>2 DEF set_log_file_internal

(* Where Goto leads.                                                        *)
LEMMA GotoIs ==
  ASSUME Types, NEW at \in IoPlaces, Goto(at)
  PROVE  /\ io' \in [at : IoPlaces, cur : Nat, last : Nat, peeked : Nat, idle : BOOLEAN]
         /\ io'.at = at /\ io'.last = io.last
  BY DEF Types, Goto

(* The steps of the IO thread outside its rounds that change no count.      *)
LEMMA QuietIoIInv ==
  ASSUME IInv,
         Begin \/ Exit \/ Wake \/ LoadNowhere \/ AioStage \/ NoFuture \/ NothingToFlush
  PROVE  IInv'
<1> USE DEF rings, swap, flush, callers, status
<1>1. PICK at \in IoPlaces \ InRound : Goto(at)
  BY DEF Begin, Exit, Wake, LoadNowhere, AioStage, NoFuture, NothingToFlush, IoPlaces, InRound
<1>2. /\ UNCHANGED <<rings, consumed, swap, flush, callers, mSyncStatus>>
      /\ mBGThreadStatus' \in {mBGThreadStatus, "RUNNING"}
      /\ "backlog" \in mishaps' <=> "backlog" \in mishaps
  BY DEF Begin, Exit, Wake, LoadNowhere, AioStage, NoFuture, NothingToFlush, OnlyIo
<1>3. /\ io' \in [at : IoPlaces, cur : Nat, last : Nat, peeked : Nat, idle : BOOLEAN]
      /\ io'.at = at /\ io'.last = io.last
  BY <1>1, GotoIs DEF IInv
<1>4. io' \in [at : IoPlaces \ InRound, cur : Nat, last : Nat, peeked : Nat, idle : BOOLEAN]
  BY <1>1, <1>3
<1>5. /\ pc' \in [Threads -> {"idle", "wait", "notified", "stop", "join"}]
      /\ mBGThreadStatus' \in {"RESTART", "RUNNING", "STOPPING"}
      /\ \A c \in Threads : pc'[c] \in {"wait", "notified"} => pc[c] = pc'[c]
  BY <1>2 DEF IInv, Types
<1> QED BY <1>2, <1>3, <1>4, <1>5, QuietIInv

(* While nothing is loaded, a peek finds nothing in a ring only if nothing was *)
(* ever committed to it, and then nobody asks for it.                        *)
LEMMA PeekIInv ==
  ASSUME IInv, NEW k \in Nat, k < Len(mThreadLoggerBufferPtrs), Peek(k), OnlyIo,
         Unloaded /\ mSyncStatus = "DOUBLECHECK" =>
           \A i \in 1..k : ~Asked(mThreadLoggerBufferPtrs[i])
  PROVE  IInv'
<1> USE DEF rings, swap, flush, callers, status
<1>0. UNCHANGED <<rings, consumed, swap, flush, callers, status, mishaps>>
  BY DEF OnlyIo
<1>1. PICK p \in Producers : p = mThreadLoggerBufferPtrs[k + 1]
  <2>1. k + 1 \in 1..Len(mThreadLoggerBufferPtrs)
    BY RingsAre DEF IInv
  <2> QED BY <2>1, RingsAre DEF IInv
<1>2. PICK free \in Nat : free = committed[p] - consumed[p]
  <2>1. committed[p] \in Nat /\ consumed[p] \in Nat /\ consumed[p] <= committed[p]
    BY Limits DEF IInv, Types, Books
  <2> QED BY <2>1
<1>3. \/ free = 0 /\ io' = [io EXCEPT !.at = "next", !.cur = k]
      \/ \E n \in 1..free : io' = [io EXCEPT !.at = "load", !.cur = k, !.peeked = n]
  BY <1>1, <1>2 DEF Peek
<1>4. /\ io' \in [at : IoPlaces, cur : Nat, last : Nat, peeked : Nat, idle : BOOLEAN]
      /\ io'.at \in {"next", "load"} /\ io'.cur = k /\ io'.last = io.last
      /\ io'.at = "next" => free = 0
      /\ io'.at = "load" => io'.peeked \in 1..free
  <2>1. io \in [at : IoPlaces, cur : Nat, last : Nat, peeked : Nat, idle : BOOLEAN]
    BY DEF IInv, Types
  <2>2. CASE free = 0 /\ io' = [io EXCEPT !.at = "next", !.cur = k]
    BY <2>1, <2>2 DEF IoPlaces
  <2>3. CASE \E n \in 1..free : io' = [io EXCEPT !.at = "load", !.cur = k, !.peeked = n]
    <3>1. PICK n \in 1..free : io' = [io EXCEPT !.at = "load", !.cur = k, !.peeked = n]
      BY <2>3
    <3>2. n \in Nat
      OBVIOUS
    <3> QED BY <2>1, <3>1, <3>2 DEF IoPlaces
  <2> QED BY <1>3, <2>2, <2>3
<1>5. Types'
  BY <1>0, <1>4 DEF IInv, Types
<1>6. Rounds'
  <2>1. io'.at = "load" => io'.peeked > 0 /\ consumed[p] + io'.peeked <= committed[p]
    <3>1. committed[p] \in Nat /\ consumed[p] \in Nat
      BY Limits DEF IInv, Types
    <3> QED BY <1>2, <1>4, <3>1
  <2> QED BY <1>0, <1>1, <1>4, <2>1 DEF IInv, Rounds
<1>7. Books'
  BY <1>0 DEF IInv, Books
<1>8. Waiters'
  BY <1>0 DEF IInv, Waiters, Registered
<1>9. DoubleCheck'
  <2>1. \A q : Asked(q)' <=> Asked(q)
    BY <1>0 DEF Asked
  <2>2. ASSUME Unloaded, free = 0 PROVE ~Asked(p)
    <3>1. committed[p] = 0
      <4>1. consumed[p] = 0
        BY <2>2, EmptyMeansUntouched DEF IInv, Unloaded
      <4>2. committed[p] \in Nat
        BY Limits DEF IInv, Types
      <4> QED BY <1>2, <2>2, <4>1, <4>2
    <3>2. \A c \in Threads : target[c][p] \in Nat /\ target[c][p] <= 0
      BY <3>1 DEF IInv, Types, Waiters
    <3> QED BY <3>2 DEF Asked
  <2>3. ASSUME Unloaded, mSyncStatus = "DOUBLECHECK",
               NEW i \in 1..Len(mThreadLoggerBufferPtrs), Asked(mThreadLoggerBufferPtrs[i])
        PROVE  (io'.at = "next" /\ i > k + 1) \/ (io'.at = "load" /\ i > k)
    <3>1. i > k
      BY <2>3
    <3>2. io'.at = "next" => i # k + 1
      BY <1>1, <1>4, <2>2, <2>3
    <3> QED BY <1>4, <3>1, <3>2
  <2> QED BY <1>0, <1>4, <2>1, <2>3 DEF IInv, DoubleCheck, Unloaded
<1>10. SyncCovers'
  BY <1>0 DEF IInv, SyncCovers
<1> QED BY <1>5, <1>6, <1>7, <1>8, <1>9, <1>10 DEF IInv

(* A round that is over has passed every ring.                              *)
LEMMA RoundOverIInv ==
  ASSUME IInv, Goto("empty"), OnlyIo,
         Unloaded /\ mSyncStatus = "DOUBLECHECK" =>
           \A i \in 1..Len(mThreadLoggerBufferPtrs) : ~Asked(mThreadLoggerBufferPtrs[i])
  PROVE  IInv'
<1> USE DEF rings, swap, flush, callers, status
<1>0. UNCHANGED <<rings, consumed, swap, flush, callers, status, mishaps>>
  BY DEF OnlyIo
<1>1. /\ io' \in [at : IoPlaces, cur : Nat, last : Nat, peeked : Nat, idle : BOOLEAN]
      /\ io'.at = "empty" /\ io'.last = io.last
  BY GotoIs DEF IInv, IoPlaces
<1>2. Types'
  BY <1>0, <1>1 DEF IInv, Types
<1>3. Rounds' /\ Books'
  BY <1>0, <1>1 DEF IInv, Rounds, Books
<1>4. Waiters'
  BY <1>0 DEF IInv, Waiters, Registered
<1>5. DoubleCheck'
  <2>1. \A q : Asked(q)' <=> Asked(q)
    BY <1>0 DEF Asked
  <2> QED BY <1>0, <1>1, <2>1 DEF IInv, DoubleCheck, Unloaded
<1>6. SyncCovers'
  BY <1>0 DEF IInv, SyncCovers
<1> QED BY <1>2, <1>3, <1>4, <1>5, <1>6 DEF IInv

(* A full buffer is not an empty one.                                       *)
LEMMA FullMeansLoaded == ASSUME Types, Books, mIsFull PROVE ~Unloaded
  BY Limits DEF Types, Books, Unloaded

(* A round begins at io.last, the first ring while nothing is loaded.       *)
LEMMA BeginRoundIInv == ASSUME IInv, BeginRound PROVE IInv'
<1>1. CASE mIsFull \/ mThreadLoggerBufferPtrs = <<>>
  <2>1. Goto("empty") /\ OnlyIo
    BY <1>1 DEF BeginRound
  <2>2. Unloaded => Len(mThreadLoggerBufferPtrs) = 0
    BY <1>1, FullMeansLoaded DEF IInv
  <2> QED BY <2>1, <2>2, RoundOverIInv
<1>2. CASE ~(mIsFull \/ mThreadLoggerBufferPtrs = <<>>)
  <2>1. Peek(io.last) /\ OnlyIo
    BY <1>2 DEF BeginRound
  <2>2. io.last \in Nat /\ io.last < Len(mThreadLoggerBufferPtrs)
    BY <1>2 DEF IInv, Types, Rounds
  <2>3. Unloaded => io.last = 0
    BY DEF IInv, DoubleCheck
  <2> QED BY <2>1, <2>2, <2>3, PeekIInv
<1> QED BY <1>1, <1>2

(* A round goes on to the ring after the one it is at, or is over.          *)
LEMMA NextRingIInv == ASSUME IInv, NextRing PROVE IInv'
<1>0. io.at = "next" /\ OnlyIo
  BY DEF NextRing
<1>1. PICK n \in Nat, j \in Nat : n = Len(mThreadLoggerBufferPtrs) /\ j = io.cur /\ j < n
  BY <1>0 DEF IInv, Types, Rounds
<1>2. PICK k \in Nat : k = (j + 1) % n /\ k = IF j + 1 = n THEN 0 ELSE j + 1
  <2>1. CASE j + 1 = n
    <3>1. n % n = 0
      BY <1>1
    <3> QED BY <2>1, <3>1
  <2>2. CASE j + 1 < n
    <3>1. (j + 1) % n = j + 1
      BY <1>1, <2>2
    <3> QED BY <2>2, <3>1
  <2> QED BY <1>1, <2>1, <2>2
<1>3. IF k = io.last \/ mIsFull THEN Goto("empty") ELSE Peek(k)
  BY <1>1, <1>2 DEF NextRing
<1>4. Unloaded /\ mSyncStatus = "DOUBLECHECK" =>
        \A i \in 1..(j + 1) : ~Asked(mThreadLoggerBufferPtrs[i])
  <2> SUFFICES ASSUME Unloaded, mSyncStatus = "DOUBLECHECK", NEW i \in 1..(j + 1)
               PROVE  ~Asked(mThreadLoggerBufferPtrs[i])
    OBVIOUS
  <2>1. i \in 1..Len(mThreadLoggerBufferPtrs) /\ ~(i > io.cur + 1)
    BY <1>1
  <2> QED BY <1>0, <2>1 DEF IInv, DoubleCheck, InRound
<1>5. CASE k = io.last \/ mIsFull
  <2>1. Unloaded => k = 0
    BY <1>5, FullMeansLoaded DEF IInv, DoubleCheck
  <2>2. Unloaded => j + 1 = n
    BY <1>1, <1>2, <2>1
  <2> QED BY <1>0, <1>1, <1>3, <1>4, <1>5, <2>2, RoundOverIInv
<1>6. CASE ~(k = io.last \/ mIsFull)
  <2>1. k < n /\ \A i \in 1..k : i \in 1..(j + 1)
    BY <1>1, <1>2
  <2> QED BY <1>0, <1>1, <1>3, <1>4, <1>6, <2>1, PeekIInv
<1> QED BY <1>5, <1>6

(* What is loaded is counted, and the buffer is never again empty.          *)
LEMMA LoadIInv == ASSUME IInv, Load PROVE IInv'
<1> USE DEF rings, swap, flush, callers, status
<1>0. /\ io.at = "load" /\ UNCHANGED <<rings, flush, callers, status>>
      /\ io' = [io EXCEPT !.at = "next", !.peeked = 0, !.idle = FALSE]
      /\ "backlog" \in mishaps' <=> "backlog" \in mishaps
  BY DEF Load
<1>1. PICK p \in Producers, n \in Nat \ {0} :
        /\ p = mThreadLoggerBufferPtrs[io.cur + 1] /\ n = io.peeked
        /\ consumed[p] + n <= committed[p]
  BY <1>0, RingAtHand DEF IInv
<1>2. consumed' = [consumed EXCEPT ![p] = consumed[p] + n]
      /\ mLoadedBufferSize' = mLoadedBufferSize + n
      /\ mLoadedBufferSize + n < BufferLimit
      /\ mIsFull' = (mIsFull \/ mLoadedBufferSize' >= HighWaterMark)
  BY <1>1 DEF Load, Fits
<1>3. consumed' \in [Producers -> 0..MaxBytes] /\ consumed \in [Producers -> 0..MaxBytes]
      /\ committed \in [Producers -> 0..MaxBytes] /\ mLoadedBufferSize \in Nat
  <2>1. consumed[p] + n \in 0..MaxBytes
    <3>1. committed[p] \in 0..MaxBytes /\ consumed[p] \in 0..MaxBytes
      BY DEF IInv, Types
    <3> QED BY <1>1, <3>1, Limits
  <2>2. consumed \in [Producers -> 0..MaxBytes]
    BY DEF IInv, Types
  <2>3. consumed' \in [Producers -> 0..MaxBytes]
    BY <1>2, <2>1, <2>2
  <2> QED BY <2>2, <2>3 DEF IInv, Types
<1>4. mCurLoadingPos' \in 0..BlockSize /\ blocks' \in Nat
  <2>1. PICK e \in Nat \ {0} : e = mCurLoadingPos + n
    BY Limits DEF IInv, Types
  <2>2. PICK t \in Nat : t = (e - 1) \div BlockSize /\ e - t * BlockSize \in 1..BlockSize
    <3>1. e - 1 \in Nat /\ BlockSize \in Nat \ {0}
      BY <2>1, Limits
    <3>2. PICK m \in Nat, s \in Nat \ {0} : m = e - 1 /\ s = BlockSize
      BY <3>1
    <3>3. m \div s \in Nat /\ m - s * (m \div s) \in 0..(s - 1)
      BY Z3
    <3>4. (m \div s) * s = s * (m \div s)
      BY <3>3
    <3> QED BY <3>2, <3>3, <3>4
  <2>3. blocks' = blocks + t /\ mCurLoadingPos' = e - t * BlockSize
    BY <1>1, <2>1, <2>2 DEF Load
  <2> QED BY <2>2, <2>3, Limits DEF IInv, Types
<1>5. io' \in [at : IoPlaces, cur : Nat, last : Nat, peeked : Nat, idle : BOOLEAN]
      /\ io'.at = "next" /\ io'.cur = io.cur /\ io'.last = io.last
  BY <1>0 DEF IInv, Types, IoPlaces
<1>6. Types'
  <2>1. mLoadedBufferSize' \in Nat /\ mIsFull' \in BOOLEAN
    BY <1>2, <1>3 DEF IInv, Types
  <2> QED BY <1>0, <1>3, <1>4, <1>5, <2>1 DEF IInv, Types
<1>7. Rounds'
  BY <1>0, <1>5 DEF IInv, Rounds
<1>8. Books'
  <2>1. Sum(0, consumed') = Sum(0, consumed) + n
    <3>1. consumed \in [Producers -> Nat] /\ consumed' \in [Producers -> Nat]
      BY <1>3, Limits
    <3>2. consumed'[p] = consumed[p] + n /\ \A q \in Producers \ {p} : consumed'[q] = consumed[q]
      BY <1>2, <1>3
    <3>3. n \in Nat
      OBVIOUS
    <3> QED BY <3>1, <3>2, <3>3, Limits, SumAdds
  <2>2. mIsFull' <=> mLoadedBufferSize' >= HighWaterMark
    <3>1. HighWaterMark \in Nat /\ mLoadedBufferSize \in Nat /\ n \in Nat
      BY <1>3, Limits
    <3>2. mIsFull <=> mLoadedBufferSize >= HighWaterMark
      BY DEF IInv, Books
    <3>3. mLoadedBufferSize >= HighWaterMark => mLoadedBufferSize + n >= HighWaterMark
      BY <3>1
    <3>4. mIsFull' <=> (mIsFull \/ mLoadedBufferSize' >= HighWaterMark)
      BY <1>2
    <3> QED BY <1>2, <3>2, <3>3, <3>4
  <2>3. \A q \in Producers : consumed'[q] <= committed[q]
    <3> TAKE q \in Producers
    <3>1. consumed[q] \in Nat /\ consumed[q] <= committed[q]
      BY <1>3 DEF IInv, Types, Books
    <3> QED BY <1>1, <1>2, <1>3, <3>1
  <2>4. mLoadedBufferSize' # 0
    BY <1>2, <1>3
  <2> QED BY <1>0, <1>2, <2>1, <2>2, <2>3, <2>4 DEF IInv, Books
<1>9. Waiters'
  BY <1>0 DEF IInv, Waiters, Registered
<1>10. DoubleCheck'
  BY <1>2, <1>3 DEF DoubleCheck, Unloaded
<1>11. SyncCovers'
  BY <1>0 DEF IInv, SyncCovers
<1> QED BY <1>6, <1>7, <1>8, <1>9, <1>10, <1>11 DEF IInv

(* What an empty buffer refuses is recorded.                                *)
LEMMA RefuseIInv == ASSUME IInv, Refuse PROVE IInv'
<1> USE DEF rings, swap, flush, callers, status
<1>0. /\ io.at = "load" /\ UNCHANGED <<rings, consumed, swap, flush, callers, status>>
      /\ io' = [io EXCEPT !.at = "next", !.peeked = 0, !.last = io.cur]
      /\ mishaps' = mishaps \union {IF mLoadedBufferSize = 0 THEN "backlog" ELSE "refused"}
  BY DEF Refuse
<1>1. io' \in [at : IoPlaces, cur : Nat, last : Nat, peeked : Nat, idle : BOOLEAN]
      /\ io'.at = "next" /\ io'.cur = io.cur /\ io'.last = io.cur
  BY <1>0 DEF IInv, Types, IoPlaces
<1>2. Types'
  BY <1>0, <1>1 DEF IInv, Types
<1>3. Rounds' /\ Books'
  BY <1>0, <1>1 DEF IInv, Rounds, Books
<1>4. Waiters'
  BY <1>0 DEF IInv, Waiters, Registered
<1>5. DoubleCheck'
  BY <1>0 DEF DoubleCheck, Unloaded
<1>6. SyncCovers'
  BY <1>0 DEF IInv, SyncCovers
<1> QED BY <1>2, <1>3, <1>4, <1>5, <1>6 DEF IInv

(* Telling one caller.                                                      *)
LEMMA NotifyIs ==
  ASSUME Types, notify_one
  PROVE  /\ pc' \in [Threads -> {"idle", "wait", "notified", "stop", "join"}]
         /\ \A c \in Threads : pc'[c] = pc[c] \/ (pc[c] = "wait" /\ pc'[c] = "notified")
         /\ (\E c \in Threads : pc[c] = "wait") =>
              \E c \in Threads : pc[c] = "wait" /\ pc'[c] = "notified"
<1>1. CASE {c \in Threads : pc[c] = "wait"} = {}
  BY <1>1 DEF notify_one, Types
<1>2. CASE {c \in Threads : pc[c] = "wait"} # {}
  <2>1. PICK c \in Threads : pc[c] = "wait" /\ pc' = [pc EXCEPT ![c] = "notified"]
    BY <1>2 DEF notify_one
  <2> QED BY <2>1 DEF Types
<1> QED BY <1>1, <1>2

(* The answer: with nothing loaded after a second round, nothing that the     *)
(* caller asks for was committed, or a backlog was passed over.              *)
LEMMA EmptyStageIInv == ASSUME IInv, EmptyStage PROVE IInv'
<1> USE DEF rings, swap, flush, callers, status
<1>0. /\ io.at = "empty"
      /\ UNCHANGED <<rings, consumed, swap, flush, mBGThreadStatus, target, calls, mishaps>>
  BY DEF EmptyStage
<1>1. CASE mLoadedBufferSize # 0
  <2>1. Goto("aio") /\ UNCHANGED <<mSyncStatus, pc>>
    BY <1>1 DEF EmptyStage
  <2>2. /\ io' \in [at : IoPlaces, cur : Nat, last : Nat, peeked : Nat, idle : BOOLEAN]
        /\ io'.at = "aio" /\ io'.last = io.last
    BY <2>1, GotoIs DEF IInv, IoPlaces
  <2>3. io' \in [at : IoPlaces \ InRound, cur : Nat, last : Nat, peeked : Nat, idle : BOOLEAN]
    BY <2>2 DEF InRound, IoPlaces
  <2> QED BY <1>0, <2>1, <2>2, <2>3, QuietIInv DEF IInv, Types
<1>2. CASE mLoadedBufferSize = 0 /\ mSyncStatus = "SYNCPENDING"
  <2>1. mSyncStatus' = "DOUBLECHECK" /\ Goto("test") /\ UNCHANGED pc
    BY <1>2 DEF EmptyStage
  <2>2. /\ io' \in [at : IoPlaces, cur : Nat, last : Nat, peeked : Nat, idle : BOOLEAN]
        /\ io'.at = "test" /\ io'.last = io.last
    BY <2>1, GotoIs DEF IInv, IoPlaces
  <2>3. Types'
    BY <1>0, <2>1, <2>2 DEF IInv, Types
  <2>4. Rounds' /\ Books'
    BY <1>0, <2>1, <2>2 DEF IInv, Rounds, Books
  <2>5. Waiters'
    BY <1>0, <2>1 DEF IInv, Waiters, Registered
  <2>6. DoubleCheck'
    BY <1>0, <2>1, <2>2 DEF IInv, DoubleCheck, Unloaded, InRound
  <2>7. SyncCovers'
    BY <1>0, <2>1 DEF IInv, SyncCovers
  <2> QED BY <2>3, <2>4, <2>5, <2>6, <2>7 DEF IInv
<1>3. CASE mLoadedBufferSize = 0 /\ mSyncStatus # "SYNCPENDING"
  <2>1. mSyncStatus' = "COMPLETED" /\ notify_one /\ Goto("sleep")
    <3>1. ~mIsAioing /\ mSyncStatus \in {"DOUBLECHECK", "COMPLETED"}
      BY <1>3 DEF IInv, Types, Books
    <3> QED BY <1>3, <3>1 DEF EmptyStage, AfterDoubleCheck
  <2>2. /\ io' \in [at : IoPlaces, cur : Nat, last : Nat, peeked : Nat, idle : BOOLEAN]
        /\ io'.at = "sleep" /\ io'.last = io.last
    BY <2>1, GotoIs DEF IInv, IoPlaces
  <2>3. /\ pc' \in [Threads -> {"idle", "wait", "notified", "stop", "join"}]
        /\ \A c \in Threads : pc'[c] = pc[c] \/ (pc[c] = "wait" /\ pc'[c] = "notified")
        /\ (\E c \in Threads : pc[c] = "wait") =>
             \E c \in Threads : pc[c] = "wait" /\ pc'[c] = "notified"
    BY <2>1, NotifyIs DEF IInv
  <2>4. Types'
    BY <1>0, <2>1, <2>2, <2>3 DEF IInv, Types
  <2>5. Rounds' /\ Books'
    BY <1>0, <2>1, <2>2 DEF IInv, Rounds, Books
  <2>6. \A c \in Threads : pc'[c] # "wait"
    BY <2>3 DEF IInv, Waiters
  <2>7. Waiters'
    BY <1>0, <2>6 DEF IInv, Waiters, Registered
  <2>8. DoubleCheck'
    BY <1>0, <2>1, <2>2 DEF IInv, DoubleCheck, Unloaded, InRound
  <2>9. SyncCovers'
    <3> SUFFICES ASSUME NEW c \in Threads, pc'[c] = "notified", "backlog" \notin mishaps,
                        NEW p \in Producers
                 PROVE  target[c][p] = 0
      BY <1>0 DEF SyncCovers
    <3>1. CASE pc[c] = "notified"
      BY <3>1 DEF IInv, SyncCovers
    <3>2. CASE pc[c] = "wait"
      <4>1. mSyncStatus = "DOUBLECHECK" /\ Unloaded
        BY <1>3, <3>2 DEF IInv, Types, Books, Waiters, Unloaded
      <4>2. ~Asked(p)
        <5>1. CASE p \in Registered
          <6>1. PICK i \in 1..Len(mThreadLoggerBufferPtrs) : p = mThreadLoggerBufferPtrs[i]
            BY <5>1, RegisteredIs DEF IInv
          <6> QED BY <1>0, <4>1, <6>1 DEF IInv, DoubleCheck, InRound
        <5>2. CASE p \notin Registered
          BY <5>2, NotAsked DEF IInv
        <5> QED BY <5>1, <5>2
      <4>3. target[c][p] = 0
        BY <3>2, <4>2 DEF Asked
      <4> QED BY <4>3
    <3> QED BY <2>3, <3>1, <3>2
  <2> QED BY <2>4, <2>5, <2>7, <2>8, <2>9 DEF IInv
<1> QED BY <1>1, <1>2, <1>3

(* No sync is waiting for the flush that has completed.                      *)
LEMMA CompleteIInv == ASSUME IInv, Complete PROVE IInv'
<1> USE DEF rings, swap, flush, callers, status
<1>0. /\ Goto("flush") /\ mIsAioing' = FALSE
      /\ UNCHANGED <<mSyncStatus, pc>>
      /\ UNCHANGED <<rings, consumed, swap, mFlushFuture, mBGThreadStatus, target, calls, mishaps>>
  BY DEF Complete, IInv, Books
<1>1. /\ io' \in [at : IoPlaces, cur : Nat, last : Nat, peeked : Nat, idle : BOOLEAN]
      /\ io'.at = "flush" /\ io'.last = io.last
  BY <1>0, GotoIs DEF IInv, IoPlaces
<1>2. Types'
  BY <1>0, <1>1 DEF IInv, Types
<1>3. Rounds'
  BY <1>0, <1>1 DEF IInv, Rounds
<1>4. Books'
  BY <1>0 DEF IInv, Books
<1>5. Waiters'
  BY <1>0 DEF IInv, Waiters, Registered
<1>6. DoubleCheck'
  BY <1>0, <1>1 DEF IInv, DoubleCheck, Unloaded, InRound
<1>7. SyncCovers'
  BY <1>0 DEF IInv, SyncCovers
<1> QED BY <1>2, <1>3, <1>4, <1>5, <1>6, <1>7 DEF IInv

(* A flush is begun only when something was loaded, and unloads nothing.     *)
LEMMA AioFlushIInv == ASSUME IInv, AioFlush PROVE IInv'
<1> USE DEF rings, swap, flush, callers, status
<1>0. /\ Goto("test") /\ mIsAioing' = TRUE /\ mLoadedBufferSize # 0
      /\ mFlushFuture' \in {"none", "pending"} /\ blocks' = 0
      /\ UNCHANGED <<rings, consumed, mLoadedBufferSize, mIsFull, mCurLoadingPos, callers, status,
                     mishaps>>
  BY DEF AioFlush
<1>1. /\ io' \in [at : IoPlaces, cur : Nat, last : Nat, peeked : Nat, idle : BOOLEAN]
      /\ io'.at = "test" /\ io'.last = io.last
  BY <1>0, GotoIs DEF IInv, IoPlaces
<1>2. Types'
  BY <1>0, <1>1 DEF IInv, Types
<1>3. Rounds'
  BY <1>0, <1>1 DEF IInv, Rounds
<1>4. Books'
  BY <1>0 DEF IInv, Books
<1>5. Waiters'
  BY <1>0 DEF IInv, Waiters, Registered
<1>6. DoubleCheck'
  BY <1>0 DEF DoubleCheck, Unloaded
<1>7. SyncCovers'
  BY <1>0 DEF IInv, SyncCovers
<1> QED BY <1>2, <1>3, <1>4, <1>5, <1>6, <1>7 DEF IInv

(* The completion of a flush is nothing that the invariant speaks of.       *)
LEMMA StillIInv ==
  ASSUME IInv, UNCHANGED <<rings, consumed, swap, mIsAioing, callers, status, io, mishaps>>,
         mFlushFuture' \in {"none", "pending", "ready"}
  PROVE  IInv'
<1> USE DEF rings, swap, flush, callers, status
<1>1. Types'
  BY DEF IInv, Types
<1>2. Rounds' /\ Books'
  BY DEF IInv, Rounds, Books
<1>3. Waiters'
  BY DEF IInv, Waiters, Registered
<1>4. DoubleCheck'
  BY DEF IInv, DoubleCheck, Unloaded, Asked
<1>5. SyncCovers'
  BY DEF IInv, SyncCovers
<1> QED BY <1>1, <1>2, <1>3, <1>4, <1>5 DEF IInv

-----------------------------------------------------------------------------
(* The theorems.                                                            *)

(* IInv holds in every state that the threads of nanolog can reach.         *)
THEOREM Inductive == Spec => []IInv
<1>1. IInv /\ [Next]_vars => IInv'
  <2> SUFFICES ASSUME IInv, [Next]_vars PROVE IInv'
    OBVIOUS
  <2>1. ASSUME NEW p \in Producers, allocate_logger_buffer(p) \/ StrayPointer(p) PROVE IInv'
    BY <2>1, AllocateIInv
  <2>2. ASSUME NEW p \in Producers, NEW n \in MessageSizes, commit_buffer_with_size(p, n)
        PROVE  IInv'
    BY <2>2, CommitIInv
  <2>3. ASSUME NEW c \in Threads, sync_internal(c) PROVE IInv'
    BY <2>3, SyncIInv
  <2>4. ASSUME NEW c \in Threads, Notified(c) \/ Spurious(c) PROVE IInv'
    BY <2>4, ReturnIInv DEF Notified, Spurious
  <2>5. CASE set_log_file_internal
    BY <2>5, SetLogFileIInv
  <2>6. CASE IoBackgroundThreadFunction
    BY <2>6, QuietIoIInv, BeginRoundIInv, LoadIInv, RefuseIInv, NextRingIInv, EmptyStageIInv,
       CompleteIInv, AioFlushIInv DEF IoBackgroundThreadFunction
  <2>7. CASE Reap
    BY <2>7, StillIInv DEF Reap
  <2>8. CASE CannotOpen
    BY <2>8, CannotOpenIInv
  <2>9. CASE UNCHANGED vars
    <3>1. mFlushFuture' \in {"none", "pending", "ready"}
      BY <2>9 DEF vars, flush, IInv, Types
    <3> QED BY <2>9, <3>1, StillIInv DEF vars, flush
  <2> QED BY <2>1, <2>2, <2>3, <2>4, <2>5, <2>6, <2>7, <2>8, <2>9 DEF Next
<1> QED BY <1>1, InitIInv, PTL DEF Spec

(* The books of the swap buffer: it says that it holds all that was ever      *)
(* consumed, what is consumed was committed, and AIOPENDING is never entered. *)
THEOREM BooksKept == Spec => []LoggerInv
<1>1. IInv => LoggerInv
  <2> SUFFICES ASSUME IInv PROVE LoggerInv
    OBVIOUS
  <2>1. TypeOK
    BY RegisteredIs DEF IInv, Types, TypeOK
  <2>2. \A p \in Producers : consumed[p] + (IF io.at = "load" /\ mThreadLoggerBufferPtrs[io.cur + 1] = p
                                            THEN io.peeked ELSE 0) <= committed[p]
    <3> TAKE p \in Producers
    <3>1. consumed[p] \in Nat /\ consumed[p] <= committed[p]
      BY Limits DEF IInv, Types, Books
    <3>2. CASE io.at = "load" /\ mThreadLoggerBufferPtrs[io.cur + 1] = p
      BY <3>2 DEF IInv, Rounds
    <3> QED BY <3>1, <3>2
  <2> QED BY <2>1, <2>2 DEF IInv, Books, Sum, LoggerInv
<1> QED BY <1>1, Inductive, PTL

(* A sync that is answered finds nothing committed before it unwritten: there *)
(* was nothing, or a backlog was passed over.                               *)
THEOREM SyncAnswersCover == Spec => []SyncCovers
<1>1. IInv => SyncCovers
  BY DEF IInv
<1> QED BY <1>1, Inductive, PTL
=============================================================================
