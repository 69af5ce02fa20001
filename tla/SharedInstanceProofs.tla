------------------------ MODULE SharedInstanceProofs ------------------------
(***************************************************************************)
(* Theorems about SharedInstance: at most one pool is made (OnePool), its    *)
(* counter is the number of its owners (CountsOwners), and nobody changes    *)
(* the counter of a deleted pool (TouchesLive).                             *)
(*                                                                         *)
(* The invariant is built in four layers, each inductive with those before:  *)
(*   Shape    what each thread still has to do is the rest of one operation; *)
(*   Single   one pool, the mutex, and what holds before it is published;    *)
(*   Counted  the counter of the pool and the handles that own it;           *)
(*   Safe     who may still reach a pool that is to be deleted.              *)
(***************************************************************************)
EXTENDS SharedInstance, FiniteSetTheorems, SequenceTheorems, TLAPS

(* The variables of a thread, with the unnamed result.                      *)
Mine(t) == Locals(t) \cup {Result(t)}

LEMMA HandlesApart ==
  /\ Instance \in Handles /\ IsFiniteSet(Handles)
  /\ \A t \in Threads : /\ Mine(t) \subseteq Handles /\ <<t, "p">> \in Locals(t)
                        /\ Result(t) \notin Locals(t) /\ Instance \notin Mine(t)
  /\ \A t, u \in Threads : t # u => Mine(t) \cap Mine(u) = {}
<1>1. \A t \in Threads : /\ Locals(t) \subseteq Threads \X {"p", "q"} /\ <<t, "p">> \in Locals(t)
                         /\ Result(t) \in Threads \X {"result"} /\ Result(t) \notin Locals(t)
  BY ThreadsAssumption DEF Locals, Result
<1>2. \A t \in Threads : Instance \notin Mine(t)
  BY <1>1, ThreadsAssumption DEF Mine
<1>3. \A t, u \in Threads : t # u => Mine(t) \cap Mine(u) = {}
  <2>1. \A t, u \in Threads : t # u => \A x \in Mine(t) : x \notin Mine(u)
    BY ThreadsAssumption DEF Mine, Locals, Result
  <2> QED BY <2>1
<1>4. IsFiniteSet(Handles)
  <2>1. IsFiniteSet({"p", "q", "result"})
    <3>1. IsFiniteSet({"p", "q"})
      <4>1. {"p", "q"} = {"p"} \cup {"q"}
        OBVIOUS
      <4>2. IsFiniteSet({"p"} \cup {"q"})
        BY FS_Singleton, FS_Union
      <4> QED BY <4>1, <4>2
    <3>2. {"p", "q", "result"} = {"p", "q"} \cup {"result"}
      OBVIOUS
    <3> QED BY <3>1, <3>2, FS_AddElement
  <2>2. IsFiniteSet({Instance} \cup (Threads \X {"p", "q", "result"}))
    <3>1. IsFiniteSet(Threads \X {"p", "q", "result"})
      BY <2>1, FS_Product, ThreadsAssumption
    <3> QED BY <3>1, FS_Singleton, FS_Union
  <2>3. Handles \subseteq {Instance} \cup (Threads \X {"p", "q", "result"})
    <3> SUFFICES ASSUME NEW h \in Handles, h # Instance
                 PROVE  h \in Threads \X {"p", "q", "result"}
      OBVIOUS
    <3>1. PICK t \in Threads : h \in Locals(t) \cup {Result(t)}
      BY DEF Handles
    <3> QED BY <1>1, <3>1
  <2>4. Handles \in SUBSET ({Instance} \cup (Threads \X {"p", "q", "result"}))
    BY <2>3
  <2> QED BY <2>2, <2>4, FS_Subset
<1> QED BY <1>1, <1>2, <1>3, <1>4 DEF Handles, Mine

-----------------------------------------------------------------------------
(* What a thread may have still to do, with what that asks of its handles.   *)

(* Nothing but the end of a call of GetInstance uses the unnamed result.     *)
NoResult(t) == ptr[Result(t)] = Nil

(* d becomes a copy of s, which the thread keeps to itself.                 *)
Copied(t, d, s) ==
  d \in Locals(t) /\ s \in Mine(t) /\ d # s /\ (s # Result(t) => NoResult(t))

(* d becomes an owner of o, which another variable of the thread owns.       *)
Given(t, d, o) ==
  /\ d \in Locals(t) /\ NoResult(t)
  /\ "self_assigned" \in mishaps \/ \E s \in Locals(t) \ {d} : ptr[s] = o

ToNull(t, q) ==
  \/ \E h \in Mine(t) : q = << <<"null", h>> >> /\ (h # Result(t) => NoResult(t))
  \/ \E d, s \in Locals(t) : Copied(t, d, s)
       /\ q = << <<"null", d>>, <<"load", d, s>>, <<"inc", d>>, <<"dec", s>>, <<"null", s>> >>
  \/ \E d \in Locals(t), o \in made : Given(t, d, o)
       /\ q = << <<"null", d>>, <<"raw", d, o>>, <<"inc", d>> >>
  \/ t = Main /\ exiting /\ NoResult(t) /\ q = << <<"null", Instance>> >>

ToDecrease(t, q) ==
  \/ \E h \in Mine(t) : q = RefCountDecrease(h) /\ (h # Result(t) => NoResult(t))
  \/ \E d, s \in Locals(t) : Copied(t, d, s)
       /\ q = << <<"dec", d>>, <<"null", d>>, <<"load", d, s>>, <<"inc", d>>, <<"dec", s>>, <<"null", s>> >>
  \/ \E d \in Locals(t), o \in made : Given(t, d, o)
       /\ q = << <<"dec", d>>, <<"null", d>>, <<"raw", d, o>>, <<"inc", d>> >>
  \/ t = Main /\ exiting /\ NoResult(t) /\ q = RefCountDecrease(Instance)

ToLoad(t, q) ==
  \/ \E d \in Locals(t), s \in Mine(t) : Copied(t, d, s) /\ ptr[d] = Nil
       /\ q = << <<"load", d, s>>, <<"inc", d>>, <<"dec", s>>, <<"null", s>> >>
  \/ \E d, s \in Locals(t) : Copied(t, d, s) /\ ptr[d] = Nil
       /\ q = << <<"load", d, s>>, <<"inc", d>> >>
  \/ \E p \in Locals(t), r \in {Result(t)} : ptr[p] = Nil /\ ptr[r] = Nil
       /\ q = << <<"load", r, Instance>>, <<"inc", r>>, <<"load", p, r>>, <<"inc", p>>,
                 <<"dec", r>>, <<"null", r>> >>

ToStore(t, q) ==
  \/ \E d \in Locals(t), o \in made : Given(t, d, o) /\ ptr[d] = Nil
       /\ q = << <<"raw", d, o>>, <<"inc", d>> >>
  \/ \E d, s \in Locals(t) : Copied(t, d, s) /\ (ptr[d] # Nil \/ ptr[s] # Nil) /\ q = << <<"copy", d, s>> >>

ToIncrease(t, q) ==
  \/ \E d \in Locals(t), s \in Mine(t) : Copied(t, d, s) /\ ptr[d] = ptr[s]
       /\ q = << <<"inc", d>>, <<"dec", s>>, <<"null", s>> >>
  \/ \E d \in Locals(t) : Given(t, d, ptr[d]) /\ q = << <<"inc", d>> >>
  \/ \E p \in Locals(t), r \in {Result(t)} : ptr[p] = Nil
       /\ q = << <<"inc", r>>, <<"load", p, r>>, <<"inc", p>>, <<"dec", r>>, <<"null", r>> >>

(* The holder of the mutex stores the pool it made, counts it and unlocks.   *)
ToUnlock(q) ==
  \/ q = << <<"unlock">> >>
  \/ q = << <<"inc", Instance>>, <<"unlock">> >>
  \/ \E o \in made :
       \/ q = << <<"raw", Instance, o>>, <<"inc", Instance>>, <<"unlock">> >>
       \/ q = << <<"null", Instance>>, <<"raw", Instance, o>>, <<"inc", Instance>>, <<"unlock">> >>
       \/ q = << <<"dec", Instance>>, <<"null", Instance>>, <<"raw", Instance, o>>,
                 <<"inc", Instance>>, <<"unlock">> >>

(* The pool counted down has still to be deleted, or its count to be logged. *)
AfterDecrease(t) ==
  /\ todo[t] # <<>> /\ \E o \in made : Next1(t) \in {<<"delete", o>>, <<"log", o>>}
  /\ ToNull(t, Tail(todo[t])) /\ Len(todo[t]) > 1 /\ todo[t][2] = Head(Tail(todo[t]))

InSptr(t, q) == ToNull(t, q) \/ ToDecrease(t, q) \/ ToLoad(t, q) \/ ToStore(t, q) \/ ToIncrease(t, q)

Plan(t) ==
  \/ pc[t] # "hold" /\ todo[t] = <<>> /\ NoResult(t) /\ (pc[t] # "idle" => ptr[<<t, "p">>] = Nil)
  \/ pc[t] = "idle" /\ (InSptr(t, todo[t]) \/ AfterDecrease(t))
  \/ pc[t] = "hold" /\ ToUnlock(todo[t]) /\ NoResult(t) /\ ptr[<<t, "p">>] = Nil

Shape ==
  /\ TypeOK /\ DOMAIN todo = Threads
  /\ count \in [Pools -> Int] /\ skew \in [Pools -> Int]
  /\ \A t \in Threads : Plan(t)

(* The holder of the mutex has made a pool and not yet stored it, or has      *)
(* stored it and not yet counted it.                                        *)
Making(t) == pc[t] = "hold" /\ Op(t) \in {"dec", "null", "raw"}
Window(t) == pc[t] = "hold" /\ Op(t) = "inc"

(* A thread that is in GetInstance up to the count of what it returns.       *)
Getting(t) ==
  \/ pc[t] # "idle"
  \/ Op(t) = "load" /\ Next1(t)[3] = Instance
  \/ Op(t) = "inc" /\ Next1(t)[2] = Result(t)

LEMMA HeadOps ==
  ASSUME NEW t \in Threads, NEW q
  PROVE  /\ ToNull(t, q) => q # <<>> /\ Head(q)[1] = "null"
         /\ ToDecrease(t, q) => q # <<>> /\ Head(q)[1] = "dec"
         /\ ToLoad(t, q) => q # <<>> /\ Head(q)[1] = "load"
         /\ ToStore(t, q) => q # <<>> /\ Head(q)[1] \in {"raw", "copy"}
         /\ ToIncrease(t, q) => q # <<>> /\ Head(q)[1] = "inc"
         /\ ToUnlock(q) => q # <<>> /\ Head(q)[1] \in {"unlock", "inc", "raw", "null", "dec"}
<1>1. ToNull(t, q) => q # <<>> /\ Head(q)[1] = "null"
  BY DEF ToNull
<1>2. ToDecrease(t, q) => q # <<>> /\ Head(q)[1] = "dec"
  BY DEF ToDecrease, RefCountDecrease
<1>3. ToLoad(t, q) => q # <<>> /\ Head(q)[1] = "load"
  BY DEF ToLoad
<1>4. ToStore(t, q) => q # <<>> /\ Head(q)[1] \in {"raw", "copy"}
  BY DEF ToStore
<1>5. ToIncrease(t, q) => q # <<>> /\ Head(q)[1] = "inc"
  BY DEF ToIncrease
<1>6. ToUnlock(q) => q # <<>> /\ Head(q)[1] \in {"unlock", "inc", "raw", "null", "dec"}
  BY DEF ToUnlock
<1> QED BY <1>1, <1>2, <1>3, <1>4, <1>5, <1>6

(* Which plan a thread is in, by its next access.                           *)
LEMMA PlanOfOp ==
  ASSUME NEW t \in Threads, Plan(t)
  PROVE  /\ Op(t) = "load" => pc[t] = "idle" /\ ToLoad(t, todo[t])
         /\ Op(t) = "copy" => pc[t] = "idle" /\ ToStore(t, todo[t])
         /\ Op(t) = "raw" => (pc[t] = "idle" /\ ToStore(t, todo[t])) \/ (pc[t] = "hold" /\ ToUnlock(todo[t]))
         /\ Op(t) = "null" => (pc[t] = "idle" /\ ToNull(t, todo[t])) \/ (pc[t] = "hold" /\ ToUnlock(todo[t]))
         /\ Op(t) = "inc" => (pc[t] = "idle" /\ ToIncrease(t, todo[t])) \/ (pc[t] = "hold" /\ ToUnlock(todo[t]))
         /\ Op(t) = "dec" => (pc[t] = "idle" /\ ToDecrease(t, todo[t])) \/ (pc[t] = "hold" /\ ToUnlock(todo[t]))
         /\ Op(t) \in {"delete", "log"} => pc[t] = "idle" /\ AfterDecrease(t)
         /\ Op(t) = "unlock" => pc[t] = "hold" /\ todo[t] = << <<"unlock">> >>
         /\ pc[t] = "hold" => /\ ToUnlock(todo[t]) /\ todo[t] # <<>>
                              /\ Op(t) \in {"unlock", "inc", "raw", "null", "dec"}
         /\ todo[t] # <<>> => pc[t] \in {"idle", "hold"}
<1> USE HeadOps DEF Op, Next1
<1>1. CASE todo[t] = <<>>
  BY <1>1 DEF Plan
<1>2. CASE pc[t] = "idle" /\ InSptr(t, todo[t])
  BY <1>2 DEF InSptr
<1>3. CASE pc[t] = "idle" /\ AfterDecrease(t)
  BY <1>3 DEF AfterDecrease
<1>4. CASE pc[t] = "hold" /\ ToUnlock(todo[t])
  <2>1. Op(t) = "unlock" => todo[t] = << <<"unlock">> >>
    BY <1>4 DEF ToUnlock
  <2> QED BY <1>4, <2>1
<1> QED BY <1>1, <1>2, <1>3, <1>4 DEF Plan

-----------------------------------------------------------------------------
(* Each access of a thread, and what it leaves to do.                       *)

(* What a thread does to its own handles nothing else can change.            *)
LEMMA SameHandles ==
  ASSUME NEW u \in Threads, \A h \in Mine(u) : ptr'[h] = ptr[h],
         made \subseteq made', mishaps \subseteq mishaps', exiting => exiting'
  PROVE  /\ \A d, s : Copied(u, d, s) => Copied(u, d, s)'
         /\ \A d, o : Given(u, d, o) => Given(u, d, o)'
         /\ NoResult(u) => NoResult(u)'
         /\ \A q : ToNull(u, q) => ToNull(u, q)'
<1>1. /\ \A h \in Locals(u) : ptr'[h] = ptr[h]
      /\ ptr'[Result(u)] = ptr[Result(u)]
  BY HandlesApart DEF Mine
<1>2. /\ \A d, s : Copied(u, d, s) => Copied(u, d, s)'
      /\ \A d, o : Given(u, d, o) => Given(u, d, o)'
      /\ NoResult(u) => NoResult(u)'
  BY <1>1 DEF Copied, Given, NoResult, Mine
<1>3. \A q : ToNull(u, q) => ToNull(u, q)'
  BY <1>2 DEF ToNull
<1> QED BY <1>2, <1>3

LEMMA OthersPlan ==
  ASSUME NEW u \in Threads, Plan(u), UNCHANGED <<todo[u], pc[u]>>,
         \A h \in Mine(u) : ptr'[h] = ptr[h],
         made \subseteq made', mishaps \subseteq mishaps', exiting => exiting'
  PROVE  Plan(u)'
<1>1. /\ \A h \in Locals(u) : ptr'[h] = ptr[h]
      /\ ptr'[Result(u)] = ptr[Result(u)] /\ ptr'[<<u, "p">>] = ptr[<<u, "p">>]
  BY HandlesApart DEF Mine
<1>2. \A q : ToDecrease(u, q) => ToDecrease(u, q)'
  BY SameHandles DEF ToDecrease, RefCountDecrease
<1>3. \A q : ToLoad(u, q) => ToLoad(u, q)'
  BY <1>1, SameHandles DEF ToLoad, Mine
<1>4. \A q : ToStore(u, q) => ToStore(u, q)'
  BY <1>1, SameHandles DEF ToStore, Mine
<1>5. \A q : ToIncrease(u, q) => ToIncrease(u, q)'
  BY <1>1, SameHandles DEF ToIncrease, Mine
<1>6. \A q : ToUnlock(q) => ToUnlock(q)'
  BY DEF ToUnlock
<1>7. AfterDecrease(u) => AfterDecrease(u)'
  BY SameHandles DEF AfterDecrease, Next1
<1> QED BY <1>1, <1>2, <1>3, <1>4, <1>5, <1>6, <1>7, SameHandles DEF Plan, InSptr

LEMMA LoadStep ==
  ASSUME Shape, NEW t \in Threads, LoadPtr(t)
  PROVE  /\ Plan(t)' /\ pc[t] = "idle"
         /\ \E d \in Mine(t), s \in Handles :
              /\ Next1(t) = <<"load", d, s>> /\ d # s /\ ptr[d] = Nil
              /\ s \in Mine(t) \/ (s = Instance /\ d = Result(t))
              /\ ptr' = [ptr EXCEPT ![d] = ptr[s]]
              /\ Op(t)' = "inc" /\ Next1(t)' = <<"inc", d>> /\ (d = Result(t) => s = Instance)
<1>1. /\ ptr \in [Handles -> Pools \cup {Nil}] /\ Mine(t) \subseteq Handles /\ Locals(t) \subseteq Mine(t)
      /\ Result(t) \in Mine(t) \ Locals(t) /\ Instance \in Handles \ Mine(t)
      /\ UNCHANGED <<pc, exiting, made>>
  BY HandlesApart DEF Shape, TypeOK, LoadPtr, Mine
<1>2. /\ pc[t] = "idle" /\ todo'[t] = Tail(todo[t]) /\ mishaps \subseteq mishaps'
      /\ ptr' = [ptr EXCEPT ![Next1(t)[2]] = ptr[Next1(t)[3]]] /\ ToLoad(t, todo[t])
  BY PlanOfOp DEF Shape, LoadPtr, Done
<1> DEFINE Load(d, s) == /\ d \in Mine(t) /\ s \in Handles /\ Next1(t) = <<"load", d, s>> /\ d # s /\ ptr[d] = Nil
                         /\ s \in Mine(t) \/ (s = Instance /\ d = Result(t))
                         /\ ptr' = [ptr EXCEPT ![d] = ptr[s]]
                         /\ Op(t)' = "inc" /\ Next1(t)' = <<"inc", d>> /\ (d = Result(t) => s = Instance)
<1>3. ASSUME NEW d \in Locals(t), NEW s \in Mine(t), Copied(t, d, s), ptr[d] = Nil,
             todo[t] = << <<"load", d, s>>, <<"inc", d>>, <<"dec", s>>, <<"null", s>> >>
      PROVE  Plan(t)' /\ Load(d, s)
  <2>1. todo'[t] = << <<"inc", d>>, <<"dec", s>>, <<"null", s>> >> /\ Next1(t) = <<"load", d, s>>
    BY <1>2, <1>3 DEF Next1
  <2>2. ptr'[d] = ptr'[s] /\ Copied(t, d, s)'
    BY <1>1, <1>2, <1>3, <2>1 DEF Copied, NoResult
  <2>3. Load(d, s)
    <3>1. ptr' = [ptr EXCEPT ![d] = ptr[s]]
      BY <1>2, <2>1
    <3>2. Op(t)' = "inc" /\ Next1(t)' = <<"inc", d>>
      BY <2>1 DEF Op, Next1
    <3> QED BY <1>1, <1>3, <2>1, <3>1, <3>2 DEF Copied
  <2>4. ToIncrease(t, todo[t])'
    BY <2>1, <2>2 DEF ToIncrease
  <2>5. InSptr(t, todo[t])'
    BY <2>4 DEF InSptr
  <2> QED BY <1>1, <1>2, <2>3, <2>5 DEF Plan
<1>4. ASSUME NEW d \in Locals(t), NEW s \in Locals(t), Copied(t, d, s), ptr[d] = Nil,
             todo[t] = << <<"load", d, s>>, <<"inc", d>> >>
      PROVE  Plan(t)' /\ Load(d, s)
  <2>1. todo'[t] = << <<"inc", d>> >> /\ Next1(t) = <<"load", d, s>>
    BY <1>2, <1>4 DEF Next1
  <2>2. Given(t, d, ptr[d])'
    BY <1>1, <1>2, <1>4, <2>1 DEF Copied, Given, NoResult
  <2>3. Load(d, s)
    <3>1. ptr' = [ptr EXCEPT ![d] = ptr[s]]
      BY <1>2, <2>1
    <3>2. Op(t)' = "inc" /\ Next1(t)' = <<"inc", d>>
      BY <2>1 DEF Op, Next1
    <3> QED BY <1>1, <1>4, <2>1, <3>1, <3>2 DEF Copied
  <2>4. ToIncrease(t, todo[t])'
    BY <2>1, <2>2 DEF ToIncrease
  <2>5. InSptr(t, todo[t])'
    BY <2>4 DEF InSptr
  <2> QED BY <1>1, <1>2, <2>3, <2>5 DEF Plan
<1>5. ASSUME NEW p \in Locals(t), NEW r \in {Result(t)}, ptr[p] = Nil, ptr[r] = Nil,
             todo[t] = << <<"load", r, Instance>>, <<"inc", r>>, <<"load", p, r>>, <<"inc", p>>,
                          <<"dec", r>>, <<"null", r>> >>
      PROVE  Plan(t)' /\ Load(r, Instance)
  <2>1. /\ todo'[t] = << <<"inc", r>>, <<"load", p, r>>, <<"inc", p>>, <<"dec", r>>, <<"null", r>> >>
        /\ Next1(t) = <<"load", r, Instance>>
    BY <1>2, <1>5 DEF Next1
  <2>2. Load(r, Instance) /\ ptr'[p] = Nil
    <3>1. ptr' = [ptr EXCEPT ![r] = ptr[Instance]]
      BY <1>2, <2>1
    <3>2. Op(t)' = "inc" /\ Next1(t)' = <<"inc", r>>
      BY <2>1 DEF Op, Next1
    <3> QED BY <1>1, <1>5, <2>1, <3>1, <3>2
  <2>3. ToIncrease(t, todo[t])'
    BY <2>1, <2>2 DEF ToIncrease
  <2>4. InSptr(t, todo[t])'
    BY <2>3 DEF InSptr
  <2> QED BY <1>1, <1>2, <2>2, <2>4 DEF Plan
<1> HIDE DEF Load
<1>6. Plan(t)' /\ \E d, s : Load(d, s)
  BY <1>2, <1>3, <1>4, <1>5 DEF ToLoad
<1> QED BY <1>2, <1>6 DEF Load

LEMMA CopyStep ==
  ASSUME Shape, NEW t \in Threads, CopyPtr(t)
  PROVE  /\ Plan(t)' /\ pc[t] = "idle"
         /\ \E d \in Mine(t), s \in Mine(t) :
              /\ Next1(t) = <<"copy", d, s>> /\ d # s /\ (ptr[d] # Nil \/ ptr[s] # Nil)
              /\ ptr' = [ptr EXCEPT ![d] = ptr[s]]
              /\ todo'[t] = <<>>
<1>1. /\ ptr \in [Handles -> Pools \cup {Nil}] /\ Mine(t) \subseteq Handles /\ Locals(t) \subseteq Mine(t)
      /\ Result(t) \in Mine(t) \ Locals(t) /\ UNCHANGED pc
  BY HandlesApart DEF Shape, TypeOK, CopyPtr, Mine
<1>2. /\ pc[t] = "idle" /\ todo'[t] = Tail(todo[t]) /\ Op(t) = "copy"
      /\ ptr' = [ptr EXCEPT ![Next1(t)[2]] = ptr[Next1(t)[3]]] /\ ToStore(t, todo[t])
  BY PlanOfOp DEF Shape, CopyPtr, Done
<1>3. PICK d \in Locals(t), s \in Locals(t) :
        Copied(t, d, s) /\ (ptr[d] # Nil \/ ptr[s] # Nil) /\ todo[t] = << <<"copy", d, s>> >>
  BY <1>2 DEF ToStore, Op, Next1
<1>4. Next1(t) = <<"copy", d, s>> /\ todo'[t] = <<>>
  BY <1>2, <1>3 DEF Next1
<1>5. ptr' = [ptr EXCEPT ![d] = ptr[s]]
  BY <1>2, <1>4
<1>6. NoResult(t)'
  BY <1>1, <1>3, <1>5 DEF Copied, NoResult
<1>7. Plan(t)'
  BY <1>1, <1>2, <1>4, <1>6 DEF Plan
<1> QED BY <1>1, <1>2, <1>3, <1>4, <1>5, <1>7 DEF Copied

LEMMA NullStep ==
  ASSUME Shape, NEW t \in Threads, StorePtr(t), Op(t) = "null"
  PROVE  /\ Plan(t)'
         /\ \E h \in Handles :
              /\ Next1(t) = <<"null", h>> /\ ptr' = [ptr EXCEPT ![h] = Nil]
              /\ \/ h \in Mine(t) /\ pc[t] = "idle"
                 \/ h = Instance /\ pc[t] = "idle" /\ t = Main /\ exiting /\ todo'[t] = <<>>
                 \/ h = Instance /\ Making(t) /\ Making(t)'
              /\ \/ Op(t)' = "none"
                 \/ Op(t)' = "load" /\ Next1(t)'[3] \in Mine(t)
                 \/ Op(t)' = "raw"
<1>1. /\ ptr \in [Handles -> Pools \cup {Nil}] /\ Mine(t) \subseteq Handles /\ Locals(t) \subseteq Mine(t)
      /\ Result(t) \in Mine(t) \ Locals(t) /\ Instance \in Handles \ Mine(t) /\ <<t, "p">> \in Locals(t)
      /\ UNCHANGED <<pc, exiting, made, mishaps>>
  BY HandlesApart DEF Shape, TypeOK, StorePtr, Mine
<1>2. /\ todo'[t] = Tail(todo[t]) /\ ptr' = [ptr EXCEPT ![Next1(t)[2]] = Nil]
      /\ (pc[t] = "idle" /\ ToNull(t, todo[t])) \/ (pc[t] = "hold" /\ ToUnlock(todo[t]))
  BY PlanOfOp DEF Shape, StorePtr, Done
<1> DEFINE Ends(h) == \/ h \in Mine(t) /\ pc[t] = "idle"
                      \/ h = Instance /\ pc[t] = "idle" /\ t = Main /\ exiting /\ todo'[t] = <<>>
                      \/ h = Instance /\ Making(t) /\ Making(t)'
           Goes == \/ Op(t)' = "none"
                   \/ Op(t)' = "load" /\ Next1(t)'[3] \in Mine(t)
                   \/ Op(t)' = "raw"
           Null(h) == h \in Handles /\ Next1(t) = <<"null", h>> /\ ptr' = [ptr EXCEPT ![h] = Nil] /\ Ends(h) /\ Goes
<1>3. ASSUME NEW h \in Mine(t) \cup {Instance}, todo[t] = << <<"null", h>> >>, pc[t] = "idle",
             h # Result(t) => NoResult(t), h = Instance => t = Main /\ exiting
      PROVE  Plan(t)' /\ Null(h)
  <2>1. todo'[t] = <<>> /\ Next1(t) = <<"null", h>> /\ Op(t)' = "none"
    BY <1>2, <1>3 DEF Next1, Op
  <2>2. ptr' = [ptr EXCEPT ![h] = Nil]
    BY <1>2, <2>1
  <2>3. NoResult(t)'
    BY <1>1, <1>3, <2>2 DEF NoResult
  <2>4. Plan(t)'
    BY <1>1, <1>3, <2>1, <2>3 DEF Plan
  <2> QED BY <1>1, <1>3, <2>1, <2>2, <2>4
<1>4. ASSUME NEW d \in Locals(t), NEW s \in Locals(t), Copied(t, d, s), pc[t] = "idle",
             todo[t] = << <<"null", d>>, <<"load", d, s>>, <<"inc", d>>, <<"dec", s>>, <<"null", s>> >>
      PROVE  Plan(t)' /\ Null(d)
  <2>1. /\ todo'[t] = << <<"load", d, s>>, <<"inc", d>>, <<"dec", s>>, <<"null", s>> >>
        /\ Next1(t) = <<"null", d>>
    BY <1>2, <1>4 DEF Next1
  <2>2. Op(t)' = "load" /\ Next1(t)'[3] = s
    BY <2>1 DEF Op, Next1
  <2>3. ptr' = [ptr EXCEPT ![d] = Nil]
    BY <1>2, <2>1
  <2>4. ptr'[d] = Nil /\ Copied(t, d, s)'
    BY <1>1, <1>4, <2>3 DEF Copied, NoResult
  <2>5. ToLoad(t, todo[t])'
    BY <1>1, <2>1, <2>4 DEF ToLoad
  <2>6. InSptr(t, todo[t])'
    BY <2>5 DEF InSptr
  <2>7. Plan(t)'
    BY <1>1, <1>4, <2>6 DEF Plan
  <2> QED BY <1>1, <1>4, <2>1, <2>2, <2>3, <2>7
<1>5. ASSUME NEW d \in Locals(t), NEW o \in made, Given(t, d, o), pc[t] = "idle",
             todo[t] = << <<"null", d>>, <<"raw", d, o>>, <<"inc", d>> >>
      PROVE  Plan(t)' /\ Null(d)
  <2>1. todo'[t] = << <<"raw", d, o>>, <<"inc", d>> >> /\ Next1(t) = <<"null", d>>
    BY <1>2, <1>5 DEF Next1
  <2>2. Op(t)' = "raw"
    BY <2>1 DEF Op, Next1
  <2>3. ptr' = [ptr EXCEPT ![d] = Nil]
    BY <1>2, <2>1
  <2>4. ptr'[d] = Nil /\ Given(t, d, o)'
    BY <1>1, <1>5, <2>3 DEF Given, NoResult
  <2>5. ToStore(t, todo[t])'
    BY <1>1, <2>1, <2>4 DEF ToStore
  <2>6. InSptr(t, todo[t])'
    BY <2>5 DEF InSptr
  <2>7. Plan(t)'
    BY <1>1, <1>5, <2>6 DEF Plan
  <2> QED BY <1>1, <1>5, <2>1, <2>2, <2>3, <2>7
<1>6. ASSUME pc[t] = "hold", ToUnlock(todo[t])
      PROVE  Plan(t)' /\ Null(Instance)
  <2>1. PICK o \in made : todo[t] = << <<"null", Instance>>, <<"raw", Instance, o>>, <<"inc", Instance>>, <<"unlock">> >>
    BY <1>6 DEF ToUnlock, Op, Next1
  <2>2. /\ todo'[t] = << <<"raw", Instance, o>>, <<"inc", Instance>>, <<"unlock">> >>
        /\ Next1(t) = <<"null", Instance>>
    BY <1>2, <2>1 DEF Next1
  <2>3. Op(t)' = "raw" /\ Making(t) /\ Making(t)'
    BY <1>1, <1>6, <2>2 DEF Op, Next1, Making
  <2>4. ptr' = [ptr EXCEPT ![Instance] = Nil]
    BY <1>2, <2>2
  <2>5. ToUnlock(todo[t])'
    BY <1>1, <2>2 DEF ToUnlock
  <2>6. Plan(t)'
    <3>1. NoResult(t) /\ ptr[<<t, "p">>] = Nil
      BY <1>6 DEF Shape, Plan
    <3>2. NoResult(t)' /\ ptr'[<<t, "p">>] = Nil
      BY <1>1, <2>4, <3>1 DEF NoResult
    <3> QED BY <1>1, <1>6, <2>5, <3>2 DEF Plan
  <2> QED BY <1>1, <1>6, <2>2, <2>3, <2>4, <2>6
<1> HIDE DEF Null
<1>7. Plan(t)' /\ \E h : Null(h)
  <2>1. CASE pc[t] = "idle" /\ ToNull(t, todo[t])
    BY <2>1, <1>1, <1>3, <1>4, <1>5 DEF ToNull, Copied
  <2> QED BY <1>2, <1>6, <2>1
<1> QED BY <1>7 DEF Null

LEMMA RawStep ==
  ASSUME Shape, NEW t \in Threads, StorePtr(t), Op(t) = "raw"
  PROVE  /\ Plan(t)'
         /\ \E d \in Handles, o \in made :
              /\ Next1(t) = <<"raw", d, o>> /\ ptr' = [ptr EXCEPT ![d] = o]
              /\ Op(t)' = "inc" /\ Next1(t)' = <<"inc", d>>
              /\ \/ d \in Locals(t) /\ pc[t] = "idle" /\ Given(t, d, o) /\ ptr[d] = Nil
                 \/ d = Instance /\ Making(t) /\ Window(t)'
<1>1. /\ ptr \in [Handles -> Pools \cup {Nil}] /\ Mine(t) \subseteq Handles /\ Locals(t) \subseteq Mine(t)
      /\ Result(t) \in Mine(t) \ Locals(t) /\ Instance \in Handles \ Mine(t) /\ <<t, "p">> \in Locals(t)
      /\ UNCHANGED <<pc, exiting, made, mishaps>>
  BY HandlesApart DEF Shape, TypeOK, StorePtr, Mine
<1>2. /\ todo'[t] = Tail(todo[t]) /\ ptr' = [ptr EXCEPT ![Next1(t)[2]] = Next1(t)[3]]
      /\ (pc[t] = "idle" /\ ToStore(t, todo[t])) \/ (pc[t] = "hold" /\ ToUnlock(todo[t]))
  BY PlanOfOp DEF Shape, StorePtr, Done
<1>3. CASE pc[t] = "idle" /\ ToStore(t, todo[t])
  <2>1. PICK d \in Locals(t), o \in made : Given(t, d, o) /\ ptr[d] = Nil /\ todo[t] = << <<"raw", d, o>>, <<"inc", d>> >>
    BY <1>3 DEF ToStore, Op, Next1
  <2>2. todo'[t] = << <<"inc", d>> >> /\ Next1(t) = <<"raw", d, o>>
    BY <1>2, <2>1 DEF Next1
  <2>3. Op(t)' = "inc" /\ Next1(t)' = <<"inc", d>>
    BY <2>2 DEF Op, Next1
  <2>4. ptr' = [ptr EXCEPT ![d] = o]
    BY <1>2, <2>2
  <2>5. Given(t, d, ptr[d])'
    BY <1>1, <2>1, <2>4 DEF Given, NoResult
  <2>6. ToIncrease(t, todo[t])'
    BY <2>2, <2>5 DEF ToIncrease
  <2>7. InSptr(t, todo[t])'
    BY <2>6 DEF InSptr
  <2>8. Plan(t)'
    BY <1>1, <1>3, <2>7 DEF Plan
  <2> QED BY <1>1, <1>3, <2>1, <2>2, <2>3, <2>4, <2>8
<1>4. CASE pc[t] = "hold" /\ ToUnlock(todo[t])
  <2>1. PICK o \in made : todo[t] = << <<"raw", Instance, o>>, <<"inc", Instance>>, <<"unlock">> >>
    BY <1>4 DEF ToUnlock, Op, Next1
  <2>2. todo'[t] = << <<"inc", Instance>>, <<"unlock">> >> /\ Next1(t) = <<"raw", Instance, o>>
    BY <1>2, <2>1 DEF Next1
  <2>3. Op(t)' = "inc" /\ Next1(t)' = <<"inc", Instance>> /\ Making(t) /\ Window(t)'
    BY <1>1, <1>4, <2>2 DEF Op, Next1, Making, Window
  <2>4. ptr' = [ptr EXCEPT ![Instance] = o]
    BY <1>2, <2>2
  <2>5. ToUnlock(todo[t])'
    BY <2>2 DEF ToUnlock
  <2>6. Plan(t)'
    <3>1. NoResult(t) /\ ptr[<<t, "p">>] = Nil
      BY <1>4 DEF Shape, Plan
    <3>2. NoResult(t)' /\ ptr'[<<t, "p">>] = Nil
      BY <1>1, <2>4, <3>1 DEF NoResult
    <3> QED BY <1>1, <1>4, <2>5, <3>2 DEF Plan
  <2> QED BY <1>1, <2>2, <2>3, <2>4, <2>6
<1> QED BY <1>2, <1>3, <1>4

LEMMA IncreaseStep ==
  ASSUME Shape, NEW t \in Threads, Increase(t)
  PROVE  /\ Plan(t)'
         /\ \E h \in Handles :
              /\ Next1(t) = <<"inc", h>>
              /\ \/ h \in Mine(t) /\ pc[t] = "idle"
                 \/ h = Instance /\ Window(t) /\ Op(t)' = "unlock"
              /\ \/ Op(t)' \in {"none", "dec", "unlock"}
                 \/ Op(t)' = "load" /\ Next1(t)'[3] \in Mine(t)
<1>1. /\ ptr \in [Handles -> Pools \cup {Nil}] /\ Mine(t) \subseteq Handles /\ Locals(t) \subseteq Mine(t)
      /\ Result(t) \in Mine(t) \ Locals(t) /\ Instance \in Handles \ Mine(t) /\ <<t, "p">> \in Locals(t)
      /\ UNCHANGED <<ptr, pc, exiting, made>>
  BY HandlesApart DEF Shape, TypeOK, Increase, Mine
<1>2. /\ todo'[t] = Tail(todo[t]) /\ Op(t) = "inc"
      /\ (pc[t] = "idle" /\ ToIncrease(t, todo[t])) \/ (pc[t] = "hold" /\ ToUnlock(todo[t]))
  BY PlanOfOp DEF Shape, Increase, Done
<1>3. ASSUME NEW d \in Locals(t), NEW s \in Mine(t), Copied(t, d, s), pc[t] = "idle",
             todo[t] = << <<"inc", d>>, <<"dec", s>>, <<"null", s>> >>
      PROVE  Plan(t)' /\ Next1(t) = <<"inc", d>> /\ Op(t)' = "dec"
  <2>1. todo'[t] = RefCountDecrease(s) /\ Next1(t) = <<"inc", d>> /\ (s # Result(t) => NoResult(t)')
    BY <1>1, <1>2, <1>3 DEF Next1, RefCountDecrease, Copied, NoResult
  <2>2. ToDecrease(t, todo[t])'
    BY <2>1 DEF ToDecrease, RefCountDecrease
  <2>3. InSptr(t, todo[t])'
    BY <2>2 DEF InSptr
  <2> QED BY <1>1, <1>3, <2>1, <2>3 DEF Plan, RefCountDecrease, Op, Next1
<1>4. ASSUME NEW d \in Locals(t), NoResult(t), pc[t] = "idle", todo[t] = << <<"inc", d>> >>
      PROVE  Plan(t)' /\ Next1(t) = <<"inc", d>> /\ Op(t)' = "none"
  <2>1. todo'[t] = <<>> /\ Next1(t) = <<"inc", d>> /\ Op(t)' = "none"
    BY <1>2, <1>4 DEF Next1, Op
  <2> QED BY <1>1, <1>4, <2>1 DEF Plan, NoResult
<1>5. ASSUME NEW p \in Locals(t), NEW r \in {Result(t)}, ptr[p] = Nil, pc[t] = "idle",
             todo[t] = << <<"inc", r>>, <<"load", p, r>>, <<"inc", p>>, <<"dec", r>>, <<"null", r>> >>
      PROVE  Plan(t)' /\ Next1(t) = <<"inc", r>> /\ Op(t)' = "load" /\ Next1(t)'[3] \in Mine(t)
  <2>1. /\ todo'[t] = << <<"load", p, r>>, <<"inc", p>>, <<"dec", r>>, <<"null", r>> >>
        /\ Next1(t) = <<"inc", r>>
    BY <1>2, <1>5 DEF Next1
  <2>2. Op(t)' = "load" /\ Next1(t)'[3] = r
    BY <2>1 DEF Op, Next1
  <2>3. Copied(t, p, r)' /\ ptr'[p] = Nil
    BY <1>1, <1>5 DEF Copied
  <2>4. ToLoad(t, todo[t])'
    BY <1>1, <1>5, <2>1, <2>3 DEF ToLoad
  <2>5. InSptr(t, todo[t])'
    BY <2>4 DEF InSptr
  <2>6. Plan(t)'
    BY <1>1, <1>5, <2>5 DEF Plan
  <2> QED BY <1>1, <1>5, <2>1, <2>2, <2>6
<1>6. ASSUME pc[t] = "hold", ToUnlock(todo[t])
      PROVE  Plan(t)' /\ Next1(t) = <<"inc", Instance>> /\ Op(t)' = "unlock" /\ Window(t)
  <2>1. todo[t] = << <<"inc", Instance>>, <<"unlock">> >>
    BY <1>2, <1>6 DEF ToUnlock, Op, Next1
  <2>2. todo'[t] = << <<"unlock">> >> /\ Next1(t) = <<"inc", Instance>>
    BY <1>2, <2>1 DEF Next1
  <2>3. Op(t)' = "unlock" /\ Window(t)
    <3>1. Op(t)' = "unlock"
      BY <2>2 DEF Op, Next1
    <3> QED BY <1>2, <1>6, <3>1 DEF Window
  <2>4. ToUnlock(todo[t])'
    BY <2>2 DEF ToUnlock
  <2>5. NoResult(t) /\ ptr[<<t, "p">>] = Nil
    BY <1>6 DEF Shape, Plan
  <2>6. Plan(t)'
    BY <1>1, <1>6, <2>4, <2>5 DEF Plan, NoResult
  <2> QED BY <2>2, <2>3, <2>6
<1>7. CASE pc[t] = "idle" /\ ToIncrease(t, todo[t])
  BY <1>1, <1>3, <1>4, <1>5, <1>7 DEF ToIncrease, Given
<1>8. CASE pc[t] = "hold" /\ ToUnlock(todo[t])
  BY <1>1, <1>6, <1>8
<1> QED BY <1>2, <1>7, <1>8

LEMMA Prepend ==
  ASSUME NEW t \in Threads, NEW q, ToNull(t, q), NEW x, NEW z, z = <<x>> \o q
  PROVE  z # <<>> /\ Head(z) = x /\ Tail(z) = q /\ Len(z) > 1 /\ z[2] = Head(q)
<1>1. \E S : q \in Seq(S) /\ Len(q) >= 1
  <2>1. ASSUME NEW a, q = <<a>> PROVE q \in Seq({a}) /\ Len(q) >= 1
    BY <2>1
  <2>2. ASSUME NEW a, NEW b, NEW c, q = <<a, b, c>> PROVE q \in Seq({a, b, c}) /\ Len(q) >= 1
    BY <2>2
  <2>3. ASSUME NEW a, NEW b, NEW c, NEW d, NEW e, q = <<a, b, c, d, e>>
        PROVE  q \in Seq({a, b, c, d, e}) /\ Len(q) >= 1
    BY <2>3
  <2> QED BY <2>1, <2>2, <2>3 DEF ToNull
<1>2. PICK S : q \in Seq(S) /\ Len(q) >= 1
  BY <1>1
<1>3. <<x>> \in Seq(S \cup {x}) /\ q \in Seq(S \cup {x}) /\ Len(<<x>>) = 1 /\ <<x>>[1] = x
  BY <1>2
<1>4. z \in Seq(S \cup {x}) /\ Len(z) = Len(q) + 1 /\ z[1] = x /\ \A i \in 1 .. Len(q) : z[i + 1] = q[i]
  BY <1>2, <1>3, ConcatProperties
<1>5. z # <<>> /\ Head(z) = x /\ z[2] = Head(q)
  BY <1>2, <1>4
<1>6. Tail(z) = q
  BY <1>2, <1>3, <1>4, SeqEqual, HeadTailProperties
<1> QED BY <1>2, <1>4, <1>5, <1>6

LEMMA TailOfDecrease ==
  ASSUME Shape, NEW t \in Threads, NEW z, ToDecrease(t, z)
  PROVE  \E h \in Handles : /\ Head(z) = <<"dec", h>> /\ ToNull(t, Tail(z)) /\ Tail(z) # <<>>
                            /\ Head(Tail(z)) = <<"null", h>>
                            /\ h \in Mine(t) \/ (h = Instance /\ t = Main /\ exiting)
<1>1. /\ Mine(t) \subseteq Handles /\ Locals(t) \subseteq Mine(t) /\ Instance \in Handles
  BY HandlesApart DEF Mine
<1>2. ASSUME NEW h \in Mine(t) \cup {Instance}, z = RefCountDecrease(h),
             h # Result(t) => NoResult(t), h = Instance => t = Main /\ exiting
      PROVE  /\ Head(z) = <<"dec", h>> /\ ToNull(t, Tail(z)) /\ Tail(z) # <<>>
             /\ Head(Tail(z)) = <<"null", h>>
  <2>1. Head(z) = <<"dec", h>> /\ Tail(z) = << <<"null", h>> >>
    BY <1>2 DEF RefCountDecrease
  <2>2. ToNull(t, Tail(z))
    <3>1. CASE h \in Mine(t)
      BY <1>2, <2>1, <3>1 DEF ToNull
    <3>2. CASE h = Instance
      BY <1>2, <2>1, <3>2, HandlesApart DEF ToNull, Mine
    <3> QED BY <3>1, <3>2
  <2>3. PICK c : c = Tail(z)
    OBVIOUS
  <2>4. c = << <<"null", h>> >>
    BY <2>1, <2>3
  <2>5. c # <<>> /\ Head(c) = <<"null", h>>
    BY <2>4
  <2> QED BY <2>1, <2>2, <2>3, <2>5
<1>3. ASSUME NEW d \in Locals(t), NEW s \in Locals(t), Copied(t, d, s),
             z = << <<"dec", d>>, <<"null", d>>, <<"load", d, s>>, <<"inc", d>>, <<"dec", s>>, <<"null", s>> >>
      PROVE  /\ Head(z) = <<"dec", d>> /\ ToNull(t, Tail(z)) /\ Tail(z) # <<>>
             /\ Head(Tail(z)) = <<"null", d>>
  BY <1>3 DEF ToNull
<1>4. ASSUME NEW d \in Locals(t), NEW o \in made, Given(t, d, o),
             z = << <<"dec", d>>, <<"null", d>>, <<"raw", d, o>>, <<"inc", d>> >>
      PROVE  /\ Head(z) = <<"dec", d>> /\ ToNull(t, Tail(z)) /\ Tail(z) # <<>>
             /\ Head(Tail(z)) = <<"null", d>>
  BY <1>4 DEF ToNull
<1> QED BY <1>1, <1>2, <1>3, <1>4, HandlesApart DEF ToDecrease

LEMMA DecreaseStep ==
  ASSUME Shape, NEW t \in Threads, Decrease(t), Making(t) => ptr[Instance] = Nil
  PROVE  /\ Plan(t)'
         /\ \E h \in Handles :
              /\ Next1(t) = <<"dec", h>>
              /\ \/ h \in Mine(t) /\ pc[t] = "idle"
                 \/ h = Instance /\ pc[t] = "idle" /\ t = Main /\ exiting
                 \/ h = Instance /\ ptr[h] = Nil /\ Making(t) /\ Making(t)'
              /\ \/ ptr[h] \notin alive /\ todo'[t] # <<>> /\ Next1(t)' = <<"null", h>>
                 \/ /\ ptr[h] \in alive
                    /\ Next1(t)' = IF count[ptr[h]] = 1 THEN <<"delete", ptr[h]>> ELSE <<"log", ptr[h]>>
                    /\ todo'[t] # <<>> /\ Len(todo'[t]) > 1 /\ todo'[t][2] = <<"null", h>>
<1>1. /\ ptr \in [Handles -> Pools \cup {Nil}] /\ Instance \in Handles
      /\ UNCHANGED <<ptr, pc, exiting, made>> /\ mishaps \subseteq mishaps'
      /\ alive \subseteq made /\ Nil \notin alive
  BY HandlesApart, ThreadsAssumption DEF Shape, TypeOK, Decrease
<1> DEFINE q == Tail(todo[t])
<1>2. /\ Op(t) = "dec"
      /\ (pc[t] = "idle" /\ ToDecrease(t, todo[t])) \/ (pc[t] = "hold" /\ ToUnlock(todo[t]))
  BY PlanOfOp DEF Shape, Decrease
<1>5. ASSUME NEW h, Next1(t) = <<"dec", h>>
      PROVE  todo'[t] = IF ptr[h] \in alive
                          THEN (IF count[ptr[h]] = 1 THEN << <<"delete", ptr[h]>> >>
                                ELSE << <<"log", ptr[h]>> >>) \o q
                          ELSE q
  <2>1. DOMAIN todo = Threads
    BY DEF Shape
  <2>2. CASE ptr[h] \in alive
    BY <1>5, <2>1, <2>2 DEF Decrease
  <2>3. CASE ptr[h] \notin alive
    BY <1>5, <2>1, <2>3 DEF Decrease, Done
  <2> QED BY <2>2, <2>3
<1>3. CASE pc[t] = "idle" /\ ToDecrease(t, todo[t])
  <2>1. PICK h \in Handles : /\ Next1(t) = <<"dec", h>> /\ ToNull(t, q) /\ q # <<>> /\ Head(q) = <<"null", h>>
                             /\ h \in Mine(t) \/ (h = Instance /\ t = Main /\ exiting)
    BY <1>3, TailOfDecrease DEF Next1
  <2>2. ToNull(t, q) => \E c : c = q /\ ToNull(t, c) /\ ToNull(t, c)'
    BY <1>1, SameHandles DEF Mine
  <2>3. PICK c : c = q /\ ToNull(t, c) /\ ToNull(t, c)'
    BY <2>1, <2>2
  <2>4. CASE ptr[h] \notin alive
    <3>1. todo'[t] = c
      BY <1>5, <2>1, <2>3, <2>4
    <3>2. ToNull(t, todo[t])'
      BY <2>3, <3>1
    <3>3. Plan(t)'
      BY <1>1, <1>3, <3>2 DEF Plan, InSptr
    <3>4. todo'[t] # <<>> /\ Next1(t)' = <<"null", h>>
      BY <2>1, <2>3, <3>1 DEF Next1
    <3> QED BY <1>3, <2>1, <2>4, <3>3, <3>4
  <2>5. CASE ptr[h] \in alive
    <3> DEFINE x == IF count[ptr[h]] = 1 THEN <<"delete", ptr[h]>> ELSE <<"log", ptr[h]>>
    <3>1. todo'[t] = <<x>> \o c
      BY <1>5, <2>1, <2>3, <2>5
    <3>2. /\ todo'[t] # <<>> /\ Next1(t)' = x /\ Tail(todo'[t]) = c
          /\ Len(todo'[t]) > 1 /\ todo'[t][2] = <<"null", h>>
      BY <2>1, <2>3, <3>1, Prepend DEF Next1
    <3>3. x \in {<<"delete", ptr[h]>>, <<"log", ptr[h]>>} /\ ptr[h] \in made
      BY <1>1, <2>5
    <3>4. ToNull(t, Tail(todo[t]))'
      BY <2>3, <3>2
    <3>5. AfterDecrease(t)'
      BY <1>1, <3>2, <3>3, <3>4 DEF AfterDecrease
    <3>6. Plan(t)'
      BY <1>1, <1>3, <3>5 DEF Plan
    <3> QED BY <1>3, <2>1, <2>5, <3>2, <3>6
  <2> QED BY <2>4, <2>5
<1>4. CASE pc[t] = "hold" /\ ToUnlock(todo[t])
  <2>1. PICK o \in made : todo[t] = << <<"dec", Instance>>, <<"null", Instance>>, <<"raw", Instance, o>>,
                                       <<"inc", Instance>>, <<"unlock">> >>
    BY <1>2, <1>4 DEF ToUnlock, Op, Next1
  <2>2. /\ q = << <<"null", Instance>>, <<"raw", Instance, o>>, <<"inc", Instance>>, <<"unlock">> >>
        /\ Next1(t) = <<"dec", Instance>> /\ Making(t)
    BY <1>2, <1>4, <2>1 DEF Next1, Making
  <2>3. /\ todo'[t] = << <<"null", Instance>>, <<"raw", Instance, o>>, <<"inc", Instance>>, <<"unlock">> >>
        /\ ptr[Instance] = Nil
    BY <1>1, <1>5, <2>2
  <2>4. todo'[t] # <<>> /\ Next1(t)' = <<"null", Instance>> /\ Op(t)' = "null"
    BY <2>3 DEF Op, Next1
  <2>5. ToUnlock(todo[t])'
    BY <1>1, <2>2, <2>3 DEF ToUnlock
  <2>6. NoResult(t) /\ ptr[<<t, "p">>] = Nil
    BY <1>4 DEF Shape, Plan
  <2>7. Plan(t)' /\ Making(t)'
    BY <1>1, <1>4, <2>4, <2>5, <2>6 DEF Plan, NoResult, Making
  <2> QED BY <1>1, <2>2, <2>3, <2>4, <2>7
<1> QED BY <1>2, <1>3, <1>4

(* The count has been logged, or the pool deleted.                          *)
LEMMA AfterStep ==
  ASSUME Shape, NEW t \in Threads, Op(t) \in {"log", "delete"}, todo'[t] = Tail(todo[t]),
         UNCHANGED <<ptr, pc, exiting, made>>, mishaps \subseteq mishaps'
  PROVE  /\ Plan(t)' /\ pc[t] = "idle"
         /\ \E o \in made : Next1(t) \in {<<"delete", o>>, <<"log", o>>}
         /\ todo'[t] # <<>> /\ Op(t)' = "null" /\ Next1(t)' = todo[t][2] /\ Len(todo[t]) > 1
<1>1. pc[t] = "idle" /\ AfterDecrease(t)
  BY PlanOfOp DEF Shape
<1>2. PICK c : c = Tail(todo[t]) /\ ToNull(t, c) /\ ToNull(t, c)'
  BY <1>1, SameHandles DEF AfterDecrease
<1>3. ToNull(t, todo[t])'
  BY <1>2
<1>4. Plan(t)'
  BY <1>1, <1>3 DEF Plan, InSptr
<1>5. todo'[t] # <<>> /\ Op(t)' = "null" /\ Next1(t)' = Head(Tail(todo[t]))
  BY <1>2, HeadOps DEF Op, Next1
<1>6. todo[t] # <<>> /\ \E o \in made : Next1(t) \in {<<"delete", o>>, <<"log", o>>}
  BY <1>1 DEF AfterDecrease
<1> QED BY <1>1, <1>4, <1>5, <1>6

-----------------------------------------------------------------------------
(* The operations of sptr, access by access.                                *)
LEMMA Concatenations ==
  /\ \A a, b : <<a>> \o <<b>> = <<a, b>>
  /\ \A a, b, c : <<a, b>> \o <<c>> = <<a, b, c>>
  /\ \A a, b, c, d : <<a, b, c>> \o <<d>> = <<a, b, c, d>>
  /\ \A a, b, c, d : <<a, b>> \o <<c, d>> = <<a, b, c, d>>
  /\ \A a, b, c, d, e : <<a, b, c, d>> \o <<e>> = <<a, b, c, d, e>>
  /\ \A a, b, c, d, e, f : <<a, b>> \o <<c, d, e, f>> = <<a, b, c, d, e, f>>
<1>1. ASSUME NEW a, NEW b
      PROVE  <<a>> \o <<b>> = <<a, b>>
  <2> DEFINE S == {a, b}
  <2>1. PICK x, y, z : x = <<a>> /\ y = <<b>> /\ z = x \o y
    OBVIOUS
  <2>2. x \in Seq(S) /\ y \in Seq(S) /\ Len(x) = 1 /\ Len(y) = 1
    BY <2>1
  <2>3. z \in Seq(S) /\ Len(z) = 2 /\ \A i \in 1 .. 2 : z[i] = IF i <= 1 THEN x[i] ELSE y[i - 1]
    BY <2>1, <2>2, ConcatProperties
  <2>4. z[1] = a /\ z[2] = b
    BY <2>1, <2>3
  <2>5. z = <<a, b>>
    BY <2>3, <2>4
  <2> QED BY <2>1, <2>5
<1>2. ASSUME NEW a, NEW b, NEW c
      PROVE  <<a, b>> \o <<c>> = <<a, b, c>>
  <2> DEFINE S == {a, b, c}
  <2>1. PICK x, y, z : x = <<a, b>> /\ y = <<c>> /\ z = x \o y
    OBVIOUS
  <2>2. x \in Seq(S) /\ y \in Seq(S) /\ Len(x) = 2 /\ Len(y) = 1
    BY <2>1
  <2>3. z \in Seq(S) /\ Len(z) = 3 /\ \A i \in 1 .. 3 : z[i] = IF i <= 2 THEN x[i] ELSE y[i - 2]
    BY <2>1, <2>2, ConcatProperties
  <2>4. z[1] = a /\ z[2] = b /\ z[3] = c
    BY <2>1, <2>3
  <2>5. z = <<a, b, c>>
    BY <2>3, <2>4
  <2> QED BY <2>1, <2>5
<1>3. ASSUME NEW a, NEW b, NEW c, NEW d
      PROVE  <<a, b, c>> \o <<d>> = <<a, b, c, d>>
  <2> DEFINE S == {a, b, c, d}
  <2>1. PICK x, y, z : x = <<a, b, c>> /\ y = <<d>> /\ z = x \o y
    OBVIOUS
  <2>2. x \in Seq(S) /\ y \in Seq(S) /\ Len(x) = 3 /\ Len(y) = 1
    BY <2>1
  <2>3. z \in Seq(S) /\ Len(z) = 4 /\ \A i \in 1 .. 4 : z[i] = IF i <= 3 THEN x[i] ELSE y[i - 3]
    BY <2>1, <2>2, ConcatProperties
  <2>4. z[1] = a /\ z[2] = b /\ z[3] = c /\ z[4] = d
    BY <2>1, <2>3
  <2>5. z = <<a, b, c, d>>
    BY <2>3, <2>4
  <2> QED BY <2>1, <2>5
<1>4. ASSUME NEW a, NEW b, NEW c, NEW d
      PROVE  <<a, b>> \o <<c, d>> = <<a, b, c, d>>
  <2> DEFINE S == {a, b, c, d}
  <2>1. PICK x, y, z : x = <<a, b>> /\ y = <<c, d>> /\ z = x \o y
    OBVIOUS
  <2>2. x \in Seq(S) /\ y \in Seq(S) /\ Len(x) = 2 /\ Len(y) = 2
    BY <2>1
  <2>3. z \in Seq(S) /\ Len(z) = 4 /\ \A i \in 1 .. 4 : z[i] = IF i <= 2 THEN x[i] ELSE y[i - 2]
    BY <2>1, <2>2, ConcatProperties
  <2>4. z[1] = a /\ z[2] = b /\ z[3] = c /\ z[4] = d
    BY <2>1, <2>3
  <2>5. z = <<a, b, c, d>>
    BY <2>3, <2>4
  <2> QED BY <2>1, <2>5
<1>5. ASSUME NEW a, NEW b, NEW c, NEW d, NEW e
      PROVE  <<a, b, c, d>> \o <<e>> = <<a, b, c, d, e>>
  <2> DEFINE S == {a, b, c, d, e}
  <2>1. PICK x, y, z : x = <<a, b, c, d>> /\ y = <<e>> /\ z = x \o y
    OBVIOUS
  <2>2. x \in Seq(S) /\ y \in Seq(S) /\ Len(x) = 4 /\ Len(y) = 1
    BY <2>1
  <2>3. z \in Seq(S) /\ Len(z) = 5 /\ \A i \in 1 .. 5 : z[i] = IF i <= 4 THEN x[i] ELSE y[i - 4]
    BY <2>1, <2>2, ConcatProperties
  <2>4. z[1] = a /\ z[2] = b /\ z[3] = c /\ z[4] = d /\ z[5] = e
    BY <2>1, <2>3
  <2>5. z = <<a, b, c, d, e>>
    BY <2>3, <2>4
  <2> QED BY <2>1, <2>5
<1>6. ASSUME NEW a, NEW b, NEW c, NEW d, NEW e, NEW f
      PROVE  <<a, b>> \o <<c, d, e, f>> = <<a, b, c, d, e, f>>
  <2> DEFINE S == {a, b, c, d, e, f}
  <2>1. PICK x, y, z : x = <<a, b>> /\ y = <<c, d, e, f>> /\ z = x \o y
    OBVIOUS
  <2>2. x \in Seq(S) /\ y \in Seq(S) /\ Len(x) = 2 /\ Len(y) = 4
    BY <2>1
  <2>3. z \in Seq(S) /\ Len(z) = 6 /\ \A i \in 1 .. 6 : z[i] = IF i <= 2 THEN x[i] ELSE y[i - 2]
    BY <2>1, <2>2, ConcatProperties
  <2>4. z[1] = a /\ z[2] = b /\ z[3] = c /\ z[4] = d /\ z[5] = e /\ z[6] = f
    BY <2>1, <2>3
  <2>5. z = <<a, b, c, d, e, f>>
    BY <2>3, <2>4
  <2> QED BY <2>1, <2>5
<1> QED BY <1>1, <1>2, <1>3, <1>4, <1>5, <1>6

LEMMA Operations ==
  /\ \A d, s : CopyConstruct(d, s) = << <<"load", d, s>>, <<"inc", d>> >>
  /\ \A d, s : MoveConstruct(d, s) = << <<"load", d, s>>, <<"inc", d>>, <<"dec", s>>, <<"null", s>> >>
  /\ \A d, o : AssignRaw(d, o) = << <<"dec", d>>, <<"null", d>>, <<"raw", d, o>>, <<"inc", d>> >>
  /\ \A d, s : MoveAssign(d, s) = << <<"dec", d>>, <<"null", d>>, <<"load", d, s>>, <<"inc", d>>,
                                     <<"dec", s>>, <<"null", s>> >>
  /\ \A t : ReturnInstance(t) =
       << <<"load", Result(t), Instance>>, <<"inc", Result(t)>>, <<"load", <<t, "p">>, Result(t)>>,
          <<"inc", <<t, "p">> >>, <<"dec", Result(t)>>, <<"null", Result(t)>> >>
<1>1. \A d, s : CopyConstruct(d, s) = << <<"load", d, s>>, <<"inc", d>> >>
  BY Concatenations DEF CopyConstruct, RefCountIncrease
<1>2. ASSUME NEW d, NEW s
      PROVE  MoveConstruct(d, s) = << <<"load", d, s>>, <<"inc", d>>, <<"dec", s>>, <<"null", s>> >>
  <2>1. PICK a, b, c, e : a = <<"load", d, s>> /\ b = <<"inc", d>> /\ c = <<"dec", s>> /\ e = <<"null", s>>
    OBVIOUS
  <2>2. CopyConstruct(d, s) = <<a, b>> /\ RefCountDecrease(s) = <<c, e>>
    BY <1>1, <2>1 DEF RefCountDecrease
  <2>3. MoveConstruct(d, s) = <<a, b, c, e>>
    BY <2>2, Concatenations DEF MoveConstruct
  <2> QED BY <2>1, <2>3
<1>3. ASSUME NEW d, NEW o
      PROVE  AssignRaw(d, o) = << <<"dec", d>>, <<"null", d>>, <<"raw", d, o>>, <<"inc", d>> >>
  <2>1. PICK a, b, c, e : a = <<"dec", d>> /\ b = <<"null", d>> /\ c = <<"raw", d, o>> /\ e = <<"inc", d>>
    OBVIOUS
  <2>2. PICK y : y = << <<"raw", d, o>> >>
    OBVIOUS
  <2>3. RefCountDecrease(d) = <<a, b>> /\ RefCountIncrease(d) = <<e>> /\ y = <<c>>
    BY <2>1, <2>2 DEF RefCountDecrease, RefCountIncrease
  <2>4. AssignRaw(d, o) = RefCountDecrease(d) \o y \o RefCountIncrease(d)
    BY <2>2 DEF AssignRaw
  <2>5. PICK x, z : x = RefCountDecrease(d) /\ z = x \o y
    OBVIOUS
  <2>6. z = <<a, b, c>>
    BY <2>3, <2>5, Concatenations
  <2>7. AssignRaw(d, o) = z \o RefCountIncrease(d)
    BY <2>4, <2>5
  <2>8. AssignRaw(d, o) = <<a, b, c, e>>
    BY <2>3, <2>6, <2>7, Concatenations
  <2> QED BY <2>1, <2>8
<1>4. ASSUME NEW d, NEW s
      PROVE  MoveAssign(d, s) = << <<"dec", d>>, <<"null", d>>, <<"load", d, s>>, <<"inc", d>>,
                                   <<"dec", s>>, <<"null", s>> >>
  <2>1. PICK a, b, c, e, f, g : /\ a = <<"dec", d>> /\ b = <<"null", d>> /\ c = <<"load", d, s>>
                                /\ e = <<"inc", d>> /\ f = <<"dec", s>> /\ g = <<"null", s>>
    OBVIOUS
  <2>2. RefCountDecrease(d) = <<a, b>> /\ MoveConstruct(d, s) = <<c, e, f, g>>
    BY <1>2, <2>1 DEF RefCountDecrease
  <2>3. MoveAssign(d, s) = <<a, b, c, e, f, g>>
    BY <2>2, Concatenations DEF MoveAssign
  <2> QED BY <2>1, <2>3
<1>5. ASSUME NEW t
      PROVE  ReturnInstance(t) =
               << <<"load", Result(t), Instance>>, <<"inc", Result(t)>>, <<"load", <<t, "p">>, Result(t)>>,
                  <<"inc", <<t, "p">> >>, <<"dec", Result(t)>>, <<"null", Result(t)>> >>
  <2>1. PICK r, p : r = Result(t) /\ p = <<t, "p">>
    OBVIOUS
  <2>2. PICK a, b, c, e, f, g : /\ a = <<"load", r, Instance>> /\ b = <<"inc", r>> /\ c = <<"load", p, r>>
                                /\ e = <<"inc", p>> /\ f = <<"dec", r>> /\ g = <<"null", r>>
    OBVIOUS
  <2>3. CopyConstruct(r, Instance) = <<a, b>> /\ MoveConstruct(p, r) = <<c, e, f, g>>
    BY <1>1, <1>2, <2>2
  <2>4. ReturnInstance(t) = CopyConstruct(r, Instance) \o MoveConstruct(p, r)
    BY <2>1, Zenon DEF ReturnInstance
  <2>5. ReturnInstance(t) = <<a, b, c, e, f, g>>
    BY <2>3, <2>4, Concatenations
  <2> QED BY <2>1, <2>2, <2>5
<1> QED BY <1>1, <1>2, <1>3, <1>4, <1>5

(* An operation that a thread begins is a plan.                             *)
LEMMA PlanOfCall ==
  ASSUME Shape, NEW t \in Threads, \A h \in Handles : ptr[h] \in made \cup {Nil},
         Drop(t) \/ Construct(t) \/ Assign(t) \/ AssignPointer(t)
  PROVE  /\ Plan(t)' /\ Op(t)' \in {"dec", "load", "copy"} /\ (Op(t)' = "load" => Next1(t)'[3] \in Mine(t))
         /\ Ready(t) /\ \E h \in Locals(t) : ptr[h] # Nil
<1>1. /\ Mine(t) \subseteq Handles /\ Locals(t) \subseteq Mine(t)
      /\ Result(t) \in Mine(t) \ Locals(t)
      /\ UNCHANGED <<ptr, pc, made, exiting>> /\ mishaps \subseteq mishaps'
  BY HandlesApart DEF Drop, Construct, Assign, AssignPointer, Start, Mine
<1>2. pc[t] = "idle" /\ todo[t] = <<>> /\ NoResult(t) /\ NoResult(t)'
  <2>1. Ready(t)
    BY DEF Drop, Construct, Assign, AssignPointer
  <2>2. \A u \in Threads : pc[u] = "idle" /\ todo[u] = <<>> => NoResult(u)
    BY HeadOps DEF Shape, Plan, InSptr, AfterDecrease
  <2> QED BY <1>1, <2>1, <2>2 DEF Ready, NoResult
<1>3. \A q, m : Start(t, q, m) => todo'[t] = q
  BY DEF Start, Shape
<1>4. ASSUME NEW q, todo'[t] = q, InSptr(t, q)' PROVE Plan(t)'
  BY <1>1, <1>2, <1>4 DEF Plan
<1>5. ASSUME NEW h \in Locals(t), ptr[h] # Nil, Start(t, RefCountDecrease(h), {})
      PROVE  Plan(t)' /\ Op(t)' = "dec"
  <2>1. todo'[t] = << <<"dec", h>>, <<"null", h>> >>
    BY <1>3, <1>5 DEF RefCountDecrease
  <2>2. ToDecrease(t, todo[t])'
    BY <1>1, <1>2, <2>1 DEF ToDecrease, RefCountDecrease
  <2>3. InSptr(t, todo[t])'
    BY <2>2 DEF InSptr
  <2>4. Plan(t)'
    BY <1>1, <1>2, <2>3 DEF Plan
  <2> QED BY <2>1, <2>4 DEF Op, Next1
<1>6. ASSUME NEW d \in Locals(t), NEW s \in Locals(t), ptr[d] = Nil, ptr[s] # Nil,
             Start(t, CopyConstruct(d, s), {}) \/ Start(t, MoveConstruct(d, s), {})
      PROVE  Plan(t)' /\ Op(t)' = "load" /\ Next1(t)'[3] \in Mine(t)
  <2>1. Copied(t, d, s)' /\ ptr'[d] = Nil
    BY <1>1, <1>2, <1>6 DEF Copied
  <2>2. CASE Start(t, CopyConstruct(d, s), {})
    <3>1. todo'[t] = << <<"load", d, s>>, <<"inc", d>> >>
      BY <1>3, <2>2, Operations
    <3>2. ToLoad(t, todo[t])'
      BY <2>1, <3>1 DEF ToLoad
    <3>3. InSptr(t, todo[t])'
      BY <3>2 DEF InSptr
    <3>4. Plan(t)'
      BY <1>1, <1>2, <3>3 DEF Plan
    <3> QED BY <1>1, <3>1, <3>4 DEF Op, Next1
  <2>3. CASE Start(t, MoveConstruct(d, s), {})
    <3>1. todo'[t] = << <<"load", d, s>>, <<"inc", d>>, <<"dec", s>>, <<"null", s>> >>
      BY <1>3, <2>3, Operations
    <3>2. ToLoad(t, todo[t])'
      BY <1>1, <2>1, <3>1 DEF ToLoad
    <3>3. InSptr(t, todo[t])'
      BY <3>2 DEF InSptr
    <3>4. Plan(t)'
      BY <1>1, <1>2, <3>3 DEF Plan
    <3> QED BY <1>1, <3>1, <3>4 DEF Op, Next1
  <2> QED BY <1>6, <2>2, <2>3
<1>7. ASSUME NEW d \in Locals(t), NEW s \in Locals(t), d # s, ptr[d] # Nil \/ ptr[s] # Nil,
             Start(t, MoveAssign(d, s), {})
      PROVE  Plan(t)' /\ Op(t)' = "dec"
  <2>1. todo'[t] = << <<"dec", d>>, <<"null", d>>, <<"load", d, s>>, <<"inc", d>>, <<"dec", s>>, <<"null", s>> >>
    BY <1>3, <1>7, Operations
  <2>2. Copied(t, d, s)'
    BY <1>1, <1>2, <1>7 DEF Copied
  <2>3. ToDecrease(t, todo[t])'
    BY <1>1, <2>1, <2>2 DEF ToDecrease
  <2>4. InSptr(t, todo[t])'
    BY <2>3 DEF InSptr
  <2>5. Plan(t)'
    BY <1>1, <1>2, <2>4 DEF Plan
  <2> QED BY <2>1, <2>5 DEF Op, Next1
<1>8. ASSUME NEW d \in Locals(t), NEW s \in Locals(t), d # s, ptr[d] # Nil \/ ptr[s] # Nil,
             Start(t, CopyAssign(d, s), {})
      PROVE  Plan(t)' /\ Op(t)' = "copy"
  <2>1. todo'[t] = << <<"copy", d, s>> >>
    BY <1>3, <1>8 DEF CopyAssign
  <2>2. Copied(t, d, s)' /\ (ptr'[d] # Nil \/ ptr'[s] # Nil)
    BY <1>1, <1>2, <1>8 DEF Copied
  <2>3. ToStore(t, todo[t])'
    BY <2>1, <2>2 DEF ToStore
  <2>4. InSptr(t, todo[t])'
    BY <2>3 DEF InSptr
  <2>5. Plan(t)'
    BY <1>1, <1>2, <2>4 DEF Plan
  <2> QED BY <2>1, <2>5 DEF Op, Next1
<1>9. ASSUME NEW d \in Locals(t), NEW s \in Locals(t), ptr[s] # Nil,
             Start(t, AssignRaw(d, ptr[s]), IF d = s THEN {"self_assigned"} ELSE {})
      PROVE  Plan(t)' /\ Op(t)' = "dec"
  <2>1. PICK o : o = ptr[s]
    OBVIOUS
  <2>2. todo'[t] = << <<"dec", d>>, <<"null", d>>, <<"raw", d, o>>, <<"inc", d>> >>
    BY <1>3, <1>9, <2>1, Operations
  <2>3. Given(t, d, o)' /\ o \in made'
    <3>1. d = s => "self_assigned" \in mishaps'
      BY <1>9 DEF Start
    <3> QED BY <1>1, <1>2, <1>9, <2>1, <3>1 DEF Given
  <2>4. ToDecrease(t, todo[t])'
    BY <1>1, <2>2, <2>3 DEF ToDecrease
  <2>5. InSptr(t, todo[t])'
    BY <2>4 DEF InSptr
  <2>6. Plan(t)'
    BY <1>1, <1>2, <2>5 DEF Plan
  <2> QED BY <2>2, <2>6 DEF Op, Next1
<1>10. Ready(t) /\ \E h \in Locals(t) : ptr[h] # Nil
  BY DEF Drop, Construct, Assign, AssignPointer
<1> QED BY <1>5, <1>6, <1>7, <1>8, <1>9, <1>10 DEF Drop, Construct, Assign, AssignPointer

(* The mutex is given back, or the first test has found a pool.             *)
LEMMA PlanOfReturn ==
  ASSUME Shape, NEW t \in Threads, todo'[t] = ReturnInstance(t), pc'[t] = "idle", UNCHANGED ptr,
         ptr[<<t, "p">>] = Nil, NoResult(t)
  PROVE  Plan(t)' /\ Op(t)' = "load" /\ Next1(t)'[3] = Instance
<1>1. PICK p, r : p = <<t, "p">> /\ r = Result(t)
  OBVIOUS
<1>2. todo'[t] = << <<"load", r, Instance>>, <<"inc", r>>, <<"load", p, r>>, <<"inc", p>>,
                    <<"dec", r>>, <<"null", r>> >>
  BY <1>1, Operations
<1>3. p \in Locals(t) /\ r \in {Result(t)} /\ ptr'[p] = Nil /\ ptr'[r] = Nil
  BY <1>1, HandlesApart DEF NoResult
<1>4. ToLoad(t, todo[t])'
  BY <1>2, <1>3 DEF ToLoad
<1>5. InSptr(t, todo[t])'
  BY <1>4 DEF InSptr
<1>6. Plan(t)'
  BY <1>5 DEF Plan
<1> QED BY <1>2, <1>6 DEF Op, Next1

LEMMA PlanOfNewPool ==
  ASSUME Shape, NEW t \in Threads, NEW o \in made', pc'[t] = "hold", UNCHANGED ptr,
         todo'[t] = AssignRaw(Instance, o) \o << <<"unlock">> >>,
         ptr[<<t, "p">>] = Nil, NoResult(t)
  PROVE  Plan(t)' /\ Making(t)' /\ Op(t)' = "dec"
<1>1. PICK a, b, c, d, e : /\ a = <<"dec", Instance>> /\ b = <<"null", Instance>>
                           /\ c = <<"raw", Instance, o>> /\ d = <<"inc", Instance>> /\ e = <<"unlock">>
  OBVIOUS
<1>2. PICK x, y : x = AssignRaw(Instance, o) /\ y = << <<"unlock">> >>
  OBVIOUS
<1>3. x = <<a, b, c, d>> /\ y = <<e>>
  BY <1>1, <1>2, Operations
<1>4. todo'[t] = <<a, b, c, d, e>>
  BY <1>2, <1>3, Concatenations
<1>5. todo'[t] = << <<"dec", Instance>>, <<"null", Instance>>, <<"raw", Instance, o>>,
                    <<"inc", Instance>>, <<"unlock">> >>
  BY <1>1, <1>4
<1>6. ToUnlock(todo[t])'
  BY <1>5 DEF ToUnlock
<1>7. Plan(t)'
  BY <1>6 DEF Plan, NoResult
<1> QED BY <1>5, <1>7 DEF Making, Op, Next1


-----------------------------------------------------------------------------
(* What a step of one thread leaves to the others.                          *)

LEMMA OthersSame ==
  ASSUME NEW u \in Threads, UNCHANGED <<todo[u], pc[u]>>
  PROVE  /\ Op(u)' = Op(u) /\ Next1(u)' = Next1(u) /\ Making(u)' = Making(u)
         /\ Window(u)' = Window(u) /\ Getting(u)' = Getting(u)
<1>1. Op(u)' = Op(u) /\ Next1(u)' = Next1(u)
  BY DEF Op, Next1
<1> QED BY <1>1 DEF Making, Window, Getting

LEMMA Frame ==
  ASSUME Shape, NEW t \in Threads, Step(t) \/ Call(t) \/ (t = Main /\ Exit)
  PROVE  /\ \A u \in Threads \ {t} : UNCHANGED <<todo[u], pc[u]>>
         /\ made \subseteq made' /\ mishaps \subseteq mishaps' /\ (exiting => exiting')
         /\ DOMAIN todo' = Threads /\ count' \in [Pools -> Int] /\ skew' \in [Pools -> Int]
         /\ alive' \subseteq made' /\ made' \subseteq Pools /\ mutex' \in Threads \cup {NoThread}
         /\ pc' \in [Threads -> {"idle", "check", "lock", "recheck", "hold"}]
<1> USE DEF Shape, TypeOK, Done
<1>1. CASE LoadPtr(t) \/ StorePtr(t) \/ LogCount(t) \/ Unlock(t)
  BY <1>1 DEF LoadPtr, StorePtr, LogCount, Unlock
<1>2. CASE CopyPtr(t)
  BY <1>2 DEF CopyPtr
<1>3. CASE Increase(t)
  BY <1>3 DEF Increase
<1>4. CASE Decrease(t)
  BY <1>4 DEF Decrease
<1>5. CASE DeletePool(t)
  BY <1>5 DEF DeletePool
<1>6. CASE GetInstance(t) \/ Check(t) \/ Lock(t)
  BY <1>6 DEF GetInstance, Check, Lock
<1>7. CASE Recheck(t)
  BY <1>7 DEF Recheck, NewPool
<1>8. CASE Drop(t) \/ Construct(t) \/ Assign(t) \/ AssignPointer(t)
  BY <1>8 DEF Drop, Construct, Assign, AssignPointer, Start
<1>9. CASE t = Main /\ Exit
  BY <1>9 DEF Exit
<1> QED BY <1>1, <1>2, <1>3, <1>4, <1>5, <1>6, <1>7, <1>8, <1>9 DEF Step, Call, Access

(* Every plan is kept when the acting thread keeps its own and changes only  *)
(* a handle of its own or instance_.                                        *)
LEMMA ShapeKept ==
  ASSUME Shape, NEW t \in Threads, Step(t) \/ Call(t) \/ (t = Main /\ Exit), Plan(t)',
         NEW h \in Mine(t) \cup {Instance}, NEW v \in Pools \cup {Nil},
         ptr' = [ptr EXCEPT ![h] = v] \/ UNCHANGED ptr
  PROVE  Shape'
<1>1. ptr' \in [Handles -> Pools \cup {Nil}]
  BY HandlesApart DEF Shape, TypeOK
<1>2. TypeOK' /\ DOMAIN todo' = Threads /\ count' \in [Pools -> Int] /\ skew' \in [Pools -> Int]
  BY <1>1, Frame DEF TypeOK
<1>3. ASSUME NEW u \in Threads, u # t
      PROVE  Plan(u)'
  <2>1. h \notin Mine(u) /\ Mine(u) \subseteq Handles
    BY <1>3, HandlesApart
  <2>2. \A g \in Mine(u) : ptr'[g] = ptr[g]
    BY <2>1 DEF Shape, TypeOK
  <2>3. UNCHANGED <<todo[u], pc[u]>> /\ made \subseteq made' /\ mishaps \subseteq mishaps' /\ (exiting => exiting')
    BY <1>3, Frame
  <2>4. Plan(u)
    BY DEF Shape
  <2> QED BY <2>2, <2>3, <2>4, OthersPlan
<1> QED BY <1>2, <1>3 DEF Shape

-----------------------------------------------------------------------------
(* One pool.                                                                *)

(* Before the first pool is stored in instance_ nobody owns or uses one.     *)
Early == made = {} \/ \E t \in Threads : Making(t)
MutexHeld == \A t \in Threads : mutex = t <=> pc[t] \in {"recheck", "hold"}
OneMade == \A o1, o2 \in made : o1 = o2
PtrsMade == \A h \in Handles : ptr[h] \in made \cup {Nil}
EarlyQuiet ==
  Early => /\ made = alive /\ \A h \in Handles : ptr[h] = Nil
           /\ \A t \in Threads : \/ todo[t] = <<>> \/ pc[t] = "hold"
                                 \/ todo[t] \in {<< <<"null", Instance>> >>, RefCountDecrease(Instance)}

(* Once made, the pool stays in instance_ until the static destructors run.  *)
Published == made # {} => ptr[Instance] # Nil \/ exiting \/ \E t \in Threads : Making(t)

(* Who is to copy instance_, or has stored it, finds a pool in it.           *)
Loadable ==
  \A t \in Threads :
    (Op(t) = "load" /\ Next1(t)[3] = Instance) \/ (pc[t] = "hold" /\ Op(t) \in {"inc", "unlock"})
      => ptr[Instance] # Nil
ExitAlone == exiting => "late" \in mishaps \/ \A t \in Threads : ~Getting(t)

Single ==
  /\ MutexHeld /\ OneMade /\ PtrsMade /\ EarlyQuiet
  /\ Published /\ Loadable /\ ExitAlone

LEMMA EarlyOps ==
  ASSUME Shape, Single, Early, NEW t \in Threads
  PROVE  /\ Op(t) \in {"none", "null", "dec", "raw"} /\ (Op(t) = "raw" => Making(t))
         /\ pc[t] = "hold" => Making(t)
         /\ \A h \in Handles : ptr[h] = Nil
<1>1. \A h \in Handles : ptr[h] = Nil
  BY DEF Single, EarlyQuiet
<1>2. CASE pc[t] = "hold"
  <2>1. Op(t) \in {"unlock", "inc", "raw", "null", "dec"}
    BY <1>2, PlanOfOp DEF Shape
  <2>2. Op(t) \notin {"unlock", "inc"}
    BY <1>1, <1>2, HandlesApart DEF Single, Loadable
  <2> QED BY <1>1, <1>2, <2>1, <2>2 DEF Making
<1>3. CASE pc[t] # "hold"
  <2>1. todo[t] = <<>> \/ todo[t] \in {<< <<"null", Instance>> >>, RefCountDecrease(Instance)}
    BY <1>3 DEF Single, EarlyQuiet
  <2>2. Op(t) \in {"none", "null", "dec"}
    BY <2>1 DEF Op, Next1, RefCountDecrease
  <2> QED BY <1>1, <1>3, <2>2
<1> QED BY <1>2, <1>3

(* No other thread is inside GetInstance when one holds the mutex or main()  *)
(* has returned.                                                            *)
LEMMA AloneUnlessLate ==
  ASSUME Shape, Single, "late" \notin mishaps, NEW t \in Threads, NEW u \in Threads
  PROVE  /\ exiting => ~Getting(t)
         /\ pc[t] \in {"recheck", "hold"} /\ pc[u] \in {"recheck", "hold"} => t = u
BY DEF Single, MutexHeld, ExitAlone

LEMMA Alone ==
  ASSUME Shape, Single, Followed, NEW t \in Threads, NEW u \in Threads
  PROVE  /\ exiting => ~Getting(t)
         /\ pc[t] \in {"recheck", "hold"} /\ pc[u] \in {"recheck", "hold"} => t = u
BY AloneUnlessLate DEF Followed

LEMMA SingleKept ==
  ASSUME Shape, Single, Followed, NEW t \in Threads,
         \A u \in Threads \ {t} : UNCHANGED <<todo[u], pc[u]>>,
         UNCHANGED <<made, mutex, exiting, pc>>, mishaps \subseteq mishaps',
         \A h \in Handles : ptr'[h] \in made \cup {Nil},
         Making(t)' => Making(t),
         Early' => /\ alive' = alive /\ \A h \in Handles : ptr'[h] = Nil
                   /\ pc[t] = "hold" \/ todo'[t] = <<>> \/ todo'[t] = << <<"null", Instance>> >>,
         ptr'[Instance] = Nil => ptr[Instance] = Nil \/ exiting,
         Making(t) => Making(t)' \/ ptr'[Instance] # Nil,
         (Op(t)' = "load" /\ Next1(t)'[3] = Instance) \/ (pc[t] = "hold" /\ Op(t)' \in {"inc", "unlock"})
           => ptr'[Instance] # Nil,
         Getting(t)' => Getting(t)
  PROVE  Single'
<1>0. \A u \in Threads \ {t} : /\ Op(u)' = Op(u) /\ Next1(u)' = Next1(u) /\ Making(u)' = Making(u)
                               /\ Getting(u)' = Getting(u)
  BY OthersSame
<1>1. MutexHeld' /\ OneMade' /\ PtrsMade'
  BY DEF Single, MutexHeld, OneMade, PtrsMade
<1>2. EarlyQuiet'
  <2>1. SUFFICES ASSUME Early'
                 PROVE  EarlyQuiet'
    BY DEF EarlyQuiet
  <2>2. Early
    BY <1>0, <2>1 DEF Early
  <2>3. ASSUME NEW u \in Threads
        PROVE  (\/ todo[u] = <<>> \/ pc[u] = "hold"
                \/ todo[u] \in {<< <<"null", Instance>> >>, RefCountDecrease(Instance)})'
    <3>1. CASE u = t
      BY <2>1, <3>1
    <3>2. CASE u # t
      BY <2>2, <3>2 DEF Single, EarlyQuiet, RefCountDecrease
    <3> QED BY <3>1, <3>2
  <2>4. made' = alive' /\ \A h \in Handles : ptr'[h] = Nil
    BY <2>1, <2>2 DEF Single, EarlyQuiet
  <2> QED BY <2>3, <2>4 DEF EarlyQuiet
<1>3. Published'
  <2>1. CASE \E u \in Threads : Making(u)
    BY <1>0, <2>1 DEF Published
  <2>2. CASE ~\E u \in Threads : Making(u)
    BY <2>2 DEF Single, Published
  <2> QED BY <2>1, <2>2
<1>4. Loadable'
  <2>1. ASSUME NEW u \in Threads, u # t,
               (Op(u) = "load" /\ Next1(u)[3] = Instance) \/ (pc[u] = "hold" /\ Op(u) \in {"inc", "unlock"})
        PROVE  ptr'[Instance] # Nil
    <3>1. Getting(u) /\ ptr[Instance] # Nil
      BY <2>1 DEF Getting, Single, Loadable
    <3> QED BY <3>1, Alone
  <2> QED BY <1>0, <2>1 DEF Loadable
<1>5. ExitAlone'
  BY <1>0 DEF Single, ExitAlone
<1> QED BY <1>1, <1>2, <1>3, <1>4, <1>5 DEF Single

LEMMA LoadSingle ==
  ASSUME Shape, Single, Followed, NEW t \in Threads, LoadPtr(t)
  PROVE  Shape' /\ Single'
<1>1. PICK d \in Mine(t), s \in Handles :
        /\ Next1(t) = <<"load", d, s>> /\ d # s /\ (s \in Mine(t) \/ (s = Instance /\ d = Result(t)))
        /\ ptr' = [ptr EXCEPT ![d] = ptr[s]]
        /\ Op(t)' = "inc" /\ Next1(t)' = <<"inc", d>> /\ (d = Result(t) => s = Instance)
  BY LoadStep
<1>2. /\ UNCHANGED <<alive, made, mutex, exiting, pc>> /\ mishaps \subseteq mishaps' /\ Op(t) = "load"
      /\ pc[t] = "idle" /\ Plan(t)' /\ DOMAIN ptr = Handles /\ Step(t) /\ d \in Handles /\ d # Instance
  <2>1. UNCHANGED <<alive, made, mutex, exiting, pc>> /\ mishaps \subseteq mishaps' /\ Op(t) = "load"
    BY DEF LoadPtr
  <2>2. d \in Handles /\ d # Instance
    BY HandlesApart
  <2> QED BY <2>1, <2>2, LoadStep DEF Step, Access, Shape, TypeOK
<1>3. \A u \in Threads \ {t} : UNCHANGED <<todo[u], pc[u]>>
  BY <1>2, Frame
<1>4. Shape'
  <2>1. ptr[s] \in Pools \cup {Nil}
    BY DEF Shape, TypeOK
  <2> QED BY <1>1, <1>2, <2>1, ShapeKept
<1>5. \A h \in Handles : ptr'[h] \in made \cup {Nil}
  BY <1>1, <1>2 DEF Single, PtrsMade
<1>6. ~Early' /\ ~Making(t)' /\ ~Making(t)
  <2>1. ~Making(t) /\ ~Making(t)' /\ ~Early
    BY <1>1, <1>2, EarlyOps DEF Making
  <2>2. \A u \in Threads \ {t} : Making(u)' = Making(u)
    BY <1>3, OthersSame
  <2> QED BY <1>2, <2>1, <2>2 DEF Early
<1>7. Getting(t)' => Getting(t)
  BY <1>1, <1>2 DEF Getting
<1>8. ptr'[Instance] = ptr[Instance] /\ Op(t)' # "load" /\ pc[t] # "hold"
  BY <1>1, <1>2, HandlesApart
<1> QED BY <1>2, <1>3, <1>4, <1>5, <1>6, <1>7, <1>8, SingleKept

LEMMA CopySingle ==
  ASSUME Shape, Single, Followed, NEW t \in Threads, CopyPtr(t)
  PROVE  Shape' /\ Single'
<1>1. PICK d \in Mine(t), s \in Mine(t) :
        /\ Next1(t) = <<"copy", d, s>> /\ d # s /\ (ptr[d] # Nil \/ ptr[s] # Nil)
        /\ ptr' = [ptr EXCEPT ![d] = ptr[s]] /\ todo'[t] = <<>>
  BY CopyStep
<1>2. /\ UNCHANGED <<alive, made, mutex, exiting, pc>> /\ mishaps \subseteq mishaps' /\ Op(t) = "copy"
      /\ pc[t] = "idle" /\ Plan(t)' /\ DOMAIN ptr = Handles /\ Step(t) /\ d # Instance
      /\ d \in Handles /\ s \in Handles
  <2>1. UNCHANGED <<alive, made, mutex, exiting, pc>> /\ mishaps \subseteq mishaps' /\ Op(t) = "copy"
    BY DEF CopyPtr
  <2>2. d \in Handles /\ d # Instance /\ s \in Handles
    BY HandlesApart
  <2> QED BY <2>1, <2>2, CopyStep DEF Step, Access, Shape, TypeOK
<1>3. \A u \in Threads \ {t} : UNCHANGED <<todo[u], pc[u]>>
  BY <1>2, Frame
<1>4. Shape'
  <2>1. ptr[s] \in Pools \cup {Nil}
    BY <1>2 DEF Shape, TypeOK
  <2> QED BY <1>1, <1>2, <2>1, ShapeKept
<1>5. \A h \in Handles : ptr'[h] \in made \cup {Nil}
  BY <1>1, <1>2 DEF Single, PtrsMade
<1>6. Op(t)' = "none"
  BY <1>1 DEF Op
<1>7. ~Early' /\ ~Making(t)' /\ ~Making(t)
  <2>1. ~Making(t) /\ ~Making(t)' /\ ~Early
    BY <1>2, <1>6, EarlyOps DEF Making
  <2>2. \A u \in Threads \ {t} : Making(u)' = Making(u)
    BY <1>3, OthersSame
  <2> QED BY <1>2, <2>1, <2>2 DEF Early
<1>8. Getting(t)' => Getting(t)
  BY <1>2, <1>6 DEF Getting
<1>9. ptr'[Instance] = ptr[Instance]
  BY <1>1, <1>2, HandlesApart
<1> QED BY <1>2, <1>3, <1>4, <1>5, <1>6, <1>7, <1>8, <1>9, SingleKept

LEMMA NullSingle ==
  ASSUME Shape, Single, Followed, NEW t \in Threads, StorePtr(t), Op(t) = "null"
  PROVE  Shape' /\ Single'
<1>1. PICK h \in Handles :
        /\ Next1(t) = <<"null", h>> /\ ptr' = [ptr EXCEPT ![h] = Nil]
        /\ \/ h \in Mine(t) /\ pc[t] = "idle"
           \/ h = Instance /\ pc[t] = "idle" /\ t = Main /\ exiting /\ todo'[t] = <<>>
           \/ h = Instance /\ Making(t) /\ Making(t)'
        /\ \/ Op(t)' = "none"
           \/ Op(t)' = "load" /\ Next1(t)'[3] \in Mine(t)
           \/ Op(t)' = "raw"
  BY NullStep
<1>2. /\ UNCHANGED <<alive, made, mutex, exiting, pc>> /\ mishaps \subseteq mishaps'
      /\ Plan(t)' /\ DOMAIN ptr = Handles /\ Step(t) /\ Instance \in Handles
  BY NullStep, HandlesApart DEF Step, Access, StorePtr, Shape, TypeOK
<1>3. \A u \in Threads \ {t} : UNCHANGED <<todo[u], pc[u]>>
  BY <1>2, Frame
<1>4. Shape'
  <2>1. h \in Mine(t) \cup {Instance}
    BY <1>1
  <2> QED BY <1>1, <1>2, <2>1, ShapeKept
<1>5. \A g \in Handles : ptr'[g] \in made \cup {Nil}
  BY <1>1, <1>2 DEF Single, PtrsMade
<1>6. Making(t)' = Making(t)
  <2>1. CASE pc[t] = "hold"
    <3>1. Making(t)
      BY <2>1 DEF Making
    <3> QED BY <1>1, <2>1, <3>1
  <2>2. CASE pc[t] # "hold"
    BY <1>2, <2>2 DEF Making
  <2> QED BY <2>1, <2>2
<1>7. Early' => /\ alive' = alive /\ \A g \in Handles : ptr'[g] = Nil
                /\ pc[t] = "hold" \/ todo'[t] = <<>> \/ todo'[t] = << <<"null", Instance>> >>
  <2>1. SUFFICES ASSUME Early'
                 PROVE  /\ \A g \in Handles : ptr'[g] = Nil
                        /\ pc[t] = "hold" \/ todo'[t] = <<>>
    BY <1>2
  <2>2. \A u \in Threads \ {t} : Making(u)' = Making(u)
    BY <1>3, OthersSame
  <2>3. Early
    BY <1>2, <1>6, <2>1, <2>2 DEF Early
  <2>4. \A g \in Handles : ptr'[g] = Nil
    BY <1>1, <1>2, <2>3 DEF Single, EarlyQuiet
  <2>5. ASSUME pc[t] # "hold"
        PROVE  todo'[t] = <<>>
    <3>1. todo[t] = << <<"null", Instance>> >>
      BY <2>3, <2>5 DEF Single, EarlyQuiet, RefCountDecrease, Op, Next1
    <3>2. todo'[t] = Tail(todo[t])
      BY DEF StorePtr, Done, Shape
    <3> QED BY <3>1, <3>2
  <2> QED BY <2>4, <2>5
<1>8. ptr'[Instance] = Nil => ptr[Instance] = Nil \/ exiting
  <2>1. Making(t) => ptr[Instance] = Nil
    BY <1>2, EarlyOps DEF Early
  <2> QED BY <1>1, <1>2, <2>1, HandlesApart
<1>9. ~(Op(t)' = "load" /\ Next1(t)'[3] = Instance) /\ Op(t)' \notin {"inc", "unlock"}
  BY <1>1, HandlesApart
<1>10. Getting(t)' => Getting(t)
  BY <1>2, <1>9 DEF Getting
<1> QED BY <1>2, <1>3, <1>4, <1>5, <1>6, <1>7, <1>8, <1>9, <1>10, SingleKept

LEMMA RawSingle ==
  ASSUME Shape, Single, Followed, NEW t \in Threads, StorePtr(t), Op(t) = "raw"
  PROVE  Shape' /\ Single'
<1>1. PICK d \in Handles, o \in made :
        /\ Next1(t) = <<"raw", d, o>> /\ ptr' = [ptr EXCEPT ![d] = o]
        /\ Op(t)' = "inc" /\ Next1(t)' = <<"inc", d>>
        /\ \/ d \in Locals(t) /\ pc[t] = "idle" /\ Given(t, d, o) /\ ptr[d] = Nil
           \/ d = Instance /\ Making(t) /\ Window(t)'
  BY RawStep
<1>2. /\ UNCHANGED <<alive, made, mutex, exiting, pc>> /\ mishaps \subseteq mishaps'
      /\ Plan(t)' /\ DOMAIN ptr = Handles /\ Step(t) /\ Instance \in Handles /\ made \subseteq Pools
      /\ Nil \notin made /\ Locals(t) \subseteq Mine(t) /\ Instance \notin Mine(t) /\ Result(t) \notin Locals(t)
  BY RawStep, HandlesApart, ThreadsAssumption DEF Step, Access, StorePtr, Shape, TypeOK, Mine
<1>3. \A u \in Threads \ {t} : UNCHANGED <<todo[u], pc[u]>>
  BY <1>2, Frame
<1>4. Shape'
  <2>1. d \in Mine(t) \cup {Instance} /\ o \in Pools \cup {Nil}
    BY <1>1, <1>2
  <2> QED BY <1>1, <1>2, <2>1, ShapeKept
<1>5. \A g \in Handles : ptr'[g] \in made \cup {Nil}
  BY <1>1, <1>2 DEF Single, PtrsMade
<1>6. ~Making(t)' /\ ~Early'
  <2>1. ~Making(t)'
    BY <1>1 DEF Making
  <2>2. \A u \in Threads \ {t} : Making(u)' = Making(u)
    BY <1>3, OthersSame
  <2>3. \A u \in Threads : ~Making(u)'
    <3>1. ASSUME NEW u \in Threads, u # t, Making(u)
          PROVE  FALSE
      <4>1. Early
        BY <3>1 DEF Early
      <4>2. Making(t)
        BY <4>1, EarlyOps
      <4> QED BY <3>1, <4>2, Alone DEF Making
    <3> QED BY <2>1, <2>2, <3>1
  <2> QED BY <1>1, <1>2, <2>1, <2>3 DEF Early
<1>7. (ptr'[Instance] = Nil => ptr[Instance] = Nil) /\ (Making(t) => ptr'[Instance] # Nil)
      /\ (pc[t] = "hold" => ptr'[Instance] # Nil)
  <2>1. CASE d = Instance
    BY <1>1, <1>2, <2>1
  <2>2. CASE d # Instance
    BY <1>1, <1>2, <2>2 DEF Making
  <2> QED BY <2>1, <2>2
<1>8. Getting(t)' => Getting(t)
  BY <1>1, <1>2 DEF Getting, Making
<1> QED BY <1>1, <1>2, <1>3, <1>4, <1>5, <1>6, <1>7, <1>8, SingleKept

LEMMA IncreaseSingle ==
  ASSUME Shape, Single, Followed, NEW t \in Threads, Increase(t)
  PROVE  Shape' /\ Single'
<1>1. PICK h \in Handles :
        /\ Next1(t) = <<"inc", h>>
        /\ \/ h \in Mine(t) /\ pc[t] = "idle"
           \/ h = Instance /\ Window(t) /\ Op(t)' = "unlock"
        /\ \/ Op(t)' \in {"none", "dec", "unlock"}
           \/ Op(t)' = "load" /\ Next1(t)'[3] \in Mine(t)
  BY IncreaseStep
<1>2. /\ UNCHANGED <<ptr, alive, made, mutex, exiting, pc>> /\ Op(t) = "inc"
      /\ Plan(t)' /\ Step(t) /\ Instance \in Handles /\ Instance \notin Mine(t)
  BY IncreaseStep, HandlesApart DEF Step, Access, Increase
<1>3. (\A u \in Threads \ {t} : UNCHANGED <<todo[u], pc[u]>>) /\ mishaps \subseteq mishaps'
  BY <1>2, Frame
<1>4. Shape'
  <2>1. Nil \in Pools \cup {Nil} /\ Instance \in Mine(t) \cup {Instance}
    OBVIOUS
  <2> QED BY <1>2, <2>1, ShapeKept
<1>5. ~Early' /\ ~Making(t)' /\ ~Making(t)
  <2>1. ~Making(t) /\ ~Early
    BY <1>2, EarlyOps DEF Making
  <2>2. ~Making(t)'
    BY <1>1, <1>2 DEF Making, Window
  <2>3. \A u \in Threads \ {t} : Making(u)' = Making(u)
    BY <1>3, OthersSame
  <2> QED BY <1>2, <2>1, <2>2, <2>3 DEF Early
<1>6. (Op(t)' = "load" /\ Next1(t)'[3] = Instance) \/ (pc[t] = "hold" /\ Op(t)' \in {"inc", "unlock"})
           => ptr'[Instance] # Nil
  BY <1>1, <1>2 DEF Window, Single, Loadable
<1>7. Getting(t)' => Getting(t)
  BY <1>1, <1>2 DEF Getting
<1>8. \A g \in Handles : ptr'[g] \in made \cup {Nil}
  BY <1>2 DEF Single, PtrsMade
<1> QED BY <1>2, <1>3, <1>4, <1>5, <1>6, <1>7, <1>8, SingleKept

LEMMA DecreaseSingle ==
  ASSUME Shape, Single, Followed, NEW t \in Threads, Decrease(t)
  PROVE  Shape' /\ Single'
<1>1. Making(t) => ptr[Instance] = Nil
  BY EarlyOps, HandlesApart DEF Early
<1>2. PICK h \in Handles :
        /\ Next1(t) = <<"dec", h>>
        /\ \/ h \in Mine(t) /\ pc[t] = "idle"
           \/ h = Instance /\ pc[t] = "idle" /\ t = Main /\ exiting
           \/ h = Instance /\ ptr[h] = Nil /\ Making(t) /\ Making(t)'
        /\ \/ ptr[h] \notin alive /\ todo'[t] # <<>> /\ Next1(t)' = <<"null", h>>
           \/ /\ ptr[h] \in alive
              /\ Next1(t)' = IF count[ptr[h]] = 1 THEN <<"delete", ptr[h]>> ELSE <<"log", ptr[h]>>
              /\ todo'[t] # <<>> /\ Len(todo'[t]) > 1 /\ todo'[t][2] = <<"null", h>>
  BY <1>1, DecreaseStep
<1>3. /\ UNCHANGED <<ptr, alive, made, mutex, exiting, pc>> /\ Op(t) = "dec"
      /\ Plan(t)' /\ Step(t) /\ Instance \in Handles /\ Instance \notin Mine(t)
  BY <1>1, DecreaseStep, HandlesApart DEF Step, Access, Decrease
<1>4. (\A u \in Threads \ {t} : UNCHANGED <<todo[u], pc[u]>>) /\ mishaps \subseteq mishaps'
  BY <1>3, Frame
<1>5. Shape'
  <2>1. Nil \in Pools \cup {Nil} /\ Instance \in Mine(t) \cup {Instance}
    OBVIOUS
  <2> QED BY <1>3, <2>1, ShapeKept
<1>6. Op(t)' \in {"null", "delete", "log"}
  BY <1>2 DEF Op
<1>7. Making(t)' = Making(t)
  BY <1>2, <1>3 DEF Making
<1>8. \A u \in Threads \ {t} : Making(u)' = Making(u)
  BY <1>4, OthersSame
<1>9. ASSUME Early'
      PROVE  /\ \A g \in Handles : ptr'[g] = Nil
             /\ pc[t] = "hold" \/ todo'[t] = << <<"null", Instance>> >>
  <2>1. Early
    BY <1>3, <1>7, <1>8, <1>9 DEF Early
  <2>2. \A g \in Handles : ptr[g] = Nil
    BY <2>1, EarlyOps
  <2>3. ASSUME pc[t] # "hold"
        PROVE  todo'[t] = << <<"null", Instance>> >>
    <3>1. todo[t] = RefCountDecrease(Instance)
      BY <1>3, <2>1, <2>3 DEF Single, EarlyQuiet, Op, Next1
    <3>2. ptr[Next1(t)[2]] \notin alive
      BY <1>2, <2>2, ThreadsAssumption DEF Shape, TypeOK
    <3>3. todo' = [todo EXCEPT ![t] = Tail(@)]
      BY <3>2 DEF Decrease, Done
    <3>4. todo'[t] = Tail(todo[t])
      BY <3>3 DEF Shape
    <3> QED BY <3>1, <3>4 DEF RefCountDecrease
  <2> QED BY <1>3, <2>2, <2>3
<1>10. Getting(t)' => Getting(t)
  BY <1>3, <1>6 DEF Getting
<1>11. \A g \in Handles : ptr'[g] \in made \cup {Nil}
  BY <1>3 DEF Single, PtrsMade
<1> QED BY <1>3, <1>4, <1>5, <1>6, <1>7, <1>9, <1>10, <1>11, SingleKept

(* An access that touches no pointer and is not the last of GetInstance.     *)
LEMMA QuietSingle ==
  ASSUME Shape, Single, Followed, NEW t \in Threads, Step(t) \/ Call(t), Plan(t)',
         UNCHANGED <<ptr, made, mutex, exiting, pc>>, ~Early, pc[t] = "idle",
         Op(t)' \in {"null", "dec", "copy"} \/ (Op(t)' = "load" /\ Next1(t)'[3] \in Mine(t))
  PROVE  Shape' /\ Single'
<1>1. /\ \A u \in Threads \ {t} : UNCHANGED <<todo[u], pc[u]>> 
      /\ mishaps \subseteq mishaps'
  BY Frame
<1>2. Shape'
  <2>1. Nil \in Pools \cup {Nil} /\ Instance \in Mine(t) \cup {Instance}
    OBVIOUS
  <2> QED BY <2>1, ShapeKept
<1>3. ~Making(t)' /\ ~Making(t)
  BY DEF Making
<1>4. ~Early'
  <2>1. \A u \in Threads \ {t} : Making(u)' = Making(u)
    BY <1>1, OthersSame
  <2> QED BY <1>3, <2>1 DEF Early
<1>5. ~(Op(t)' = "load" /\ Next1(t)'[3] = Instance) /\ Op(t)' # "inc"
  BY HandlesApart
<1>6. Getting(t)' => Getting(t)
  BY <1>5 DEF Getting
<1>7. \A g \in Handles : ptr'[g] \in made \cup {Nil}
  BY DEF Single, PtrsMade
<1> QED BY <1>1, <1>2, <1>3, <1>4, <1>5, <1>6, <1>7, SingleKept

LEMMA AfterSingle ==
  ASSUME Shape, Single, Followed, NEW t \in Threads, LogCount(t) \/ (DeletePool(t) /\ todo'[t] = Tail(todo[t]))
  PROVE  Shape' /\ Single'
<1>1. /\ Op(t) \in {"log", "delete"} /\ UNCHANGED <<ptr, made, mutex, exiting, pc>> /\ mishaps \subseteq mishaps'
      /\ Step(t)
  BY DEF LogCount, DeletePool, Step, Access
<1>2. todo'[t] = Tail(todo[t])
  BY DEF LogCount, Done, Shape
<1>3. Plan(t)' /\ pc[t] = "idle" /\ Op(t)' = "null"
  BY <1>1, <1>2, AfterStep
<1>4. ~Early
  BY <1>1, EarlyOps
<1> QED BY <1>1, <1>3, <1>4, QuietSingle

LEMMA CallSingle ==
  ASSUME Shape, Single, Followed, NEW t \in Threads, Drop(t) \/ Construct(t) \/ Assign(t) \/ AssignPointer(t)
  PROVE  Shape' /\ Single'
<1>1. UNCHANGED <<ptr, made, mutex, exiting, pc>> /\ Call(t) /\ pc[t] = "idle"
  BY DEF Drop, Construct, Assign, AssignPointer, Start, Call, Ready
<1>2. /\ Plan(t)' /\ Op(t)' \in {"dec", "load", "copy"} /\ (Op(t)' = "load" => Next1(t)'[3] \in Mine(t))
      /\ \E h \in Locals(t) : ptr[h] # Nil
  BY PlanOfCall DEF Single, PtrsMade
<1>3. ~Early
  BY <1>2, HandlesApart DEF Mine, Single, EarlyQuiet
<1> QED BY <1>1, <1>2, <1>3, QuietSingle

(* A step that moves a thread through GetInstance and touches no pointer.    *)
LEMMA SingleMoved ==
  ASSUME Shape, Single, Followed, NEW t \in Threads,
         \A u \in Threads \ {t} : UNCHANGED <<todo[u], pc[u]>>,
         UNCHANGED <<ptr, made, alive>>, mishaps \subseteq mishaps', exiting => exiting',
         ~Making(t), ~Making(t)', MutexHeld', ExitAlone',
         Early => \/ todo'[t] = <<>> \/ pc'[t] = "hold"
                  \/ todo'[t] \in {<< <<"null", Instance>> >>, RefCountDecrease(Instance)},
         (Op(t)' = "load" /\ Next1(t)'[3] = Instance) \/ (pc'[t] = "hold" /\ Op(t)' \in {"inc", "unlock"})
           => ptr[Instance] # Nil
  PROVE  Single'
<1>0. \A u \in Threads \ {t} : Op(u)' = Op(u) /\ Next1(u)' = Next1(u) /\ Making(u)' = Making(u)
  BY OthersSame
<1>1. OneMade' /\ PtrsMade'
  BY DEF Single, OneMade, PtrsMade
<1>2. EarlyQuiet'
  <2>1. Early' => Early
    BY <1>0 DEF Early
  <2> QED BY <2>1 DEF Single, EarlyQuiet, RefCountDecrease
<1>3. Published'
  BY <1>0 DEF Single, Published
<1>4. Loadable'
  BY <1>0 DEF Single, Loadable
<1> QED BY <1>1, <1>2, <1>3, <1>4 DEF Single

LEMMA StuckSingle ==
  ASSUME Shape, Single, Followed, NEW t \in Threads, DeletePool(t), todo'[t] # Tail(todo[t])
  PROVE  Shape' /\ Single'
<1>1. UNCHANGED <<ptr, made, mutex, exiting, pc, alive, todo>> /\ mishaps \subseteq mishaps' /\ Step(t)
      /\ Op(t) = "delete"
  BY DEF DeletePool, Done, Shape, Step, Access
<1>2. Shape'
  <2>1. Plan(t)'
    BY <1>1, OthersPlan DEF Shape
  <2>2. Nil \in Pools \cup {Nil} /\ Instance \in Mine(t) \cup {Instance}
    OBVIOUS
  <2> QED BY <1>1, <2>1, <2>2, ShapeKept
<1>3. \A u \in Threads : /\ Op(u)' = Op(u) /\ Next1(u)' = Next1(u) /\ Making(u)' = Making(u)
                         /\ Getting(u)' = Getting(u)
  BY <1>1, OthersSame
<1>4. ~Making(t) /\ ~Making(t)' /\ ~Early
  BY <1>1, <1>3, EarlyOps DEF Making
<1>5. MutexHeld' /\ ExitAlone'
  BY <1>1, <1>3 DEF Single, MutexHeld, ExitAlone
<1>6. (Op(t)' = "load" /\ Next1(t)'[3] = Instance) \/ (pc'[t] = "hold" /\ Op(t)' \in {"inc", "unlock"})
           => ptr[Instance] # Nil
  BY <1>1, <1>3
<1> QED BY <1>1, <1>2, <1>4, <1>5, <1>6, SingleMoved

LEMMA UnlockSingle ==
  ASSUME Shape, Single, Followed, NEW t \in Threads, Unlock(t)
  PROVE  Shape' /\ Single' /\ Op(t)' = "load"
<1>1. /\ UNCHANGED <<ptr, made, alive, exiting, mishaps>> /\ Op(t) = "unlock" /\ mutex' = NoThread
      /\ Step(t) /\ pc'[t] = "idle" /\ todo'[t] = ReturnInstance(t) /\ \A u \in Threads \ {t} : UNCHANGED <<todo[u], pc[u]>>
  BY Frame DEF Unlock, Step, Access, Shape, TypeOK
<1>2. pc[t] = "hold" /\ todo[t] # <<>>
  BY <1>1, PlanOfOp DEF Shape, Op
<1>3. NoResult(t) /\ ptr[<<t, "p">>] = Nil
  BY <1>2 DEF Shape, Plan
<1>4. Plan(t)' /\ Op(t)' = "load" /\ Next1(t)'[3] = Instance
  BY <1>1, <1>3, PlanOfReturn
<1>5. Shape'
  <2>1. Nil \in Pools \cup {Nil} /\ Instance \in Mine(t) \cup {Instance}
    OBVIOUS
  <2> QED BY <1>1, <1>4, <2>1, ShapeKept
<1>6. ~Making(t) /\ ~Making(t)' /\ ~Early
  BY <1>1, EarlyOps DEF Making
<1>7. MutexHeld'
  <2>1. \A u \in Threads \ {t} : pc[u] \notin {"recheck", "hold"}
    BY <1>2, Alone
  <2> QED BY <1>1, <2>1, ThreadsAssumption DEF MutexHeld
<1>8. ExitAlone'
  <2>1. Getting(t)
    BY <1>2 DEF Getting
  <2>2. \A u \in Threads \ {t} : Getting(u)' = Getting(u)
    BY <1>1, OthersSame
  <2> QED BY <1>1, <2>1, <2>2 DEF Single, ExitAlone
<1>9. ptr[Instance] # Nil
  BY <1>1, <1>2 DEF Single, Loadable
<1> QED BY <1>1, <1>4, <1>5, <1>6, <1>7, <1>8, <1>9, SingleMoved

LEMMA GetInstanceSingle ==
  ASSUME Shape, Single, Followed, NEW t \in Threads, GetInstance(t)
  PROVE  Shape' /\ Single' /\ Op(t)' = "none"
<1>1. /\ UNCHANGED <<ptr, made, alive, exiting, mutex, todo>> /\ mishaps \subseteq mishaps' /\ Call(t)
      /\ pc'[t] = "check" /\ pc[t] = "idle" /\ todo[t] = <<>> /\ (exiting => "late" \in mishaps')
      /\ ptr[<<t, "p">>] = Nil
  BY DEF GetInstance, Call, Shape, TypeOK, Ready
<1>2. \A u \in Threads \ {t} : UNCHANGED <<todo[u], pc[u]>>
  BY <1>1, Frame
<1>3. Op(t)' = "none"
  BY <1>1 DEF Op
<1>4. NoResult(t)
  <2>1. Op(t) = "none"
    BY <1>1 DEF Op
  <2>2. ~InSptr(t, todo[t]) /\ ~AfterDecrease(t)
    BY <1>1, HeadOps DEF InSptr, AfterDecrease
  <2> QED BY <1>1, <2>2 DEF Shape, Plan
<1>5. Plan(t)'
  BY <1>1, <1>4 DEF Plan, NoResult
<1>6. Shape'
  <2>1. Nil \in Pools \cup {Nil} /\ Instance \in Mine(t) \cup {Instance}
    OBVIOUS
  <2> QED BY <1>1, <1>5, <2>1, ShapeKept
<1>7. ~Making(t) /\ ~Making(t)'
  BY <1>1 DEF Making
<1>8. MutexHeld' /\ ExitAlone'
  BY <1>1, <1>2 DEF Single, MutexHeld, ExitAlone
<1> QED BY <1>1, <1>2, <1>3, <1>6, <1>7, <1>8, SingleMoved

LEMMA CheckSingle ==
  ASSUME Shape, Single, Followed, NEW t \in Threads, Check(t)
  PROVE  Shape' /\ Single' /\ Op(t)' \in {"none", "load"} /\ todo[t] = <<>>
<1>1. /\ UNCHANGED <<ptr, made, alive, exiting, mutex, mishaps>> /\ Step(t) /\ pc[t] = "check"
      /\ \A u \in Threads \ {t} : UNCHANGED <<todo[u], pc[u]>>
      /\ \/ pc'[t] = "lock" /\ todo' = todo
         \/ ptr[Instance] # Nil /\ pc'[t] = "idle" /\ todo'[t] = ReturnInstance(t)
  BY Frame DEF Check, Step, Shape, TypeOK
<1>2. todo[t] = <<>> /\ NoResult(t) /\ ptr[<<t, "p">>] = Nil
  BY <1>1 DEF Shape, Plan
<1>3. Plan(t)' /\ \/ Op(t)' = "none"
                  \/ Op(t)' = "load" /\ ptr[Instance] # Nil
  <2>1. CASE pc'[t] = "lock" /\ todo' = todo
    <3>1. Op(t)' = "none"
      BY <1>2, <2>1 DEF Op
    <3> QED BY <1>1, <1>2, <2>1, <3>1 DEF Plan, NoResult
  <2>2. CASE ptr[Instance] # Nil /\ pc'[t] = "idle" /\ todo'[t] = ReturnInstance(t)
    BY <1>1, <1>2, <2>2, PlanOfReturn
  <2> QED BY <1>1, <2>1, <2>2
<1>4. Shape'
  <2>1. Nil \in Pools \cup {Nil} /\ Instance \in Mine(t) \cup {Instance}
    OBVIOUS
  <2> QED BY <1>1, <1>3, <2>1, ShapeKept
<1>5. ~Making(t) /\ ~Making(t)' /\ pc'[t] # "hold"
  BY <1>1 DEF Making
<1>6. MutexHeld'
  BY <1>1 DEF Single, MutexHeld
<1>7. ExitAlone'
  <2>1. Getting(t)
    BY <1>1 DEF Getting
  <2>2. \A u \in Threads \ {t} : Getting(u)' = Getting(u)
    BY <1>1, OthersSame
  <2> QED BY <1>1, <2>1, <2>2 DEF Single, ExitAlone
<1>8. Early => todo'[t] = <<>>
  BY <1>1, <1>2, EarlyOps, HandlesApart
<1> QED BY <1>1, <1>2, <1>3, <1>4, <1>5, <1>6, <1>7, <1>8, SingleMoved

LEMMA LockSingle ==
  ASSUME Shape, Single, Followed, NEW t \in Threads, Lock(t)
  PROVE  Shape' /\ Single' /\ Op(t)' = "none"
<1>1. /\ UNCHANGED <<ptr, made, alive, exiting, todo, mishaps>> /\ Step(t) /\ pc[t] = "lock" /\ pc'[t] = "recheck"
      /\ \A u \in Threads \ {t} : UNCHANGED <<todo[u], pc[u]>>
      /\ mutex = NoThread /\ mutex' = t
  BY Frame DEF Lock, Step, Shape, TypeOK
<1>2. todo[t] = <<>> /\ NoResult(t) /\ ptr[<<t, "p">>] = Nil
  BY <1>1 DEF Shape, Plan
<1>3. Plan(t)' /\ Op(t)' = "none"
  <2>1. Op(t)' = "none"
    BY <1>1, <1>2 DEF Op
  <2> QED BY <1>1, <1>2, <2>1 DEF Plan, NoResult
<1>4. Shape'
  <2>1. Nil \in Pools \cup {Nil} /\ Instance \in Mine(t) \cup {Instance}
    OBVIOUS
  <2> QED BY <1>1, <1>3, <2>1, ShapeKept
<1>5. ~Making(t) /\ ~Making(t)' /\ pc'[t] # "hold" /\ todo'[t] = <<>>
  BY <1>1, <1>2 DEF Making
<1>6. MutexHeld'
  BY <1>1, ThreadsAssumption DEF Single, MutexHeld
<1>7. ExitAlone'
  <2>1. Getting(t)
    BY <1>1 DEF Getting
  <2>2. \A u \in Threads \ {t} : Getting(u)' = Getting(u)
    BY <1>1, OthersSame
  <2> QED BY <1>1, <2>1, <2>2 DEF Single, ExitAlone
<1> QED BY <1>1, <1>3, <1>4, <1>5, <1>6, <1>7, SingleMoved

LEMMA RecheckStays ==
  ASSUME Shape, Single, Followed, NEW t \in Threads, Recheck(t), ptr[Instance] # Nil
  PROVE  Shape' /\ Single' /\ Op(t)' = "unlock" /\ UNCHANGED <<made, alive>> /\ todo[t] = <<>>
<1>1. /\ UNCHANGED <<ptr, made, alive, exiting, mutex, mishaps>> /\ Step(t) /\ pc[t] = "recheck" /\ pc'[t] = "hold"
      /\ \A u \in Threads \ {t} : UNCHANGED <<todo[u], pc[u]>>
      /\ todo'[t] = << <<"unlock">> >>
  BY Frame DEF Recheck, Step, Shape, TypeOK
<1>2. todo[t] = <<>> /\ NoResult(t) /\ ptr[<<t, "p">>] = Nil
  BY <1>1 DEF Shape, Plan
<1>3. Plan(t)' /\ Op(t)' = "unlock"
  <2>1. Op(t)' = "unlock"
    BY <1>1 DEF Op, Next1
  <2>2. ToUnlock(todo[t])'
    BY <1>1 DEF ToUnlock
  <2> QED BY <1>1, <1>2, <2>1, <2>2 DEF Plan, NoResult
<1>4. Shape'
  <2>1. Nil \in Pools \cup {Nil} /\ Instance \in Mine(t) \cup {Instance}
    OBVIOUS
  <2> QED BY <1>1, <1>3, <2>1, ShapeKept
<1>5. ~Making(t) /\ ~Making(t)'
  BY <1>1, <1>3 DEF Making
<1>6. MutexHeld'
  BY <1>1 DEF Single, MutexHeld
<1>7. ExitAlone'
  <2>1. Getting(t)
    BY <1>1 DEF Getting
  <2>2. \A u \in Threads \ {t} : Getting(u)' = Getting(u)
    BY <1>1, OthersSame
  <2> QED BY <1>1, <2>1, <2>2 DEF Single, ExitAlone
<1> QED BY <1>1, <1>2, <1>3, <1>4, <1>5, <1>6, <1>7, SingleMoved

(* A pool is made only when there has been none: a thread that finds         *)
(* instance_ null under the mutex is the first, for main() has not returned. *)
LEMMA RecheckMakes ==
  ASSUME Shape, Single, Followed, NEW t \in Threads, Recheck(t), ptr[Instance] = Nil
  PROVE  /\ Shape' /\ Single' /\ Early /\ Making(t)' /\ Op(t)' = "dec" /\ todo[t] = <<>>
         /\ made = {} /\ alive = {} /\ \E o \in Pools : made' = {o} /\ alive' = {o}
         /\ UNCHANGED <<ptr, count, skew, mishaps>>
<1>1. PICK o \in Pools \ made : NewPool(t, o)
  BY DEF Recheck
<1>2. /\ UNCHANGED <<ptr, count, skew, exiting, mutex, mishaps>> /\ Step(t) /\ pc[t] = "recheck" /\ pc'[t] = "hold"
      /\ \A u \in Threads \ {t} : UNCHANGED <<todo[u], pc[u]>>
      /\ made' = made \cup {o} /\ alive' = alive \cup {o}
      /\ todo'[t] = AssignRaw(Instance, o) \o << <<"unlock">> >>
  BY <1>1, Frame DEF Recheck, Step, Shape, TypeOK, NewPool
<1>3. todo[t] = <<>> /\ NoResult(t) /\ ptr[<<t, "p">>] = Nil
  BY <1>2 DEF Shape, Plan
<1>4. Plan(t)' /\ Making(t)' /\ Op(t)' = "dec"
  BY <1>2, <1>3, PlanOfNewPool
<1>5. Shape'
  <2>1. Nil \in Pools \cup {Nil} /\ Instance \in Mine(t) \cup {Instance}
    OBVIOUS
  <2> QED BY <1>2, <1>4, <2>1, ShapeKept
<1>6. Getting(t) /\ ~exiting /\ \A u \in Threads : ~Making(u)
  <2>1. Getting(t) /\ ~Making(t)
    BY <1>2 DEF Getting, Making
  <2> QED BY <1>2, <2>1, Alone DEF Making
<1>7. made = {} /\ alive = {} /\ Early
  BY <1>6 DEF Single, Published, EarlyQuiet, Early
<1>8. \A u \in Threads \ {t} : Op(u)' = Op(u) /\ Next1(u)' = Next1(u) /\ Getting(u)' = Getting(u)
  BY <1>2, OthersSame
<1>9. Single'
  <2>1. MutexHeld'
    BY <1>2 DEF Single, MutexHeld
  <2>2. OneMade' /\ PtrsMade'
    BY <1>2, <1>7 DEF Single, OneMade, PtrsMade
  <2>3. EarlyQuiet'
    <3>1. \A u \in Threads : (\/ todo[u] = <<>> \/ pc[u] = "hold"
                \/ todo[u] \in {<< <<"null", Instance>> >>, RefCountDecrease(Instance)})'
      BY <1>2, <1>7 DEF Single, EarlyQuiet, RefCountDecrease
    <3>2. made' = alive' /\ \A h \in Handles : ptr'[h] = Nil
      BY <1>2, <1>7 DEF Single, EarlyQuiet
    <3> QED BY <3>1, <3>2 DEF EarlyQuiet
  <2>4. Published'
    BY <1>4 DEF Published
  <2>5. Loadable'
    BY <1>2, <1>4, <1>8 DEF Single, Loadable
  <2>6. ExitAlone'
    BY <1>2, <1>6 DEF ExitAlone
  <2> QED BY <2>1, <2>2, <2>3, <2>4, <2>5, <2>6 DEF Single
<1> QED BY <1>2, <1>3, <1>4, <1>5, <1>7, <1>9

(* The test that Exit makes is passed by every thread that is in GetInstance.*)
LEMMA GettingIsIn ==
  ASSUME Shape, NEW t \in Threads, Getting(t)
  PROVE  InGetInstance(t)
<1>1. CASE pc[t] # "idle"
  BY <1>1 DEF InGetInstance
<1>2. CASE Op(t) = "load" /\ Next1(t)[3] = Instance
  <2>1. ToLoad(t, todo[t])
    BY <1>2, PlanOfOp DEF Shape
  <2>2. ASSUME NEW d, NEW s, s \in Mine(t), Next1(t) = <<"load", d, s>>
        PROVE  FALSE
    <3>1. Next1(t)[3] = s
      BY <2>2
    <3> QED BY <1>2, <2>2, <3>1, HandlesApart
  <2>3. ~\/ \E d \in Locals(t), s \in Mine(t) : todo[t] = << <<"load", d, s>>, <<"inc", d>>, <<"dec", s>>, <<"null", s>> >>
         \/ \E d, s \in Locals(t) : Copied(t, d, s) /\ todo[t] = << <<"load", d, s>>, <<"inc", d>> >>
    BY <2>2 DEF Mine, Next1
  <2>4. PICK p \in Locals(t), r \in {Result(t)} : 
          todo[t] = << <<"load", r, Instance>>, <<"inc", r>>, <<"load", p, r>>, <<"inc", p>>, <<"dec", r>>, <<"null", r>> >>
    BY <2>1, <2>3 DEF ToLoad
  <2>5. 2 \in DOMAIN todo[t] /\ todo[t][2] = <<"inc", Result(t)>>
    BY <2>4
  <2> QED BY <2>5 DEF InGetInstance
<1>3. CASE Op(t) = "inc" /\ Next1(t)[2] = Result(t) /\ pc[t] = "idle"
  <2>1. ToIncrease(t, todo[t])
    BY <1>3, PlanOfOp DEF Shape
  <2>2. \A d \in Locals(t) : d # Result(t)
    BY HandlesApart
  <2>3. PICK p \in Locals(t), r \in {Result(t)} : 
          todo[t] = << <<"inc", r>>, <<"load", p, r>>, <<"inc", p>>, <<"dec", r>>, <<"null", r>> >>
    BY <1>3, <2>1, <2>2 DEF ToIncrease, Next1
  <2>4. 1 \in DOMAIN todo[t] /\ todo[t][1] = <<"inc", Result(t)>>
    BY <2>3
  <2> QED BY <2>4 DEF InGetInstance
<1> QED BY <1>1, <1>2, <1>3 DEF Getting

LEMMA ExitSingle ==
  ASSUME Shape, Single, Followed, Exit
  PROVE  Shape' /\ Single' /\ Op(Main)' = "dec" /\ Next1(Main)' = <<"dec", Instance>> /\ todo[Main] = <<>>
<1>1. /\ UNCHANGED <<ptr, made, alive, mutex, pc>> /\ exiting' /\ pc[Main] = "idle" /\ todo[Main] = <<>>
      /\ todo'[Main] = RefCountDecrease(Instance) /\ Main \in Threads /\ mishaps \subseteq mishaps'
      /\ \A u \in Threads \ {Main} : UNCHANGED <<todo[u], pc[u]>>
  BY Frame, ThreadsAssumption DEF Exit, Ready, Shape, TypeOK
<1>2. NoResult(Main)
  <2>1. ~InSptr(Main, todo[Main]) /\ ~AfterDecrease(Main)
    BY <1>1, HeadOps DEF InSptr, AfterDecrease
  <2> QED BY <1>1, <2>1 DEF Shape, Plan
<1>3. Op(Main)' = "dec" /\ Next1(Main)' = <<"dec", Instance>>
  BY <1>1 DEF Op, Next1, RefCountDecrease
<1>4. Plan(Main)'
  <2>1. ToDecrease(Main, todo[Main])'
    BY <1>1, <1>2 DEF ToDecrease, NoResult, RefCountDecrease
  <2>2. InSptr(Main, todo[Main])'
    BY <2>1 DEF InSptr
  <2> QED BY <1>1, <2>2 DEF Plan
<1>5. Shape'
  <2>1. Nil \in Pools \cup {Nil} /\ Instance \in Mine(Main) \cup {Instance}
    OBVIOUS
  <2> QED BY <1>1, <1>4, <2>1, ShapeKept
<1>6. ~Making(Main) /\ ~Making(Main)' /\ pc'[Main] # "hold"
  BY <1>1 DEF Making
<1>7. MutexHeld'
  BY <1>1 DEF Single, MutexHeld
<1>8. ExitAlone'
  <2>1. ~Getting(Main)'
    BY <1>1, <1>3 DEF Getting
  <2>2. \A u \in Threads \ {Main} : Getting(u)' = Getting(u)
    BY <1>1, OthersSame
  <2>3. "late" \in mishaps' \/ \A u \in Threads : ~Getting(u)
    BY GettingIsIn DEF Exit
  <2> QED BY <2>1, <2>2, <2>3 DEF ExitAlone
<1> QED BY <1>1, <1>3, <1>5, <1>6, <1>7, <1>8, SingleMoved

LEMMA StartsSingle == Init => Shape /\ Single
<1> SUFFICES ASSUME Init
             PROVE  Shape /\ Single
  OBVIOUS
<1>1. \A t \in Threads : todo[t] = <<>> /\ pc[t] = "idle" /\ ptr[Result(t)] = Nil /\ Op(t) = "none"
  BY HandlesApart DEF Init, Op, Mine
<1>2. Shape
  BY <1>1 DEF Init, Shape, TypeOK, Plan, NoResult
<1>3. \A t \in Threads : ~Making(t) /\ ~Getting(t)
  BY <1>1 DEF Making, Getting
<1>4. MutexHeld /\ OneMade /\ PtrsMade
  BY ThreadsAssumption DEF Init, MutexHeld, OneMade, PtrsMade
<1>5. EarlyQuiet /\ Published /\ Loadable /\ ExitAlone
  BY <1>1 DEF Init, EarlyQuiet, Published, Loadable, ExitAlone
<1> QED BY <1>2, <1>4, <1>5 DEF Single

LEMMA StepsSingle == Shape /\ Single /\ [Next]_vars => Shape' /\ Single'
<1> SUFFICES ASSUME Shape, Single, [Next]_vars
             PROVE  Shape' /\ Single'
  OBVIOUS
<1>1. CASE UNCHANGED vars
  <2>1. \A t \in Threads : /\ Plan(t)' /\ Op(t)' = Op(t) /\ Next1(t)' = Next1(t) /\ Making(t)' = Making(t)
                           /\ Getting(t)' = Getting(t)
    BY <1>1, OthersPlan, OthersSame DEF Shape, vars
  <2>2. Shape'
    BY <1>1, <2>1 DEF Shape, TypeOK, vars
  <2>3. MutexHeld' /\ OneMade' /\ PtrsMade' /\ Loadable' /\ ExitAlone'
    BY <1>1, <2>1 DEF Single, MutexHeld, OneMade, PtrsMade, Loadable, ExitAlone, vars
  <2>4. EarlyQuiet' /\ Published'
    BY <1>1, <2>1 DEF Single, EarlyQuiet, Early, Published, RefCountDecrease, vars
  <2> QED BY <2>2, <2>3, <2>4 DEF Single
<1>2. CASE Followed /\ Exit
  BY <1>2, ExitSingle
<1>3. ASSUME Followed, NEW t \in Threads, Access(t)
      PROVE  Shape' /\ Single'
  <2>1. CASE LoadPtr(t)
    BY <1>3, <2>1, LoadSingle
  <2>2. CASE CopyPtr(t)
    BY <1>3, <2>2, CopySingle
  <2>3. CASE StorePtr(t)
    BY <1>3, <2>3, NullSingle, RawSingle DEF StorePtr
  <2>4. CASE Increase(t)
    BY <1>3, <2>4, IncreaseSingle
  <2>5. CASE Decrease(t)
    BY <1>3, <2>5, DecreaseSingle
  <2>6. CASE LogCount(t) \/ DeletePool(t)
    BY <1>3, <2>6, AfterSingle, StuckSingle
  <2>7. CASE Unlock(t)
    BY <1>3, <2>7, UnlockSingle
  <2> QED BY <1>3, <2>1, <2>2, <2>3, <2>4, <2>5, <2>6, <2>7 DEF Access
<1>4. ASSUME Followed, NEW t \in Threads, Check(t) \/ Lock(t) \/ Recheck(t) \/ GetInstance(t)
      PROVE  Shape' /\ Single'
  BY <1>4, CheckSingle, LockSingle, GetInstanceSingle, RecheckStays, RecheckMakes
<1>5. ASSUME Followed, NEW t \in Threads, Drop(t) \/ Construct(t) \/ Assign(t) \/ AssignPointer(t)
      PROVE  Shape' /\ Single'
  BY <1>5, CallSingle
<1> QED BY <1>1, <1>2, <1>3, <1>4, <1>5 DEF Next, Step, Call

(* Every thread has to do what one operation of sptr leaves it to do, and at *)
(* most one pool exists, known to nobody before it is stored.               *)
THEOREM PlansKept == Spec => [](Shape /\ Single)
<1> QED BY StartsSingle, StepsSingle, PTL DEF Spec

(* However many threads find instance_ null at first, the test repeated under*)
(* the mutex lets one of them make a pool, and every caller of GetInstance   *)
(* copies that one.                                                         *)
THEOREM OnePoolMade == Spec => []OnePool
<1>1. Shape /\ Single => OnePool
  <2> SUFFICES ASSUME Shape, Single
               PROVE  OnePool
    OBVIOUS
  <2>1. Cardinality(made) <= 1
    <3>1. made = {} \/ \E o \in made : made = {o}
      BY DEF Single, OneMade
    <3>2. Cardinality(made) = 0 \/ Cardinality(made) = 1
      <4>1. CASE made = {}
        BY <4>1, FS_EmptySet, Zenon
      <4>2. CASE \E o \in made : made = {o}
        BY <4>2, FS_Singleton, Zenon
      <4> QED BY <3>1, <4>1, <4>2
    <3> QED BY <3>2
  <2>2. \A t \in Threads : Op(t) = "load" /\ Next1(t)[3] = Instance => ptr[Instance] \in made
    BY HandlesApart DEF Single, Loadable, PtrsMade
  <2> QED BY <2>1, <2>2 DEF OnePool
<1> QED BY <1>1, PlansKept, PTL

-----------------------------------------------------------------------------
(* Owners: the handles that a pool is counted for.                          *)

BetweenIn(q, h) ==
  \/ q # <<>> /\ Head(q) \in {<<"inc", h>>, <<"null", h>>}
  \/ q # <<>> /\ Head(q)[1] \in {"delete", "log"} /\ Len(q) > 1 /\ q[2] = <<"null", h>>

Owners(o) == {h \in Handles : ptr[h] = o /\ ~Between(h)}

LEMMA BetweenByPlans ==
  ASSUME NEW h
  PROVE  Between(h) <=> \E t \in Threads : BetweenIn(todo[t], h)
BY DEF Between, BetweenIn, Op, Next1

LEMMA BetweenIns ==
  ASSUME NEW q, NEW g
  PROVE  /\ q = <<>> \/ Head(q)[1] \notin {"inc", "null", "delete", "log"} => ~BetweenIn(q, g)
         /\ \A h : q # <<>> /\ Head(q) \in {<<"inc", h>>, <<"null", h>>} => (BetweenIn(q, g) <=> g = h)
         /\ \A h : q # <<>> /\ Head(q)[1] \in {"delete", "log"} /\ Len(q) > 1 /\ q[2] = <<"null", h>>
                     => (BetweenIn(q, g) <=> g = h)
<1>1. q = <<>> \/ Head(q)[1] \notin {"inc", "null", "delete", "log"} => ~BetweenIn(q, g)
  BY DEF BetweenIn
<1>2. ASSUME NEW h, q # <<>>, Head(q) \in {<<"inc", h>>, <<"null", h>>}
      PROVE  BetweenIn(q, g) <=> g = h
  BY <1>2 DEF BetweenIn
<1>3. ASSUME NEW h, q # <<>>, Head(q)[1] \in {"delete", "log"}, Len(q) > 1, q[2] = <<"null", h>>
      PROVE  BetweenIn(q, g) <=> g = h
  <2>1. Head(q) \notin {<<"inc", g>>, <<"null", g>>}
    BY <1>3
  <2>2. <<"null", h>> = <<"null", g>> <=> g = h
    OBVIOUS
  <2> QED BY <1>3, <2>1, <2>2 DEF BetweenIn
<1> QED BY <1>1, <1>2, <1>3

(* A thread works on handles of its own, and on instance_ when it holds the  *)
(* mutex or runs the static destructors.                                    *)
LEMMA BetweenOnly ==
  ASSUME Shape, NEW t \in Threads, NEW h, BetweenIn(todo[t], h)
  PROVE  h \in Mine(t) \/ (h = Instance /\ ((t = Main /\ exiting) \/ pc[t] = "hold"))
<1>1. \A q : ToNull(t, q) => \E g : /\ Head(q) = <<"null", g>>
                                    /\ g \in Mine(t) \/ (g = Instance /\ t = Main /\ exiting)
  BY DEF ToNull, Mine
<1>2. CASE pc[t] = "hold"
  <2>1. ToUnlock(todo[t])
    BY <1>2, PlanOfOp DEF Shape
  <2>2. Head(todo[t])[1] \in {"inc", "null"} => Head(todo[t])[2] = Instance
    BY <2>1 DEF ToUnlock
  <2>3. Head(todo[t])[1] \notin {"delete", "log"}
    BY <2>1, HeadOps
  <2> QED BY <1>2, <2>2, <2>3 DEF BetweenIn
<1>3. CASE pc[t] = "idle" /\ Op(t) = "null"
  <2>1. ToNull(t, todo[t])
    BY <1>3, PlanOfOp DEF Shape
  <2>2. PICK g : Head(todo[t]) = <<"null", g>> /\ (g \in Mine(t) \/ (g = Instance /\ t = Main /\ exiting))
    BY <1>1, <2>1
  <2>3. g = h
    BY <2>1, <2>2, BetweenIns, HeadOps
  <2> QED BY <2>2, <2>3
<1>4. CASE pc[t] = "idle" /\ Op(t) = "inc"
  <2>1. ToIncrease(t, todo[t])
    BY <1>4, PlanOfOp DEF Shape
  <2>2. PICK g : Head(todo[t]) = <<"inc", g>> /\ g \in Mine(t)
    BY <2>1 DEF ToIncrease, Mine
  <2>3. g = h
    BY <2>1, <2>2, BetweenIns, HeadOps
  <2> QED BY <2>2, <2>3
<1>5. CASE Op(t) \in {"delete", "log"}
  <2>1. AfterDecrease(t) /\ todo[t] # <<>>
    BY <1>5, PlanOfOp DEF Shape, AfterDecrease
  <2>2. PICK g : todo[t][2] = <<"null", g>> /\ (g \in Mine(t) \/ (g = Instance /\ t = Main /\ exiting))
    BY <1>1, <2>1 DEF AfterDecrease
  <2>3. Head(todo[t])[1] \in {"delete", "log"} /\ Len(todo[t]) > 1
    BY <1>5, <2>1 DEF Op, Next1, AfterDecrease
  <2>4. g = h
    BY <2>1, <2>2, <2>3, BetweenIns
  <2> QED BY <2>2, <2>4
<1>6. Op(t) \in {"inc", "null", "delete", "log"}
  BY BetweenIns DEF Op, Next1
<1>7. pc[t] \in {"idle", "hold"}
  <2>1. todo[t] # <<>>
    BY <1>6 DEF Op
  <2> QED BY <2>1, PlanOfOp DEF Shape
<1> QED BY <1>2, <1>3, <1>4, <1>5, <1>6, <1>7

LEMMA NotBetweenUnlessLate ==
  ASSUME Shape, Single, "late" \notin mishaps, NEW t \in Threads, NEW u \in Threads, u # t,
         NEW h, h \in Mine(t) \/ (h = Instance /\ ((t = Main /\ exiting) \/ pc[t] = "hold"))
  PROVE  ~BetweenIn(todo[u], h)
<1>1. ~(h \in Mine(u))
  BY HandlesApart
<1>2. ~(h = Instance /\ ((u = Main /\ exiting) \/ pc[u] = "hold"))
  <2>1. ASSUME h = Instance
        PROVE  ~((u = Main /\ exiting) \/ pc[u] = "hold")
    <3>1. (t = Main /\ exiting) \/ pc[t] = "hold"
      BY <2>1, HandlesApart
    <3>2. pc[t] = "hold" => Getting(t) /\ ~exiting
      BY AloneUnlessLate DEF Getting
    <3>3. pc[u] = "hold" => Getting(u) /\ ~exiting
      BY AloneUnlessLate DEF Getting
    <3> QED BY <3>1, <3>2, <3>3, AloneUnlessLate
  <2> QED BY <2>1
<1> QED BY <1>1, <1>2, BetweenOnly

LEMMA NotBetweenOther ==
  ASSUME Shape, Single, Followed, NEW t \in Threads, NEW u \in Threads, u # t,
         NEW h, h \in Mine(t) \/ (h = Instance /\ ((t = Main /\ exiting) \/ pc[t] = "hold"))
  PROVE  ~BetweenIn(todo[u], h)
BY NotBetweenUnlessLate DEF Followed

(* Nobody else is between two accesses to h, and only t may begin or end one.*)
LEMMA OwnersElsewhere ==
  ASSUME NEW t \in Threads, NEW h \in Handles, \A u \in Threads \ {t} : UNCHANGED <<todo[u], pc[u]>>,
         \A g \in Handles \ {h} : ptr'[g] = ptr[g] /\ (BetweenIn(todo'[t], g) <=> BetweenIn(todo[t], g)),
         NEW o, NEW g \in Handles \ {h}
  PROVE  g \in Owners(o)' <=> g \in Owners(o)
<1>1. Between(g)' <=> \E u \in Threads : BetweenIn(todo'[u], g)
  BY DEF Between, BetweenIn, Op, Next1
<1>2. \A u \in Threads : BetweenIn(todo'[u], g) <=> BetweenIn(todo[u], g)
  OBVIOUS
<1>3. Between(g)' <=> Between(g)
  BY <1>1, <1>2, BetweenByPlans
<1> QED BY <1>3 DEF Owners

LEMMA OwnersAt ==
  ASSUME Shape, Single, Followed, NEW t \in Threads, \A u \in Threads \ {t} : UNCHANGED <<todo[u], pc[u]>>,
         NEW h \in Handles, h \in Mine(t) \/ (h = Instance /\ ((t = Main /\ exiting) \/ pc[t] = "hold")),
         \A g \in Handles \ {h} : ptr'[g] = ptr[g] /\ (BetweenIn(todo'[t], g) <=> BetweenIn(todo[t], g)),
         NEW o
  PROVE  /\ h \in Owners(o) <=> (ptr[h] = o /\ ~BetweenIn(todo[t], h))
         /\ h \in Owners(o)' <=> (ptr'[h] = o /\ ~BetweenIn(todo'[t], h))
         /\ Owners(o)' \ {h} = Owners(o) \ {h}
<1>1. \A u \in Threads \ {t} : ~BetweenIn(todo[u], h) /\ ~BetweenIn(todo'[u], h)
  BY NotBetweenOther
<1>2. Between(h)' <=> \E u \in Threads : BetweenIn(todo'[u], h)
  BY DEF Between, BetweenIn, Op, Next1
<1>3. (Between(h) <=> BetweenIn(todo[t], h)) /\ (Between(h)' <=> BetweenIn(todo'[t], h))
  BY <1>1, <1>2, BetweenByPlans
<1>4. \A g \in Handles \ {h} : g \in Owners(o)' <=> g \in Owners(o)
  BY OwnersElsewhere
<1>5. Owners(o) \subseteq Handles /\ Owners(o)' \subseteq Handles
  BY DEF Owners
<1>6. /\ h \in Owners(o) <=> (ptr[h] = o /\ ~BetweenIn(todo[t], h))
      /\ h \in Owners(o)' <=> (ptr'[h] = o /\ ~BetweenIn(todo'[t], h))
  BY <1>3 DEF Owners
<1> QED BY <1>4, <1>5, <1>6

LEMMA OwnersSame ==
  ASSUME NEW t \in Threads, \A u \in Threads \ {t} : UNCHANGED <<todo[u], pc[u]>>, UNCHANGED ptr,
         \A g : BetweenIn(todo'[t], g) <=> BetweenIn(todo[t], g), NEW o
  PROVE  Owners(o)' = Owners(o)
<1>1. \A g : Between(g)' <=> \E u \in Threads : BetweenIn(todo'[u], g)
  BY DEF Between, BetweenIn, Op, Next1
<1>2. \A g : Between(g)' <=> Between(g)
  BY <1>1, BetweenByPlans
<1> QED BY <1>2 DEF Owners

LEMMA LoadOwners ==
  ASSUME Shape, Single, Followed, NEW t \in Threads, LoadPtr(t), NEW o \in Pools
  PROVE  Owners(o)' = Owners(o)
<1>1. PICK d \in Mine(t), s \in Handles :
        /\ ptr[d] = Nil /\ ptr' = [ptr EXCEPT ![d] = ptr[s]] /\ Op(t)' = "inc" /\ Next1(t)' = <<"inc", d>>
  BY LoadStep
<1>2. todo[t] # <<>> /\ Head(todo[t])[1] = "load" /\ todo'[t] # <<>> /\ Head(todo'[t]) = <<"inc", d>>
  BY <1>1 DEF LoadPtr, Op, Next1
<1>3. \A g : ~BetweenIn(todo[t], g) /\ (BetweenIn(todo'[t], g) <=> g = d)
  BY <1>2, BetweenIns
<1>4. (\A u \in Threads \ {t} : UNCHANGED <<todo[u], pc[u]>>) /\ DOMAIN ptr = Handles /\ d \in Handles
  BY Frame, HandlesApart DEF Step, Access, Shape, TypeOK
<1>5. \A g \in Handles \ {d} : ptr'[g] = ptr[g] /\ (BetweenIn(todo'[t], g) <=> BetweenIn(todo[t], g))
  BY <1>1, <1>3, <1>4
<1>6. d \notin Owners(o) /\ d \notin Owners(o)' /\ Owners(o)' \ {d} = Owners(o) \ {d}
  BY <1>1, <1>3, <1>4, <1>5, OwnersAt, ThreadsAssumption
<1> QED BY <1>6

LEMMA CopyOwners ==
  ASSUME Shape, Single, Followed, NEW t \in Threads, CopyPtr(t)
  PROVE  \E d \in Mine(t), s \in Mine(t) :
           /\ Next1(t) = <<"copy", d, s>> /\ d # s /\ s \in Owners(ptr[s]) /\ (ptr[d] # Nil \/ ptr[s] # Nil)
           /\ ptr' = [ptr EXCEPT ![d] = ptr[s]] /\ Op(t)' = "none"
           /\ \A o : /\ d \in Owners(o) <=> ptr[d] = o
                     /\ Owners(o)' = IF ptr[s] = o THEN Owners(o) \cup {d} ELSE Owners(o) \ {d}
<1>1. PICK d \in Mine(t), s \in Mine(t) :
        /\ Next1(t) = <<"copy", d, s>> /\ d # s /\ (ptr[d] # Nil \/ ptr[s] # Nil)
        /\ ptr' = [ptr EXCEPT ![d] = ptr[s]] /\ todo'[t] = <<>>
  BY CopyStep
<1>2. todo[t] # <<>> /\ Head(todo[t])[1] = "copy"
  BY DEF CopyPtr, Op, Next1
<1>3. \A g : ~BetweenIn(todo[t], g) /\ ~BetweenIn(todo'[t], g)
  BY <1>1, <1>2, BetweenIns
<1>4. /\ \A u \in Threads \ {t} : UNCHANGED <<todo[u], pc[u]>>
      /\ DOMAIN ptr = Handles /\ d \in Handles /\ s \in Handles
  BY Frame, HandlesApart DEF Step, Access, Shape, TypeOK
<1>5. \A g \in Handles \ {d} : ptr'[g] = ptr[g] /\ (BetweenIn(todo'[t], g) <=> BetweenIn(todo[t], g))
  BY <1>1, <1>3, <1>4
<1>6. ASSUME NEW o
      PROVE  /\ d \in Owners(o) <=> ptr[d] = o
             /\ Owners(o)' = IF ptr[s] = o THEN Owners(o) \cup {d} ELSE Owners(o) \ {d}
  <2>1. /\ d \in Owners(o) <=> ptr[d] = o
        /\ d \in Owners(o)' <=> ptr'[d] = o
        /\ Owners(o)' \ {d} = Owners(o) \ {d}
    BY <1>3, <1>4, <1>5, OwnersAt
  <2>2. ptr'[d] = ptr[s]
    BY <1>1, <1>4
  <2> QED BY <2>1, <2>2
<1>7. s \in Owners(ptr[s])
  <2>1. ~Between(s)
    BY <1>3, NotBetweenOther, BetweenByPlans
  <2> QED BY <1>4, <2>1 DEF Owners
<1>8. Op(t)' = "none"
  BY <1>1 DEF Op
<1> QED BY <1>1, <1>6, <1>7, <1>8

LEMMA NullOwners ==
  ASSUME Shape, Single, Followed, NEW t \in Threads, StorePtr(t), Op(t) = "null", NEW o \in Pools
  PROVE  Owners(o)' = Owners(o)
<1>1. PICK h \in Handles :
        /\ Next1(t) = <<"null", h>> /\ ptr' = [ptr EXCEPT ![h] = Nil]
        /\ h \in Mine(t) \/ (h = Instance /\ ((t = Main /\ exiting) \/ pc[t] = "hold"))
        /\ Op(t)' \in {"none", "load", "raw"}
  BY NullStep DEF Making
<1>2. todo[t] # <<>> /\ Head(todo[t]) = <<"null", h>>
  BY <1>1 DEF Op, Next1
<1>3. todo'[t] = <<>> \/ Head(todo'[t])[1] \notin {"inc", "null", "delete", "log"}
  BY <1>1 DEF Op, Next1
<1>4. \A g : ~BetweenIn(todo'[t], g) /\ (BetweenIn(todo[t], g) <=> g = h)
  BY <1>2, <1>3, BetweenIns
<1>5. (\A u \in Threads \ {t} : UNCHANGED <<todo[u], pc[u]>>) /\ DOMAIN ptr = Handles
  BY Frame DEF Step, Access, Shape, TypeOK
<1>6. \A g \in Handles \ {h} : ptr'[g] = ptr[g] /\ (BetweenIn(todo'[t], g) <=> BetweenIn(todo[t], g))
  BY <1>1, <1>4, <1>5
<1>7. h \notin Owners(o) /\ h \notin Owners(o)' /\ Owners(o)' \ {h} = Owners(o) \ {h}
  BY <1>1, <1>4, <1>5, <1>6, OwnersAt, ThreadsAssumption
<1> QED BY <1>7

LEMMA RawOwners ==
  ASSUME Shape, Single, Followed, NEW t \in Threads, StorePtr(t), Op(t) = "raw", NEW o \in Pools
  PROVE  Owners(o)' = Owners(o)
<1>1. PICK d \in Handles, r \in made :
        /\ Next1(t) = <<"raw", d, r>> /\ ptr' = [ptr EXCEPT ![d] = r]
        /\ Op(t)' = "inc" /\ Next1(t)' = <<"inc", d>>
        /\ \/ d \in Locals(t) /\ ptr[d] = Nil
           \/ d = Instance /\ Making(t)
  BY RawStep
<1>2. ptr[d] = Nil
  <2>1. Making(t) => \A h \in Handles : ptr[h] = Nil
    BY EarlyOps DEF Early
  <2> QED BY <1>1, <2>1
<1>3. todo[t] # <<>> /\ Head(todo[t])[1] = "raw" /\ todo'[t] # <<>> /\ Head(todo'[t]) = <<"inc", d>>
  BY <1>1 DEF Op, Next1
<1>4. \A g : ~BetweenIn(todo[t], g) /\ (BetweenIn(todo'[t], g) <=> g = d)
  BY <1>3, BetweenIns
<1>5. (\A u \in Threads \ {t} : UNCHANGED <<todo[u], pc[u]>>) /\ DOMAIN ptr = Handles
  BY Frame DEF Step, Access, Shape, TypeOK
<1>6. \A g \in Handles \ {d} : ptr'[g] = ptr[g] /\ (BetweenIn(todo'[t], g) <=> BetweenIn(todo[t], g))
  BY <1>1, <1>4, <1>5
<1>7. d \in Mine(t) \/ (d = Instance /\ ((t = Main /\ exiting) \/ pc[t] = "hold"))
  BY <1>1 DEF Making, Mine
<1>8. d \notin Owners(o) /\ d \notin Owners(o)' /\ Owners(o)' \ {d} = Owners(o) \ {d}
  BY <1>2, <1>4, <1>5, <1>6, <1>7, OwnersAt, ThreadsAssumption
<1> QED BY <1>8

LEMMA IncreaseOwners ==
  ASSUME Shape, Single, Followed, NEW t \in Threads, Increase(t)
  PROVE  \E h \in Handles :
           /\ Next1(t) = <<"inc", h>> /\ Op(t)' \in {"none", "dec", "unlock", "load"}
           /\ (h = Instance /\ Window(t)) \/ (h \in Mine(t) /\ pc[t] = "idle")
           /\ \A o : /\ h \notin Owners(o)
                     /\ Owners(o)' = IF ptr[h] = o THEN Owners(o) \cup {h} ELSE Owners(o)
<1>1. PICK h \in Handles :
        /\ Next1(t) = <<"inc", h>> /\ Op(t)' \in {"none", "dec", "unlock", "load"}
        /\ (h = Instance /\ Window(t)) \/ (h \in Mine(t) /\ pc[t] = "idle")
  BY IncreaseStep
<1>2. Op(t) = "inc" /\ UNCHANGED ptr
  BY DEF Increase
<1>3. todo[t] # <<>> /\ Head(todo[t]) = <<"inc", h>>
  BY <1>1, <1>2 DEF Op, Next1
<1>4. todo'[t] = <<>> \/ Head(todo'[t])[1] \notin {"inc", "null", "delete", "log"}
  BY <1>1 DEF Op, Next1
<1>5. \A g : ~BetweenIn(todo'[t], g) /\ (BetweenIn(todo[t], g) <=> g = h)
  BY <1>3, <1>4, BetweenIns
<1>6. \A u \in Threads \ {t} : UNCHANGED <<todo[u], pc[u]>>
  BY Frame DEF Step, Access
<1>7. \A g \in Handles \ {h} : ptr'[g] = ptr[g] /\ (BetweenIn(todo'[t], g) <=> BetweenIn(todo[t], g))
  BY <1>2, <1>5
<1>8. ASSUME NEW o
      PROVE  /\ h \notin Owners(o)
             /\ Owners(o)' = IF ptr[h] = o THEN Owners(o) \cup {h} ELSE Owners(o)
  <2>1. h \notin Owners(o) /\ (h \in Owners(o)' <=> ptr[h] = o) /\ Owners(o)' \ {h} = Owners(o) \ {h}
    BY <1>1, <1>2, <1>5, <1>6, <1>7, OwnersAt DEF Window
  <2> QED BY <2>1
<1> QED BY <1>1, <1>8

LEMMA DecreaseOwners ==
  ASSUME Shape, Single, Followed, NEW t \in Threads, Decrease(t)
  PROVE  \E h \in Handles :
           /\ Next1(t) = <<"dec", h>>
           /\ h \in Mine(t) \/ (h = Instance /\ exiting) \/ (h = Instance /\ ptr[h] = Nil)
           /\ Making(t) => Making(t)'
           /\ \/ ptr[h] \notin alive /\ Op(t)' = "null"
              \/ /\ ptr[h] \in alive /\ todo'[t] # <<>>
                 /\ Next1(t)' = IF count[ptr[h]] = 1 THEN <<"delete", ptr[h]>> ELSE <<"log", ptr[h]>>
           /\ \A o : /\ h \in Owners(o) <=> ptr[h] = o
                     /\ Owners(o)' = Owners(o) \ {h}
<1>1. Making(t) => ptr[Instance] = Nil
  BY EarlyOps, HandlesApart DEF Early
<1>2. PICK h \in Handles :
        /\ Next1(t) = <<"dec", h>>
        /\ \/ h \in Mine(t) /\ pc[t] = "idle"
           \/ h = Instance /\ pc[t] = "idle" /\ t = Main /\ exiting
           \/ h = Instance /\ ptr[h] = Nil /\ Making(t) /\ Making(t)'
        /\ \/ ptr[h] \notin alive /\ todo'[t] # <<>> /\ Next1(t)' = <<"null", h>>
           \/ /\ ptr[h] \in alive
              /\ Next1(t)' = IF count[ptr[h]] = 1 THEN <<"delete", ptr[h]>> ELSE <<"log", ptr[h]>>
              /\ todo'[t] # <<>> /\ Len(todo'[t]) > 1 /\ todo'[t][2] = <<"null", h>>
  BY <1>1, DecreaseStep
<1>3. Op(t) = "dec" /\ UNCHANGED ptr
  BY DEF Decrease
<1>4. todo[t] # <<>> /\ Head(todo[t])[1] = "dec"
  BY <1>2, <1>3 DEF Op, Next1
<1>5. \A g : ~BetweenIn(todo[t], g)
  BY <1>4, BetweenIns
<1>6. \A g : BetweenIn(todo'[t], g) <=> g = h
  <2>1. CASE ptr[h] \notin alive
    <3>1. todo'[t] # <<>> /\ Head(todo'[t]) = <<"null", h>>
      BY <1>2, <2>1 DEF Next1
    <3> QED BY <3>1, BetweenIns
  <2>2. CASE ptr[h] \in alive
    <3>1. todo'[t] # <<>> /\ Head(todo'[t])[1] \in {"delete", "log"} /\ Len(todo'[t]) > 1 /\ todo'[t][2] = <<"null", h>>
      BY <1>2, <2>2 DEF Next1
    <3> QED BY <3>1, BetweenIns
  <2> QED BY <2>1, <2>2
<1>7. \A u \in Threads \ {t} : UNCHANGED <<todo[u], pc[u]>>
  BY Frame DEF Step, Access
<1>8. \A g \in Handles \ {h} : ptr'[g] = ptr[g] /\ (BetweenIn(todo'[t], g) <=> BetweenIn(todo[t], g))
  BY <1>3, <1>5, <1>6
<1>9. ASSUME NEW o
      PROVE  (h \in Owners(o) <=> ptr[h] = o) /\ Owners(o)' = Owners(o) \ {h}
  <2>1. h \in Mine(t) \/ (h = Instance /\ ((t = Main /\ exiting) \/ pc[t] = "hold"))
    BY <1>2 DEF Making
  <2>2. (h \in Owners(o) <=> ptr[h] = o) /\ h \notin Owners(o)' /\ Owners(o)' \ {h} = Owners(o) \ {h}
    BY <1>5, <1>6, <1>7, <1>8, <2>1, OwnersAt
  <2> QED BY <2>2
<1>10. ptr[h] \notin alive => Op(t)' = "null"
  BY <1>2 DEF Op
<1>11. Making(t) => Making(t)'
  BY <1>2 DEF Making
<1> QED BY <1>2, <1>9, <1>10, <1>11

(* No other step changes the owners of a pool.                              *)
LEMMA QuietOwners ==
  ASSUME Shape, Single, Followed, NEW t \in Threads,
         \/ LogCount(t) \/ DeletePool(t) \/ Unlock(t) \/ Check(t) \/ Lock(t) \/ Recheck(t) \/ Call(t) \/ (t = Main /\ Exit),
         NEW o
  PROVE  Owners(o)' = Owners(o)
<1>1. (\A u \in Threads \ {t} : UNCHANGED <<todo[u], pc[u]>>) /\ UNCHANGED ptr
  <2>1. UNCHANGED ptr
    BY DEF LogCount, DeletePool, Unlock, Check, Lock, Recheck, Call, GetInstance, Drop, Construct, Assign,
           AssignPointer, Start, Exit
  <2> QED BY <2>1, Frame DEF Step, Access
<1>2. ASSUME NEW g
      PROVE  BetweenIn(todo'[t], g) <=> BetweenIn(todo[t], g)
  <2>1. CASE todo'[t] = todo[t]
    BY <2>1
  <2>2. CASE (LogCount(t) \/ DeletePool(t)) /\ todo'[t] # todo[t]
    <3>1. /\ Op(t) \in {"log", "delete"} /\ todo'[t] = Tail(todo[t])
          /\ UNCHANGED <<ptr, pc, exiting, made>> /\ mishaps \subseteq mishaps'
      BY <2>2 DEF LogCount, DeletePool, Done, Shape
    <3>2. todo'[t] # <<>> /\ Op(t)' = "null" /\ Next1(t)' = todo[t][2] /\ Len(todo[t]) > 1
      BY <3>1, AfterStep
    <3>3. PICK h : todo[t][2] = <<"null", h>>
      <4>1. AfterDecrease(t)
        BY <3>1, PlanOfOp DEF Shape
      <4>2. \A q : ToNull(t, q) => \E h : Head(q) = <<"null", h>>
        BY DEF ToNull
      <4> QED BY <4>1, <4>2 DEF AfterDecrease
    <3>4. todo'[t] # <<>> /\ Head(todo'[t]) = <<"null", h>>
      BY <3>2, <3>3 DEF Next1
    <3>5. todo[t] # <<>> /\ Head(todo[t])[1] \in {"delete", "log"} /\ Len(todo[t]) > 1 /\ todo[t][2] = <<"null", h>>
      BY <3>1, <3>2, <3>3 DEF Op, Next1
    <3>6. (BetweenIn(todo'[t], g) <=> g = h) /\ (BetweenIn(todo[t], g) <=> g = h)
      BY <3>4, <3>5, BetweenIns
    <3> QED BY <3>6
  <2>3. CASE ~(LogCount(t) \/ DeletePool(t))
    <3>1. Op(t) \in {"none", "unlock"}
      BY <2>3, CheckSingle, RecheckStays, RecheckMakes, ExitSingle
         DEF Unlock, Lock, Call, GetInstance, Drop, Construct, Assign, AssignPointer, Ready, Op, Shape, Plan
    <3>2. Op(t)' \in {"none", "load", "dec", "copy", "unlock"}
      BY <2>3, UnlockSingle, CheckSingle, LockSingle, RecheckStays, RecheckMakes, GetInstanceSingle, ExitSingle, PlanOfCall
         DEF Call, Single, PtrsMade
    <3>3. /\ todo[t] = <<>> \/ Head(todo[t])[1] \notin {"inc", "null", "delete", "log"}
          /\ todo'[t] = <<>> \/ Head(todo'[t])[1] \notin {"inc", "null", "delete", "log"}
      BY <3>1, <3>2 DEF Op, Next1
    <3> QED BY <3>3, BetweenIns
  <2> QED BY <2>1, <2>2, <2>3
<1> QED BY <1>1, <1>2, OwnersSame

-----------------------------------------------------------------------------
(* The counter.                                                             *)

DeletePending(o) == \E t \in Threads : todo[t] # <<>> /\ Next1(t) = <<"delete", o>>
Starting == \E t \in Threads : Making(t) \/ Window(t)

(* A pool whose counter is not above zero is about to be deleted by the      *)
(* thread that counted it down, or was just made.                           *)
Counted ==
  /\ \A o \in Pools \ made : count[o] = 0 /\ skew[o] = 0
  /\ \A o \in alive : count[o] = skew[o] + Cardinality(Owners(o))
  /\ \A o \in alive : count[o] <= 0 => DeletePending(o) \/ (count[o] = 0 /\ skew[o] = 0 /\ Starting)

LEMMA OwnersFinite ==
  ASSUME NEW o
  PROVE  /\ IsFiniteSet(Owners(o)) /\ Cardinality(Owners(o)) \in Nat
         /\ \A h \in Owners(o) : Cardinality(Owners(o)) >= 1
         /\ \A h : h \notin Owners(o) => Cardinality(Owners(o) \cup {h}) = Cardinality(Owners(o)) + 1
         /\ \A h \in Owners(o) : Cardinality(Owners(o) \ {h}) = Cardinality(Owners(o)) - 1
<1>1. IsFiniteSet(Owners(o))
  <2>1. Owners(o) \in SUBSET Handles
    BY DEF Owners
  <2> QED BY <2>1, HandlesApart, FS_Subset
<1>2. Cardinality(Owners(o)) \in Nat
  BY <1>1, FS_CardinalityType
<1>3. \A h \in Owners(o) : Cardinality(Owners(o)) >= 1
  <2> SUFFICES ASSUME NEW h \in Owners(o)
               PROVE  Cardinality(Owners(o)) >= 1
    OBVIOUS
  <2>1. Cardinality(Owners(o)) # 0
    BY <1>1, FS_EmptySet
  <2> QED BY <1>2, <2>1
<1>4. \A h : h \notin Owners(o) => Cardinality(Owners(o) \cup {h}) = Cardinality(Owners(o)) + 1
  BY <1>1, FS_AddElement
<1>5. \A h \in Owners(o) : Cardinality(Owners(o) \ {h}) = Cardinality(Owners(o)) - 1
  BY <1>1, FS_RemoveElement
<1> QED BY <1>1, <1>2, <1>3, <1>4, <1>5

LEMMA PendingStays ==
  ASSUME NEW t \in Threads, \A u \in Threads \ {t} : UNCHANGED <<todo[u], pc[u]>>,
         Op(t) # "delete" \/ UNCHANGED todo, NEW o, DeletePending(o)
  PROVE  DeletePending(o)'
<1>1. PICK u \in Threads : todo[u] # <<>> /\ Next1(u) = <<"delete", o>>
  BY DEF DeletePending
<1>2. UNCHANGED todo[u]
  BY <1>1 DEF Op
<1>3. todo'[u] # <<>> /\ Next1(u)' = <<"delete", o>>
  BY <1>1, <1>2 DEF Next1
<1> QED BY <1>3 DEF DeletePending

LEMMA CountedQuiet ==
  ASSUME Counted, NEW t \in Threads, \A u \in Threads \ {t} : UNCHANGED <<todo[u], pc[u]>>,
         UNCHANGED <<count, skew, alive, made>>,
         \A o \in alive : Owners(o)' = Owners(o),
         Op(t) # "delete" \/ UNCHANGED todo,
         Making(t) \/ Window(t) => Making(t)' \/ Window(t)'
  PROVE  Counted'
<1>1. Starting => Starting'
  BY OthersSame DEF Starting
<1>2. \A o : DeletePending(o) => DeletePending(o)'
  BY PendingStays
<1>3. \A o \in alive : count'[o] = skew'[o] + Cardinality(Owners(o)')
  BY DEF Counted
<1>4. (\A o \in alive : count[o] = skew[o] + Cardinality(Owners(o)))'
  BY <1>3
<1>5. (\A o \in alive : count[o] <= 0 => DeletePending(o) \/ (count[o] = 0 /\ skew[o] = 0 /\ Starting))'
  BY <1>1, <1>2 DEF Counted
<1> QED BY <1>4, <1>5 DEF Counted

LEMMA CopyCounted ==
  ASSUME Shape, Single, Counted, Followed, NEW t \in Threads, CopyPtr(t)
  PROVE  Counted'
<1>1. PICK d \in Mine(t), s \in Mine(t) :
        /\ Next1(t) = <<"copy", d, s>> /\ d # s /\ s \in Owners(ptr[s]) /\ (ptr[d] # Nil \/ ptr[s] # Nil)
        /\ ptr' = [ptr EXCEPT ![d] = ptr[s]] /\ Op(t)' = "none"
        /\ \A o : /\ d \in Owners(o) <=> ptr[d] = o
                  /\ Owners(o)' = IF ptr[s] = o THEN Owners(o) \cup {d} ELSE Owners(o) \ {d}
  BY CopyOwners
<1>2. /\ UNCHANGED <<count, alive, made>> /\ Op(t) = "copy"
      /\ skew' = [o \in Pools |-> skew[o] + (IF ptr[d] = o THEN 1 ELSE 0) - (IF ptr[s] = o THEN 1 ELSE 0)]
  BY <1>1 DEF CopyPtr
<1>3. /\ \A u \in Threads \ {t} : UNCHANGED <<todo[u], pc[u]>>
      /\ alive \subseteq made /\ made \subseteq Pools /\ skew \in [Pools -> Int] /\ count \in [Pools -> Int]
      /\ d \in Handles /\ s \in Handles
  BY Frame, HandlesApart DEF Step, Access, Shape, TypeOK
<1>4. /\ ptr[d] \in made \cup {Nil} /\ ptr[s] \in made \cup {Nil}
      /\ \A o \in made : o # Nil /\ (o = ptr[d] \/ o = ptr[s]) /\ (o = ptr[s] \/ ptr[s] = Nil)
  BY <1>1, <1>3, ThreadsAssumption DEF Single, PtrsMade, OneMade
<1>5. ~Early
  BY <1>1, <1>3, EarlyOps
<1>6. \A o \in Pools : skew'[o] = skew[o] + (IF ptr[d] = o THEN 1 ELSE 0) - (IF ptr[s] = o THEN 1 ELSE 0)
  BY <1>2
<1>7. (\A o \in Pools \ made : count[o] = 0 /\ skew[o] = 0)'
  <2>1. \A o \in Pools \ made : ptr[d] # o /\ ptr[s] # o
    BY <1>4, ThreadsAssumption
  <2>2. \A o \in Pools \ made : skew'[o] = 0
    BY <1>3, <1>6, <2>1 DEF Counted
  <2> QED BY <1>2, <2>2 DEF Counted
<1>9. (\A o \in alive : count[o] = skew[o] + Cardinality(Owners(o)))'
  <2> SUFFICES ASSUME NEW o \in alive
               PROVE  count'[o] = skew'[o] + Cardinality(Owners(o)')
    BY <1>2
  <2>1. o \in Pools /\ o # Nil /\ (o = ptr[s] \/ ptr[s] = Nil)
    BY <1>3, <1>4
  <2>3. /\ Cardinality(Owners(o)) \in Nat
        /\ Cardinality(Owners(o)') = Cardinality(Owners(o)) + (IF ptr[s] = o THEN 1 ELSE 0)
                                                           - (IF ptr[d] = o THEN 1 ELSE 0)
    <3>1. CASE (ptr[d] = o /\ ptr[s] = o) \/ (ptr[d] # o /\ ptr[s] # o)
      <4>1. Owners(o)' = Owners(o)
        BY <1>1, <3>1
      <4> QED BY <3>1, <4>1, OwnersFinite
    <3>2. CASE ptr[d] # o /\ ptr[s] = o
      <4>1. d \notin Owners(o) /\ Owners(o)' = Owners(o) \cup {d}
        BY <1>1, <3>2
      <4> QED BY <3>2, <4>1, OwnersFinite
    <3>3. CASE ptr[d] = o /\ ptr[s] # o
      <4>1. d \in Owners(o) /\ Owners(o)' = Owners(o) \ {d}
        BY <1>1, <3>3
      <4> QED BY <3>3, <4>1, OwnersFinite
    <3> QED BY <3>1, <3>2, <3>3
  <2>4. count[o] = skew[o] + Cardinality(Owners(o)) /\ count[o] \in Int /\ skew[o] \in Int
        /\ Cardinality(Owners(o)) \in Nat
    BY <1>3, <2>1, OwnersFinite DEF Counted
  <2> QED BY <1>2, <1>6, <2>1, <2>3, <2>4
<1>10. (\A o \in alive : count[o] <= 0 => DeletePending(o) \/ (count[o] = 0 /\ skew[o] = 0 /\ Starting))'
  <2> SUFFICES ASSUME NEW o \in alive, count[o] <= 0
               PROVE  DeletePending(o)'
    BY <1>2
  <2>1. (o = ptr[d] \/ o = ptr[s]) /\ o \in Pools
    BY <1>3, <1>4
  <2>2. Cardinality(Owners(o)) >= 1 /\ Cardinality(Owners(o)) \in Nat
    BY <1>1, <2>1, OwnersFinite
  <2>3. count[o] = skew[o] + Cardinality(Owners(o)) /\ skew[o] \in Int
    BY <1>3, <2>1 DEF Counted
  <2>4. DeletePending(o)
    BY <2>2, <2>3 DEF Counted
  <2> QED BY <1>2, <1>3, <2>4, PendingStays
<1> QED BY <1>7, <1>9, <1>10 DEF Counted

LEMMA IncreaseCounted ==
  ASSUME Shape, Single, Counted, Followed, NEW t \in Threads, Increase(t)
  PROVE  Counted'
<1>1. PICK h \in Handles :
        /\ Next1(t) = <<"inc", h>>
        /\ (h = Instance /\ Window(t)) \/ (h \in Mine(t) /\ pc[t] = "idle")
        /\ \A o : /\ h \notin Owners(o)
                  /\ Owners(o)' = IF ptr[h] = o THEN Owners(o) \cup {h} ELSE Owners(o)
  BY IncreaseOwners
<1>2. /\ UNCHANGED <<skew, alive, made>> /\ Op(t) = "inc" /\ Step(t)
      /\ IF ptr[h] \in alive THEN count' = [count EXCEPT ![ptr[h]] = @ + 1] ELSE UNCHANGED count
  BY <1>1 DEF Increase, Step, Access
<1>3. /\ \A u \in Threads \ {t} : UNCHANGED <<todo[u], pc[u]>>
      /\ alive \subseteq made /\ made \subseteq Pools /\ skew \in [Pools -> Int] /\ count \in [Pools -> Int]
  BY <1>2, Frame DEF Shape, TypeOK
<1>4. ptr[h] \in made \cup {Nil} /\ \A o1, o2 \in made : o1 = o2
  BY DEF Single, PtrsMade, OneMade
<1>5. CASE ptr[h] \notin alive
  <2>1. \A o \in alive : ptr[h] = Nil
    BY <1>3, <1>4, <1>5
  <2>2. \A o \in alive : Owners(o)' = Owners(o)
    BY <1>1, <1>5
  <2>3. CASE alive = {}
    BY <1>2, <1>5, <2>3 DEF Counted
  <2>4. CASE alive # {}
    <3>1. ~Making(t) /\ ~Window(t)
      BY <1>1, <1>2, <2>1, <2>4 DEF Making, Window, Single, Loadable
    <3> QED BY <1>2, <1>3, <1>5, <2>2, <3>1, CountedQuiet
  <2> QED BY <2>3, <2>4
<1>6. CASE ptr[h] \in alive
  <2>0. PICK o : o = ptr[h]
    OBVIOUS
  <2>1. \A x \in alive : x = o
    BY <2>0, <1>3, <1>4, <1>6
  <2>2. o \in Pools /\ o \in made /\ count' = [count EXCEPT ![o] = @ + 1]
    BY <2>0, <1>2, <1>3, <1>6
  <2>3. count'[o] = count[o] + 1 /\ \A x \in Pools \ {o} : count'[x] = count[x]
    BY <1>3, <2>2
  <2>4. Cardinality(Owners(o)') = Cardinality(Owners(o)) + 1 /\ Cardinality(Owners(o)) \in Nat
    BY <2>0, <1>1, OwnersFinite
  <2>5. count[o] = skew[o] + Cardinality(Owners(o)) /\ skew[o] \in Int /\ count[o] \in Int
    BY <2>0, <1>3, <1>6, <2>2 DEF Counted
  <2>6. \A x \in alive : count'[x] = skew'[x] + Cardinality(Owners(x)')
    BY <1>2, <2>1, <2>3, <2>4, <2>5
  <2>7. count'[o] <= 0 => DeletePending(o)'
    <3>1. count'[o] <= 0 => count[o] <= 0 /\ count[o] # 0
      BY <2>3, <2>5
    <3>2. count'[o] <= 0 => DeletePending(o)
      BY <2>0, <1>6, <3>1 DEF Counted
    <3> QED BY <1>2, <1>3, <3>2, PendingStays
  <2>8. \A x \in Pools \ made' : count'[x] = 0 /\ skew'[x] = 0
    BY <1>2, <2>2, <2>3 DEF Counted
  <2>9. (\A x \in alive : count[x] = skew[x] + Cardinality(Owners(x)))'
    BY <1>2, <2>6
  <2>10. (\A x \in alive : count[x] <= 0 => DeletePending(x))'
    BY <1>2, <2>1, <2>7
  <2> QED BY <1>2, <2>8, <2>9, <2>10 DEF Counted
<1> QED BY <1>5, <1>6

LEMMA DecreaseCounted ==
  ASSUME Shape, Single, Counted, Followed, NEW t \in Threads, Decrease(t)
  PROVE  Counted'
<1>1. PICK h \in Handles :
        /\ Next1(t) = <<"dec", h>> /\ (Making(t) => Making(t)')
        /\ \/ ptr[h] \notin alive /\ Op(t)' = "null"
           \/ /\ ptr[h] \in alive /\ todo'[t] # <<>>
              /\ Next1(t)' = IF count[ptr[h]] = 1 THEN <<"delete", ptr[h]>> ELSE <<"log", ptr[h]>>
        /\ \A o : /\ h \in Owners(o) <=> ptr[h] = o
                  /\ Owners(o)' = Owners(o) \ {h}
  BY DecreaseOwners
<1>2. /\ UNCHANGED <<skew, alive, made>> /\ Op(t) = "dec" /\ Step(t)
      /\ IF ptr[h] \in alive THEN count' = [count EXCEPT ![ptr[h]] = @ - 1] ELSE UNCHANGED count
  <2>1. Step(t)
    BY DEF Step, Access
  <2> QED BY <1>1, <2>1 DEF Decrease
<1>3. /\ \A u \in Threads \ {t} : UNCHANGED <<todo[u], pc[u]>>
      /\ alive \subseteq made /\ made \subseteq Pools /\ skew \in [Pools -> Int] /\ count \in [Pools -> Int]
  BY <1>2, Frame DEF Shape, TypeOK
<1>4. ptr[h] \in made \cup {Nil} /\ \A o1, o2 \in made : o1 = o2
  BY DEF Single, PtrsMade, OneMade
<1>5. CASE ptr[h] \notin alive
  <2>1. \A o \in alive : Owners(o)' = Owners(o)
    BY <1>1, <1>5
  <2>2. ~Window(t)
    BY <1>2 DEF Window
  <2> QED BY <1>1, <1>2, <1>3, <1>5, <2>1, <2>2, CountedQuiet
<1>6. CASE ptr[h] \in alive
  <2>0. PICK o : o = ptr[h]
    OBVIOUS
  <2>1. \A x \in alive : x = o
    BY <2>0, <1>3, <1>4, <1>6
  <2>2. o \in Pools /\ o \in made /\ count' = [count EXCEPT ![o] = @ - 1]
    BY <2>0, <1>2, <1>3, <1>6
  <2>3. count'[o] = count[o] - 1 /\ \A x \in Pools \ {o} : count'[x] = count[x]
    BY <1>3, <2>2
  <2>4. /\ Cardinality(Owners(o)') = Cardinality(Owners(o)) - 1 /\ Cardinality(Owners(o)) \in Nat
        /\ Cardinality(Owners(o)) >= 1
    BY <2>0, <1>1, OwnersFinite
  <2>5. count[o] = skew[o] + Cardinality(Owners(o)) /\ skew[o] \in Int /\ count[o] \in Int
    BY <2>0, <1>3, <1>6, <2>2 DEF Counted
  <2>6. \A x \in alive : count'[x] = skew'[x] + Cardinality(Owners(x)')
    BY <1>2, <2>1, <2>3, <2>4, <2>5
  <2>7. count'[o] <= 0 => DeletePending(o)'
    <3>1. CASE count[o] = 1
      <4>1. todo'[t] # <<>> /\ Next1(t)' = <<"delete", o>>
        BY <2>0, <1>1, <1>6, <3>1
      <4> QED BY <4>1 DEF DeletePending
    <3>2. CASE count[o] <= 0
      <4>1. DeletePending(o)
        BY <2>0, <1>6, <2>4, <2>5, <3>2 DEF Counted
      <4> QED BY <1>2, <1>3, <4>1, PendingStays
    <3>3. CASE count[o] > 1
      BY <2>3, <2>5, <3>3
    <3> QED BY <2>5, <3>1, <3>2, <3>3
  <2>8. \A x \in Pools \ made' : count'[x] = 0 /\ skew'[x] = 0
    BY <1>2, <2>2, <2>3 DEF Counted
  <2>9. (\A x \in alive : count[x] = skew[x] + Cardinality(Owners(x)))'
    BY <1>2, <2>6
  <2>10. (\A x \in alive : count[x] <= 0 => DeletePending(x))'
    BY <1>2, <2>1, <2>7
  <2> QED BY <1>2, <2>8, <2>9, <2>10 DEF Counted
<1> QED BY <1>5, <1>6

LEMMA DeleteCounted ==
  ASSUME Shape, Single, Counted, Followed, NEW t \in Threads, DeletePool(t)
  PROVE  Counted'
<1>1. UNCHANGED <<count, skew, made>> /\ Op(t) = "delete" /\ Step(t)
  BY DEF DeletePool, Step, Access
<1>2. CASE UNCHANGED <<alive, todo>>
  <2>1. \A o \in alive : Owners(o)' = Owners(o)
    BY QuietOwners
  <2>2. ~Making(t) /\ ~Window(t)
    BY <1>1 DEF Making, Window
  <2>3. \A u \in Threads \ {t} : UNCHANGED <<todo[u], pc[u]>>
    BY <1>1, Frame
  <2> QED BY <1>1, <1>2, <2>1, <2>2, <2>3, CountedQuiet
<1>3. CASE alive' = alive \ {Next1(t)[2]} /\ Done(t)
  <2>1. todo'[t] = Tail(todo[t]) /\ UNCHANGED <<ptr, pc, exiting, made>> /\ mishaps \subseteq mishaps'
    BY <1>3 DEF DeletePool, Done, Shape
  <2>2. PICK o \in made : Next1(t) \in {<<"delete", o>>, <<"log", o>>}
    BY <1>1, <2>1, AfterStep
  <2>3. alive' = {}
    BY <1>3, <2>2 DEF Single, OneMade, Shape, TypeOK
  <2> QED BY <1>1, <2>3 DEF Counted
<1> QED BY <1>2, <1>3 DEF DeletePool

LEMMA MakesCounted ==
  ASSUME Shape, Single, Counted, Followed, NEW t \in Threads, Recheck(t), ptr[Instance] = Nil
  PROVE  Counted'
<1>1. /\ Early /\ Making(t)' /\ made = {} /\ alive = {} /\ UNCHANGED <<ptr, count, skew, mishaps>>
  BY RecheckMakes
<1>2. PICK o \in Pools : made' = {o} /\ alive' = {o}
  BY RecheckMakes
<1>3. \A x \in Pools : count[x] = 0 /\ skew[x] = 0
  BY <1>1 DEF Counted
<1>4. Owners(o)' = {}
  BY <1>1, <1>2, EarlyOps, ThreadsAssumption DEF Owners
<1>5. Starting'
  BY <1>1 DEF Starting
<1>6. (\A x \in alive : count[x] = skew[x] + Cardinality(Owners(x)))'
  BY <1>1, <1>2, <1>3, <1>4, FS_EmptySet
<1> QED BY <1>1, <1>2, <1>3, <1>5, <1>6 DEF Counted

LEMMA StepsCounted ==
  ASSUME Shape, Single, Counted, [Next]_vars
  PROVE  Counted'
<1>1. CASE UNCHANGED vars
  <2>1. \A o : Owners(o)' = Owners(o) /\ DeletePending(o)' = DeletePending(o)
    BY <1>1 DEF vars, Owners, Between, DeletePending, Op, Next1
  <2>2. Starting' = Starting
    BY <1>1 DEF vars, Starting, Making, Window, Op, Next1
  <2>3. UNCHANGED <<count, skew, alive, made>>
    BY <1>1 DEF vars
  <2> QED BY <2>1, <2>2, <2>3 DEF Counted
<1>2. CASE Followed /\ Exit
  <2>1. Main \in Threads
    BY ThreadsAssumption
  <2>2. \A u \in Threads \ {Main} : UNCHANGED <<todo[u], pc[u]>>
    BY <1>2, <2>1, Frame
  <2>3. \A o \in alive : Owners(o)' = Owners(o)
    BY <1>2, <2>1, QuietOwners
  <2>4. Op(Main) = "none" /\ ~Making(Main) /\ ~Window(Main)
    BY <1>2 DEF Exit, Ready, Op, Making, Window
  <2>5. UNCHANGED <<count, skew, alive, made>>
    BY <1>2 DEF Exit
  <2> QED BY <2>1, <2>2, <2>3, <2>4, <2>5, CountedQuiet
<1>3. ASSUME Followed, NEW t \in Threads, Step(t) \/ Call(t)
      PROVE  Counted'
  <2>0. (\A u \in Threads \ {t} : UNCHANGED <<todo[u], pc[u]>>) /\ alive \subseteq Pools
    BY <1>3, Frame DEF Shape, TypeOK
  <2>1. CASE LoadPtr(t)
    <3>1. /\ UNCHANGED <<count, skew, alive, made>>
          /\ Op(t) # "delete" /\ ~Making(t) /\ ~Window(t)
      BY <2>1 DEF LoadPtr, Making, Window
    <3>2. \A o \in alive : Owners(o)' = Owners(o)
      BY <1>3, <2>0, <2>1, LoadOwners
    <3> QED BY <2>0, <3>1, <3>2, CountedQuiet
  <2>2. CASE StorePtr(t)
    <3>1. UNCHANGED <<count, skew, alive, made>> /\ Op(t) \in {"raw", "null"}
      BY <2>2 DEF StorePtr
    <3>2. \A o \in alive : Owners(o)' = Owners(o)
      BY <1>3, <2>0, <2>2, <3>1, NullOwners, RawOwners
    <3>3. Making(t) \/ Window(t) => Making(t)' \/ Window(t)'
      <4>1. CASE Op(t) = "null"
        BY <2>2, <4>1, NullStep DEF Making, Window
      <4>2. CASE Op(t) = "raw"
        BY <2>2, <4>2, RawStep DEF Making, Window
      <4> QED BY <3>1, <4>1, <4>2
    <3> QED BY <2>0, <3>1, <3>2, <3>3, CountedQuiet
  <2>3. CASE LogCount(t) \/ Unlock(t) \/ Check(t) \/ Lock(t) \/ (Recheck(t) /\ ptr[Instance] # Nil) \/ Call(t)
    <3>1. UNCHANGED <<count, skew, alive, made>>
      BY <2>3 DEF LogCount, Unlock, Check, Lock, Recheck, Call, GetInstance, Drop, Construct, Assign,
                  AssignPointer, Start
    <3>2. Op(t) \in {"log", "unlock", "none"} 
      BY <1>3, <2>3, CheckSingle, RecheckStays DEF LogCount, Unlock, Lock, Call, GetInstance, Drop, Construct, Assign,
                  AssignPointer, Ready, Shape, Plan, Op
    <3>3. ~Making(t) /\ ~Window(t)
      BY <3>2 DEF Making, Window
    <3>4. \A o \in alive : Owners(o)' = Owners(o)
      BY <1>3, <2>3, QuietOwners
    <3> QED BY <2>0, <3>1, <3>2, <3>3, <3>4, CountedQuiet
  <2>4. CASE CopyPtr(t) \/ Increase(t) \/ Decrease(t) \/ DeletePool(t) \/ (Recheck(t) /\ ptr[Instance] = Nil)
    BY <1>3, <2>4, CopyCounted, IncreaseCounted, DecreaseCounted, DeleteCounted, MakesCounted
  <2> QED BY <1>3, <2>1, <2>2, <2>3, <2>4 DEF Step, Access
<1> QED BY <1>1, <1>2, <1>3 DEF Next

LEMMA StartsCounted ==
  ASSUME Init
  PROVE  Counted
BY DEF Init, Counted

(* The counter and the owners agree, with the two layers that this rests on. *)
THEOREM CountKept == Spec => [](Shape /\ Single /\ Counted)
<1>1. Init => Shape /\ Single /\ Counted
  BY StartsSingle, StartsCounted
<1>2. Shape /\ Single /\ Counted /\ [Next]_vars => Shape' /\ Single' /\ Counted'
  BY StepsSingle, StepsCounted
<1> QED BY <1>1, <1>2, PTL DEF Spec

(* The counter of the pool equals the number of sptrs that own it, less the  *)
(* copies of the implicit assignment, at every point of every operation; and *)
(* a pool with the counter at zero is being made or about to be deleted.     *)
THEOREM CountsAllOwners == Spec => []CountsOwners
<1>1. Shape /\ Single /\ Counted => CountsOwners
  <2> SUFFICES ASSUME Shape, Single, Counted
               PROVE  CountsOwners
    OBVIOUS
  <2>1. TypeOK
    BY DEF Shape
  <2>2. ASSUME NEW o \in alive
        PROVE  count[o] = skew[o] + Cardinality({h \in Handles : ptr[h] = o /\ ~Between(h)})
    BY DEF Counted, Owners
  <2>3. ASSUME NEW o \in alive, count[o] = 0
        PROVE  \E t \in Threads, i \in 1..3 : i \in DOMAIN todo[t] /\
                 todo[t][i] \in {<<"delete", o>>, <<"raw", Instance, o>>, <<"inc", Instance>>}
    <3>1. CASE DeletePending(o)
      <4>1. PICK t \in Threads : todo[t] # <<>> /\ Next1(t) = <<"delete", o>>
        BY <3>1 DEF DeletePending
      <4>2. 1 \in 1..3 /\ 1 \in DOMAIN todo[t] /\ todo[t][1] = <<"delete", o>>
        <5>1. Op(t) = "delete"
          BY <4>1 DEF Op
        <5>2. AfterDecrease(t)
          BY <5>1, PlanOfOp DEF Shape
        <5>3. Len(todo[t]) > 1
          BY <5>2 DEF AfterDecrease
        <5> QED BY <4>1, <5>3 DEF Next1
      <4> QED BY <4>2, Zenon
    <3>2. CASE Starting
      <4>1. PICK t \in Threads : Making(t) \/ Window(t)
        BY <3>2 DEF Starting
      <4>2. ToUnlock(todo[t]) /\ o \in made /\ \A x \in made : x = o
        BY <4>1, PlanOfOp DEF Making, Window, Shape, TypeOK, Single, OneMade
      <4>3. todo[t] # << <<"unlock">> >>
        BY <4>1 DEF Making, Window, Op, Next1
      <4>4. CASE todo[t] = << <<"inc", Instance>>, <<"unlock">> >>
        BY <4>4
      <4>5. ASSUME NEW x \in made, 
                   \/ todo[t] = << <<"raw", Instance, x>>, <<"inc", Instance>>, <<"unlock">> >>
                   \/ todo[t] = << <<"null", Instance>>, <<"raw", Instance, x>>, <<"inc", Instance>>, <<"unlock">> >>
                   \/ todo[t] = << <<"dec", Instance>>, <<"null", Instance>>, <<"raw", Instance, x>>,
                                   <<"inc", Instance>>, <<"unlock">> >>
            PROVE  \E i \in 1..3 : i \in DOMAIN todo[t] /\ todo[t][i] = <<"raw", Instance, o>>
        BY <4>2, <4>5
      <4> QED BY <4>2, <4>3, <4>4, <4>5 DEF ToUnlock
    <3>3. DeletePending(o) \/ Starting
      BY <2>3 DEF Counted
    <3> QED BY <3>1, <3>2, <3>3
  <2> QED BY <2>1, <2>2, <2>3 DEF CountsOwners
<1> QED BY <1>1, CountKept, PTL

-----------------------------------------------------------------------------
(* Deletion.                                                                *)

(* No owner that does not count, and no pointer copied in the open.          *)
Clean == mishaps \cap {"raced", "self_assigned", "uncounted"} = {}

(* An implicit assignment puts the counter too low only where it makes such  *)
(* an owner; one that forgets to count down puts it too high.               *)
NeverShort == "uncounted" \notin mishaps => \A o \in Pools : skew[o] >= 0
InFlight(o) == \E t \in Threads : Op(t) = "inc" /\ ptr[Next1(t)[2]] = o
Gone(o) == Owners(o) = {} /\ ~InFlight(o)
Doomed(o) == o \notin alive \/ DeletePending(o)

(* Nobody owns, or is about to be counted for, a pool that has been counted  *)
(* down to zero.                                                            *)
NoUser == \A o \in made : Clean /\ Doomed(o) => Gone(o)

(* Until the pool that instance_ got is counted, nobody else points to it.   *)
Unshared ==
  \A t \in Threads : Window(t) /\ Clean => \A h \in Handles \ {Instance} : ptr[h] = Nil

(* What GetInstance returns is counted while instance_ still owns it.        *)
Returned ==
  \A t \in Threads : Op(t) = "inc" /\ Next1(t)[2] = Result(t) => ptr[Result(t)] = ptr[Instance]

LEMMA IncreaseHandle ==
  ASSUME Shape, NEW t \in Threads, Op(t) = "inc"
  PROVE  \E g \in Handles : /\ Next1(t) = <<"inc", g>>
                            /\ (g \in Mine(t) /\ pc[t] = "idle") \/ (g = Instance /\ Window(t))
<1>1. CASE pc[t] = "idle" /\ ToIncrease(t, todo[t])
  <2>1. \E g \in Mine(t) : Next1(t) = <<"inc", g>>
    BY <1>1 DEF ToIncrease, Mine, Next1
  <2> QED BY <1>1, <2>1, HandlesApart
<1>2. CASE pc[t] = "hold" /\ ToUnlock(todo[t])
  <2>1. Next1(t) = <<"inc", Instance>>
    BY <1>2 DEF ToUnlock, Op, Next1
  <2> QED BY <1>2, <2>1, HandlesApart DEF Window
<1> QED BY <1>1, <1>2, PlanOfOp DEF Shape

LEMMA BetweenInstance ==
  ASSUME Shape, NEW t \in Threads, BetweenIn(todo[t], Instance)
  PROVE  (t = Main /\ exiting) \/ Window(t) \/ Making(t)
<1>1. (t = Main /\ exiting) \/ pc[t] = "hold"
  BY BetweenOnly, HandlesApart
<1>2. Op(t) \in {"inc", "null", "delete", "log"}
  BY BetweenIns DEF Op, Next1
<1>3. pc[t] = "hold" => Op(t) \in {"inc", "null"}
  BY <1>2, PlanOfOp DEF Shape
<1> QED BY <1>1, <1>3 DEF Window, Making

(* A thread that is to copy or has copied instance_ finds it owned, or still *)
(* waiting to be counted.                                                   *)
LEMMA InstanceOwner ==
  ASSUME Shape, Single, Followed, NEW t \in Threads, Getting(t), Op(t) \in {"load", "inc"}
  PROVE  Instance \in Owners(ptr[Instance]) \/ \E v \in Threads : Window(v)
<1>1. ASSUME Between(Instance)
      PROVE  \E v \in Threads : Window(v)
  <2>1. PICK v \in Threads : BetweenIn(todo[v], Instance)
    BY <1>1, BetweenByPlans
  <2>2. ~exiting
    BY Alone
  <2>3. ~Making(v)
    BY EarlyOps DEF Early
  <2> QED BY <2>1, <2>2, <2>3, BetweenInstance
<1> QED BY <1>1, HandlesApart DEF Owners

(* A handle that the thread is in the middle of nothing with owns its pool.  *)
LEMMA OwnMine ==
  ASSUME Shape, Single, Followed, NEW t \in Threads, NEW s \in Mine(t), ~BetweenIn(todo[t], s)
  PROVE  s \in Owners(ptr[s])
<1>1. ~Between(s)
  BY NotBetweenOther, BetweenByPlans
<1> QED BY <1>1, HandlesApart DEF Owners

(* Whoever is to count a pool up took it from a handle that owns it still.   *)
LEMMA FlightOwner ==
  ASSUME Shape, Single, Followed, Unshared, Returned, NEW u \in Threads, Op(u) = "inc",
         NEW o \in made, o = ptr[Next1(u)[2]], Clean
  PROVE  \/ \E s \in Mine(u) : s \in Owners(o)
         \/ Getting(u) /\ Instance \in Owners(o)
         \/ Window(u) /\ o = ptr[Instance] /\ \A h \in Handles \ {Instance} : ptr[h] = Nil
<1>1. PICK g \in Handles : /\ Next1(u) = <<"inc", g>>
                           /\ (g \in Mine(u) /\ pc[u] = "idle") \/ (g = Instance /\ Window(u))
  BY IncreaseHandle
<1>2. ptr[g] = o /\ o # Nil
  BY <1>1, ThreadsAssumption DEF Shape, TypeOK
<1>3. CASE g = Instance /\ Window(u)
  BY <1>2, <1>3 DEF Unshared
<1>4. CASE g \in Mine(u) /\ pc[u] = "idle"
  <2>1. ToIncrease(u, todo[u])
    BY <1>4, PlanOfOp DEF Shape
  <2>2. \A s : BetweenIn(todo[u], s) <=> s = g
    <3>1. todo[u] # <<>> /\ Head(todo[u]) = <<"inc", g>>
      BY <1>1 DEF Op, Next1
    <3> QED BY <3>1, BetweenIns
  <2>3. ASSUME NEW s \in Mine(u), s # g, ptr[s] = o
        PROVE  \E x \in Mine(u) : x \in Owners(o)
    <3>1. s \in Owners(ptr[s])
      BY <2>2, <2>3, OwnMine
    <3> QED BY <2>3, <3>1
  <2>4. CASE g = Result(u)
    <3>1. ptr[Instance] = o /\ Getting(u)
      BY <1>1, <1>2, <2>4 DEF Returned, Getting
    <3>2. \A v \in Threads : ~Window(v)
      <4>1. g \in Handles \ {Instance}
        BY <1>4, HandlesApart
      <4> QED BY <1>2, <3>1, <4>1 DEF Unshared
    <3> QED BY <3>1, <3>2, InstanceOwner
  <2>5. CASE g # Result(u)
    <3>1. CASE \E d \in Locals(u), s \in Mine(u) : Copied(u, d, s) /\ ptr[d] = ptr[s]
                  /\ todo[u] = << <<"inc", d>>, <<"dec", s>>, <<"null", s>> >>
      <4>1. PICK d \in Locals(u), s \in Mine(u) : Copied(u, d, s) /\ ptr[d] = ptr[s]
                  /\ todo[u] = << <<"inc", d>>, <<"dec", s>>, <<"null", s>> >>
        BY <3>1
      <4>2. Next1(u) = <<"inc", d>>
        BY <4>1 DEF Next1
      <4>3. d = g
        BY <1>1, <4>2
      <4> QED BY <1>2, <2>3, <4>1, <4>3 DEF Copied
    <3>2. CASE \E d \in Locals(u) : Given(u, d, ptr[d]) /\ todo[u] = << <<"inc", d>> >>
      <4>1. PICK d \in Locals(u) : Given(u, d, ptr[d]) /\ todo[u] = << <<"inc", d>> >>
        BY <3>2
      <4>2. Next1(u) = <<"inc", d>>
        BY <4>1 DEF Next1
      <4>3. d = g
        BY <1>1, <4>2
      <4>4. PICK s \in Locals(u) \ {d} : ptr[s] = o
        BY <1>2, <4>1, <4>3 DEF Given, Clean
      <4> QED BY <2>3, <4>3, <4>4 DEF Mine
    <3>3. CASE \E p \in Locals(u), r \in {Result(u)} : 
                 todo[u] = << <<"inc", r>>, <<"load", p, r>>, <<"inc", p>>, <<"dec", r>>, <<"null", r>> >>
      <4>1. Next1(u) = <<"inc", Result(u)>>
        BY <3>3 DEF Next1
      <4> QED BY <1>1, <2>5, <4>1
    <3> QED BY <2>1, <3>1, <3>2, <3>3 DEF ToIncrease
  <2> QED BY <2>4, <2>5
<1> QED BY <1>1, <1>3, <1>4

Steps(t) == Step(t) \/ Call(t) \/ (t = Main /\ Exit)

(* What a step may leave its thread with next.                              *)
LEMMA NextOps ==
  ASSUME Shape, Single, Followed, NEW t \in Threads, Steps(t)
  PROVE  /\ Op(t)' = "inc" => LoadPtr(t) \/ (StorePtr(t) /\ Op(t) = "raw")
         /\ Op(t)' = "delete" => Decrease(t) \/ (DeletePool(t) /\ UNCHANGED <<todo, alive>>)
<1>1. LoadPtr(t) => Op(t)' = "inc"
  BY LoadStep
<1>2. CopyPtr(t) => Op(t)' = "none"
  BY CopyOwners
<1>3. StorePtr(t) => (Op(t) = "raw" /\ Op(t)' = "inc") \/ Op(t)' \in {"none", "load", "raw"}
  BY NullStep, RawStep DEF StorePtr
<1>4. Increase(t) => Op(t)' \in {"none", "dec", "unlock", "load"}
  BY IncreaseOwners
<1>5. Decrease(t) => Op(t)' \in {"null", "delete", "log"}
  BY DecreaseOwners DEF Op
<1>6. LogCount(t) => Op(t)' = "null"
  <2> SUFFICES ASSUME LogCount(t)
               PROVE  Op(t)' = "null"
    OBVIOUS
  <2>1. Op(t) = "log" /\ todo'[t] = Tail(todo[t]) /\ UNCHANGED <<ptr, pc, exiting, made>> /\ mishaps \subseteq mishaps'
    BY DEF LogCount, Done, Shape
  <2> QED BY <2>1, AfterStep
<1>7. DeletePool(t) => Op(t)' = "null" \/ UNCHANGED <<todo, alive>>
  <2> SUFFICES ASSUME DeletePool(t), Done(t)
               PROVE  Op(t)' = "null"
    BY DEF DeletePool
  <2>1. Op(t) = "delete" /\ todo'[t] = Tail(todo[t]) /\ UNCHANGED <<ptr, pc, exiting, made>> /\ mishaps \subseteq mishaps'
    BY DEF DeletePool, Done, Shape
  <2> QED BY <2>1, AfterStep
<1>8. DeletePool(t) /\ UNCHANGED todo => Op(t)' = "delete"
  BY DEF DeletePool, Op, Next1
<1>9. Unlock(t) \/ Check(t) \/ Lock(t) \/ Recheck(t) \/ GetInstance(t) => Op(t)' \in {"load", "none", "dec", "unlock"}
  BY UnlockSingle, CheckSingle, LockSingle, RecheckStays, RecheckMakes, GetInstanceSingle
<1>10. Drop(t) \/ Construct(t) \/ Assign(t) \/ AssignPointer(t) => Op(t)' \in {"dec", "load", "copy"}
  BY PlanOfCall DEF Single, PtrsMade
<1>11. t = Main /\ Exit => Op(t)' = "dec"
  BY ExitSingle
<1> QED BY <1>1, <1>2, <1>3, <1>4, <1>5, <1>6, <1>7, <1>8, <1>9, <1>10, <1>11 DEF Steps, Step, Call, Access

(* What a step does to the pointers: one handle, the thread's own or         *)
(* instance_, and instance_ only before it is published or at the end.      *)
LEMMA PointerStep ==
  ASSUME Shape, Single, Followed, NEW t \in Threads, Steps(t)
  PROVE  /\ \A u \in Threads \ {t} : \A h \in Mine(u) : ptr'[h] = ptr[h]
         /\ ptr'[Instance] # ptr[Instance] => exiting \/ (Making(t) /\ Early)
         /\ ptr' # ptr => LoadPtr(t) \/ CopyPtr(t) \/ StorePtr(t)
<1>1. DOMAIN ptr = Handles /\ \A u \in Threads : Mine(u) \subseteq Handles
  BY HandlesApart DEF Shape, TypeOK
<1>2. ptr' # ptr => LoadPtr(t) \/ CopyPtr(t) \/ StorePtr(t)
  BY DEF Steps, Step, Access, Increase, Decrease, LogCount, DeletePool, Unlock, Check, Lock, Recheck, Call, GetInstance,
         Drop, Construct, Assign, AssignPointer, Start, Exit
<1>3. ASSUME ptr' # ptr
      PROVE  \E h \in Handles :
               /\ \A g \in Handles \ {h} : ptr'[g] = ptr[g]
               /\ h \in Mine(t) \/ (h = Instance /\ (exiting \/ Making(t)))
  <2>1. CASE LoadPtr(t)
    <3>1. PICK d \in Mine(t), s \in Handles : ptr' = [ptr EXCEPT ![d] = ptr[s]]
      BY <2>1, LoadStep
    <3> QED BY <1>1, <3>1
  <2>2. CASE CopyPtr(t)
    <3>1. PICK d \in Mine(t), s \in Mine(t) : ptr' = [ptr EXCEPT ![d] = ptr[s]]
      BY <2>2, CopyStep
    <3> QED BY <1>1, <3>1
  <2>3. CASE StorePtr(t) /\ Op(t) = "null"
    <3>1. PICK h \in Handles : /\ ptr' = [ptr EXCEPT ![h] = Nil]
                               /\ h \in Mine(t) \/ (h = Instance /\ (exiting \/ Making(t)))
      BY <2>3, NullStep
    <3> QED BY <1>1, <3>1
  <2>4. CASE StorePtr(t) /\ Op(t) = "raw"
    <3>1. PICK h \in Handles, o \in made : /\ ptr' = [ptr EXCEPT ![h] = o]
                                           /\ h \in Mine(t) \/ (h = Instance /\ (exiting \/ Making(t)))
      BY <2>4, RawStep DEF Mine
    <3> QED BY <1>1, <3>1
  <2> QED BY <1>2, <1>3, <2>1, <2>2, <2>3, <2>4 DEF StorePtr
<1>4. CASE ptr' = ptr
  BY <1>4
<1>5. CASE ptr' # ptr
  <2>1. PICK h \in Handles : /\ \A g \in Handles \ {h} : ptr'[g] = ptr[g]
                             /\ h \in Mine(t) \/ (h = Instance /\ (exiting \/ Making(t)))
    BY <1>3, <1>5
  <2>2. \A u \in Threads \ {t} : h \notin Mine(u)
    BY <2>1, HandlesApart
  <2>3. \A u \in Threads \ {t} : \A g \in Mine(u) : ptr'[g] = ptr[g]
    BY <1>1, <2>1, <2>2
  <2>4. ptr'[Instance] # ptr[Instance] => h = Instance
    BY <2>1, HandlesApart DEF Shape, TypeOK
  <2>5. Making(t) => Early
    BY DEF Early
  <2> QED BY <1>2, <2>1, <2>3, <2>4, <2>5, HandlesApart
<1> QED BY <1>4, <1>5

LEMMA InstanceStays ==
  ASSUME Shape, Single, Followed, NEW t \in Threads, Steps(t), NEW u \in Threads, Getting(u), Op(u) = "inc"
  PROVE  ptr'[Instance] = ptr[Instance]
<1>1. ~exiting
  BY Alone
<1>2. ~Early
  BY EarlyOps
<1> QED BY <1>1, <1>2, PointerStep

LEMMA CleanBefore ==
  ASSUME Shape, NEW t \in Threads, Steps(t), Clean'
  PROVE  Clean
<1>1. mishaps \subseteq mishaps'
  BY Frame DEF Steps
<1> QED BY <1>1 DEF Clean

LEMMA NeverShortKept ==
  ASSUME Shape, Single, Followed, NeverShort, NEW t \in Threads, Steps(t)
  PROVE  NeverShort'
<1> SUFFICES ASSUME "uncounted" \notin mishaps', NEW o \in Pools
             PROVE  skew'[o] >= 0
  BY DEF NeverShort
<1>1. mishaps \subseteq mishaps' /\ skew \in [Pools -> Int]
  BY Frame DEF Steps, Shape
<1>2. skew[o] >= 0 /\ skew[o] \in Int
  BY <1>1 DEF NeverShort
<1>3. CASE CopyPtr(t)
  <2>1. PICK d, s : Next1(t) = <<"copy", d, s>>
    BY <1>3, CopyStep
  <2>2. ptr[s] = o => ptr[d] = o
    <3>1. ptr[s] \in {ptr[d], Nil}
      BY <1>3, <2>1 DEF CopyPtr
    <3> QED BY <3>1, ThreadsAssumption
  <2>3. skew'[o] = skew[o] + (IF ptr[d] = o THEN 1 ELSE 0) - (IF ptr[s] = o THEN 1 ELSE 0)
    BY <1>3, <2>1 DEF CopyPtr
  <2> QED BY <1>2, <2>2, <2>3
<1>4. CASE ~CopyPtr(t)
  <2>1. UNCHANGED skew
    BY <1>4 DEF Steps, Step, Access, LoadPtr, StorePtr, Increase, Decrease, LogCount, DeletePool, Unlock, Check, Lock,
       Recheck, Call, GetInstance, Drop, Construct, Assign, AssignPointer, Start, Exit
  <2> QED BY <1>2, <2>1
<1> QED BY <1>3, <1>4

LEMMA ReturnedKept ==
  ASSUME Shape, Single, Followed, Returned, NEW t \in Threads, Steps(t)
  PROVE  Returned'
<1> SUFFICES ASSUME NEW u \in Threads, Op(u)' = "inc", Next1(u)'[2] = Result(u)
             PROVE  ptr'[Result(u)] = ptr'[Instance]
  BY DEF Returned, Result
<1>1. CASE u # t
  <2>1. UNCHANGED <<todo[u], pc[u]>>
    BY <1>1, Frame DEF Steps
  <2>2. Op(u) = "inc" /\ Next1(u)[2] = Result(u)
    BY <2>1, OthersSame
  <2>3. ptr[Result(u)] = ptr[Instance] /\ Getting(u)
    BY <2>2 DEF Returned, Getting
  <2>4. ptr'[Instance] = ptr[Instance] /\ ptr'[Result(u)] = ptr[Result(u)]
    BY <1>1, <2>2, <2>3, InstanceStays, PointerStep DEF Mine
  <2> QED BY <2>3, <2>4
<1>2. CASE u = t /\ LoadPtr(t)
  <2>1. PICK d \in Mine(t), s \in Handles :
          ptr' = [ptr EXCEPT ![d] = ptr[s]] /\ Next1(t)' = <<"inc", d>> /\ (d = Result(t) => s = Instance)
    BY <1>2, LoadStep
  <2>2. d = Result(t) /\ s = Instance
    BY <1>2, <2>1 DEF Next1
  <2>3. d # Instance /\ d \in Handles /\ DOMAIN ptr = Handles
    BY HandlesApart DEF Shape, TypeOK
  <2> QED BY <1>2, <2>1, <2>2, <2>3
<1>3. CASE u = t /\ StorePtr(t) /\ Op(t) = "raw"
  <2>1. PICK d \in Handles : Next1(t)' = <<"inc", d>> /\ (d \in Locals(t) \/ d = Instance)
    BY <1>3, RawStep
  <2>2. d = Result(t)
    BY <1>3, <2>1 DEF Next1
  <2> QED BY <2>1, <2>2, HandlesApart DEF Mine
<1> QED BY <1>1, <1>2, <1>3, NextOps

LEMMA UnsharedKept ==
  ASSUME Shape, Single, Counted, Followed, Unshared, NEW t \in Threads, Steps(t)
  PROVE  Unshared'
<1> SUFFICES ASSUME NEW u \in Threads, Window(u)', Clean', NEW h \in Handles \ {Instance}
             PROVE  ptr'[h] = Nil
  BY DEF Unshared
<1>0. /\ DOMAIN ptr = Handles /\ Instance \in Handles /\ Instance \notin Mine(t)
      /\ Mine(t) \subseteq Handles /\ Locals(t) \subseteq Mine(t) /\ Nil \notin made
  BY HandlesApart, ThreadsAssumption DEF Shape, TypeOK, Mine
<1>1. CASE u = t
  <2>1. Op(t)' = "inc" /\ pc'[t] = "hold"
    BY <1>1 DEF Window
  <2>2. ~LoadPtr(t)
    BY <2>1, LoadStep DEF LoadPtr
  <2>3. StorePtr(t) /\ Op(t) = "raw"
    BY <2>1, <2>2, NextOps
  <2>4. PICK o \in made : ptr' = [ptr EXCEPT ![Instance] = o] /\ Making(t)
    BY <2>1, <2>3, RawStep DEF StorePtr
  <2>5. ptr[h] = Nil
    BY <2>4, EarlyOps DEF Early
  <2> QED BY <1>0, <2>4, <2>5
<1>2. CASE u # t
  <2>1. UNCHANGED <<todo[u], pc[u]>>
    BY <1>2, Frame DEF Steps
  <2>2. Window(u) /\ Getting(u) /\ Op(u) = "inc"
    <3>1. Window(u)
      BY <2>1, OthersSame
    <3> QED BY <3>1 DEF Window, Getting
  <2>3. ptr'[Instance] = ptr[Instance]
    BY <2>2, InstanceStays
  <2>4. ptr[Instance] \in made
    BY <1>0, <2>2 DEF Window, Single, Loadable, PtrsMade
  <2>5. Clean
    BY CleanBefore
  <2>6. \A g \in Handles \ {Instance} : ptr[g] = Nil
    BY <2>2, <2>5 DEF Unshared
  <2>7. mishaps' \cap {"raced", "self_assigned", "uncounted"} = {} /\ mishaps \subseteq mishaps'
    BY Frame DEF Clean, Steps
  <2>8. CASE ptr' = ptr
    BY <2>6, <2>8
  <2>9. CASE LoadPtr(t)
    <3>1. PICK d \in Mine(t), s \in Handles :
            /\ Next1(t) = <<"load", d, s>> /\ ptr' = [ptr EXCEPT ![d] = ptr[s]]
      BY <2>9, LoadStep
    <3>2. InWindow
      BY <2>2, IncreaseHandle, HandlesApart DEF InWindow, Window
    <3>3. s # Instance
      BY <2>7, <2>9, <3>1, <3>2 DEF LoadPtr
    <3> QED BY <1>0, <2>6, <3>1, <3>3
  <2>10. CASE CopyPtr(t)
    <3>1. PICK d \in Mine(t), s \in Mine(t) : ptr[d] # Nil \/ ptr[s] # Nil
      BY <2>10, CopyStep
    <3> QED BY <1>0, <2>6, <3>1
  <2>11. CASE StorePtr(t) /\ Op(t) = "null"
    <3>1. PICK g \in Handles : ptr' = [ptr EXCEPT ![g] = Nil]
      BY <2>11, NullStep
    <3> QED BY <1>0, <2>6, <3>1
  <2>12. CASE StorePtr(t) /\ Op(t) = "raw"
    <3>1. PICK d \in Handles, o \in made : \/ d \in Locals(t) /\ Given(t, d, o)
                                           \/ d = Instance /\ Making(t)
      BY <2>12, RawStep
    <3>2. ~Making(t)
      BY <1>2, <2>2, Alone DEF Making, Window
    <3>3. PICK s \in Locals(t) : ptr[s] = o
      BY <2>7, <3>1, <3>2 DEF Given
    <3> QED BY <1>0, <2>6, <3>3
  <2> QED BY <2>8, <2>9, <2>10, <2>11, <2>12, PointerStep DEF StorePtr
<1> QED BY <1>1, <1>2

LEMMA GoneStays ==
  ASSUME Shape, Single, Counted, Followed, NEW t \in Threads, Steps(t), NEW o \in made,
         Clean', Gone(o), Doomed(o)
  PROVE  Gone(o)'
<1>0. /\ DOMAIN ptr = Handles /\ o \in Pools /\ o # Nil /\ ~Early
      /\ mishaps' \cap {"raced", "self_assigned", "uncounted"} = {} /\ mishaps \subseteq mishaps'
  <2>1. ~Early
    <3> SUFFICES ASSUME Early
                 PROVE  FALSE
      OBVIOUS
    <3>1. o \in alive
      BY DEF Single, EarlyQuiet
    <3>2. PICK u \in Threads : Op(u) = "delete"
      BY <3>1 DEF Doomed, DeletePending, Op
    <3> QED BY <3>2, EarlyOps
  <2> QED BY <2>1, Frame, ThreadsAssumption DEF Steps, Shape, TypeOK, Clean
<1>1. Owners(o)' = {}
  <2>1. CASE LoadPtr(t) \/ StorePtr(t)
    BY <1>0, <2>1, LoadOwners, NullOwners, RawOwners DEF Gone, StorePtr
  <2>2. CASE CopyPtr(t)
    <3>1. PICK d, s : /\ s \in Owners(ptr[s])
                      /\ Owners(o)' = IF ptr[s] = o THEN Owners(o) \cup {d} ELSE Owners(o) \ {d}
      BY <2>2, CopyOwners
    <3>2. ptr[s] # o
      BY <3>1 DEF Gone
    <3> QED BY <3>1, <3>2 DEF Gone
  <2>3. CASE Increase(t)
    <3>1. PICK h : /\ Next1(t) = <<"inc", h>>
                   /\ Owners(o)' = IF ptr[h] = o THEN Owners(o) \cup {h} ELSE Owners(o)
      BY <2>3, IncreaseOwners
    <3>2. ptr[h] # o
      BY <2>3, <3>1 DEF Gone, InFlight, Increase
    <3> QED BY <3>1, <3>2 DEF Gone
  <2>4. CASE Decrease(t)
    <3>1. PICK h : Owners(o)' = Owners(o) \ {h}
      BY <2>4, DecreaseOwners
    <3> QED BY <3>1 DEF Gone
  <2>5. CASE \/ LogCount(t) \/ DeletePool(t) \/ Unlock(t) \/ Check(t) \/ Lock(t) \/ Recheck(t) \/ Call(t)
             \/ (t = Main /\ Exit)
    BY <2>5, QuietOwners DEF Gone
  <2> QED BY <2>1, <2>2, <2>3, <2>4, <2>5 DEF Steps, Step, Access
<1>2. ASSUME NEW u \in Threads, u # t, Op(u)' = "inc"
      PROVE  ptr'[Next1(u)'[2]] # o
  <2>1. UNCHANGED <<todo[u], pc[u]>>
    BY <1>2, Frame DEF Steps
  <2>2. Op(u) = "inc" /\ Next1(u)' = Next1(u)
    BY <1>2, <2>1, OthersSame
  <2>3. PICK g \in Handles : /\ Next1(u) = <<"inc", g>>
                             /\ (g \in Mine(u) /\ pc[u] = "idle") \/ (g = Instance /\ Window(u))
    BY <2>2, IncreaseHandle
  <2>4. ptr[g] # o
    BY <2>2, <2>3 DEF Gone, InFlight
  <2>5. ptr'[g] = ptr[g]
    BY <1>2, <2>2, <2>3, PointerStep, InstanceStays DEF Window, Getting
  <2> QED BY <2>2, <2>3, <2>4, <2>5
<1>3. ASSUME NEW s \in Mine(t), ~BetweenIn(todo[t], s)
      PROVE  ptr[s] # o
  BY <1>3, OwnMine DEF Gone
<1>4. CASE LoadPtr(t)
  <2>1. PICK d \in Mine(t), s \in Handles :
          /\ Next1(t) = <<"load", d, s>> /\ (s \in Mine(t) \/ s = Instance)
          /\ ptr' = [ptr EXCEPT ![d] = ptr[s]] /\ Next1(t)' = <<"inc", d>>
    BY <1>4, LoadStep
  <2>2. Op(t) = "load" /\ \A g : ~BetweenIn(todo[t], g)
    BY <1>4, BetweenIns DEF LoadPtr, Op, Next1
  <2>4. ASSUME s = Instance
        PROVE  ptr[s] # o
    <3>1. Getting(t)
      BY <2>1, <2>2, <2>4 DEF Getting
    <3>2. CASE Instance \in Owners(ptr[Instance])
      BY <2>4, <3>2 DEF Gone
    <3>3. CASE \E v \in Threads : Window(v)
      <4>1. PICK v \in Threads : Window(v)
        BY <3>3
      <4>2. Op(v) = "inc" /\ Next1(v) = <<"inc", Instance>>
        BY <4>1, IncreaseHandle DEF Window
      <4> QED BY <2>4, <4>2 DEF Gone, InFlight
    <3> QED BY <2>2, <3>1, <3>2, <3>3, InstanceOwner
  <2>5. ptr[s] # o
    BY <1>3, <2>1, <2>2, <2>4
  <2>6. d \in Handles /\ ptr'[d] = ptr[s]
    BY <1>0, <2>1, HandlesApart
  <2> QED BY <1>1, <1>2, <2>1, <2>5, <2>6 DEF Gone, InFlight
<1>5. CASE StorePtr(t) /\ Op(t) = "raw"
  <2>1. PICK d \in Handles, x \in made :
          /\ Next1(t) = <<"raw", d, x>> /\ ptr' = [ptr EXCEPT ![d] = x] /\ Next1(t)' = <<"inc", d>>
          /\ Given(t, d, x) \/ Making(t)
    BY <1>5, RawStep
  <2>2. \A g : ~BetweenIn(todo[t], g)
    BY <1>5, BetweenIns DEF Op, Next1
  <2>3. ~Making(t)
    BY <1>0 DEF Early
  <2>4. PICK s \in Locals(t) : ptr[s] = x
    BY <1>0, <2>1, <2>3 DEF Given
  <2>5. x # o
    BY <1>3, <2>2, <2>4 DEF Mine
  <2>6. ptr'[d] # o
    BY <1>0, <2>1, <2>5
  <2> QED BY <1>1, <1>2, <2>1, <2>6 DEF Gone, InFlight
<1>6. CASE Op(t)' # "inc"
  BY <1>1, <1>2, <1>6 DEF Gone, InFlight
<1> QED BY <1>4, <1>5, <1>6, NextOps

LEMMA NoUserKept ==
  ASSUME Shape, Single, Counted, Followed, NeverShort, NoUser, Unshared, Returned, NEW t \in Threads, Steps(t)
  PROVE  NoUser'
<1> SUFFICES ASSUME NEW o \in made', Clean', Doomed(o)'
             PROVE  Gone(o)'
  BY DEF NoUser
<1>0. \A u \in Threads \ {t} : UNCHANGED <<todo[u], pc[u]>>
  BY Frame DEF Steps
<1>1. CASE o \notin made
  <2>1. Recheck(t) /\ ptr[Instance] = Nil
    BY <1>1 DEF Steps, Step, Access, LoadPtr, CopyPtr, StorePtr, Increase, Decrease, LogCount, DeletePool, Unlock, Check, Lock,
         Recheck, Call, GetInstance, Drop, Construct, Assign, AssignPointer, Start, Exit
  <2>2. Early /\ Op(t)' = "dec" /\ o \in alive'
    BY <2>1, RecheckMakes
  <2>3. PICK u \in Threads : todo'[u] # <<>> /\ Next1(u)' = <<"delete", o>>
    BY <2>2 DEF Doomed, DeletePending
  <2>4. Op(u)' = "delete"
    BY <2>3 DEF Op
  <2>5. u # t
    BY <2>2, <2>4 DEF Op
  <2>6. Op(u) = "delete"
    BY <1>0, <2>4, <2>5, OthersSame
  <2> QED BY <2>2, <2>6, EarlyOps
<1>2. CASE o \in made /\ Doomed(o)
  <2>1. Gone(o)
    BY <1>2, CleanBefore DEF NoUser
  <2> QED BY <1>2, <2>1, GoneStays
<1>3. CASE o \in made /\ ~Doomed(o)
  <2>1. o \in alive /\ ~DeletePending(o)
    BY <1>3 DEF Doomed
  <2>2. o \in alive'
    <3> SUFFICES ASSUME o \notin alive'
                 PROVE  FALSE
      OBVIOUS
    <3>1. DeletePool(t) /\ Done(t) /\ alive' = alive \ {Next1(t)[2]}
      BY <2>1 DEF Steps, Step, Access, LoadPtr, CopyPtr, StorePtr, Increase, Decrease, LogCount, DeletePool, Unlock, Check,
         Lock, Recheck, NewPool, Call, GetInstance, Drop, Construct, Assign, AssignPointer, Start, Exit
    <3>2. Op(t) = "delete" /\ todo'[t] = Tail(todo[t]) /\ UNCHANGED <<ptr, pc, exiting, made>> /\ mishaps \subseteq mishaps'
      BY <3>1 DEF DeletePool, Done, Shape
    <3>3. PICK x \in made : Next1(t) \in {<<"delete", x>>, <<"log", x>>}
      BY <3>2, AfterStep
    <3>4. todo[t] # <<>> /\ Next1(t) = <<"delete", o>>
      BY <2>1, <3>1, <3>2, <3>3 DEF Op
    <3> QED BY <2>1, <3>4 DEF DeletePending
  <2>3. PICK u \in Threads : todo'[u] # <<>> /\ Next1(u)' = <<"delete", o>>
    BY <2>2 DEF Doomed, DeletePending
  <2>4. u = t
    BY <1>0, <2>1, <2>3 DEF DeletePending, Next1
  <2>5. Head(todo'[t]) = <<"delete", o>> /\ todo'[t] # <<>> /\ Op(t)' = "delete"
    BY <2>3, <2>4 DEF Op, Next1
  <2>6. todo' # todo
    BY <2>1, <2>5 DEF DeletePending, Next1
  <2>7. Decrease(t)
    BY <2>5, <2>6, NextOps
  <2>8. PICK h \in Handles :
          /\ Next1(t) = <<"dec", h>>
          /\ h \in Mine(t) \/ (h = Instance /\ exiting) \/ (h = Instance /\ ptr[h] = Nil)
          /\ \/ ptr[h] \notin alive /\ Op(t)' = "null"
             \/ /\ ptr[h] \in alive /\ todo'[t] # <<>>
                /\ Next1(t)' = IF count[ptr[h]] = 1 THEN <<"delete", ptr[h]>> ELSE <<"log", ptr[h]>>
          /\ \A x : /\ h \in Owners(x) <=> ptr[h] = x
                    /\ Owners(x)' = Owners(x) \ {h}
    BY <2>7, DecreaseOwners
  <2>9. ptr[h] = o /\ count[o] = 1
    BY <2>5, <2>8 DEF Next1
  <2>10. Clean
    BY <1>3, CleanBefore
  <2>11. Owners(o) = {h}
    <3>1. Cardinality(Owners(o)) \in Nat /\ IsFiniteSet(Owners(o)) /\ h \in Owners(o)
      BY <2>8, <2>9, OwnersFinite
    <3>2. Cardinality(Owners(o)) = 1
      <4>1. Cardinality(Owners(o)) >= 1
        BY <3>1, OwnersFinite
      <4>2. skew[o] >= 0 /\ skew[o] \in Int
        BY <1>3, <2>10 DEF Clean, NeverShort, Shape, TypeOK
      <4> QED BY <2>1, <2>9, <3>1, <4>1, <4>2 DEF Counted
    <3>3. \E x : Owners(o) = {x}
      BY <3>1, <3>2, FS_Singleton
    <3> QED BY <3>1, <3>3
  <2>12. Owners(o)' = {}
    BY <2>8, <2>11
  <2>13. ASSUME NEW w \in Threads, Op(w)' = "inc", ptr'[Next1(w)'[2]] = o
         PROVE  FALSE
    <3>1. w # t
      BY <2>5, <2>13 DEF Op
    <3>2. Op(w) = "inc" /\ Next1(w)' = Next1(w) /\ UNCHANGED ptr
      BY <1>0, <2>7, <2>13, <3>1, OthersSame DEF Decrease
    <3>3. \/ \E s \in Mine(w) : s \in Owners(o)
          \/ Getting(w) /\ Instance \in Owners(o)
          \/ Window(w) /\ o = ptr[Instance] /\ \A g \in Handles \ {Instance} : ptr[g] = Nil
      BY <1>3, <2>10, <2>13, <3>2, FlightOwner
    <3>4. o # Nil
      BY <1>3, ThreadsAssumption DEF Shape, TypeOK
    <3>5. CASE h \in Mine(t)
      BY <2>9, <2>11, <3>1, <3>3, <3>4, <3>5, HandlesApart
    <3>6. CASE h = Instance /\ exiting
      <4>1. ~Getting(w)
        BY <3>6, Alone
      <4> QED BY <2>11, <3>3, <3>6, <4>1, HandlesApart DEF Window, Getting
    <3> QED BY <2>8, <2>9, <3>4, <3>5, <3>6
  <2> QED BY <2>12, <2>13 DEF Gone, InFlight
<1> QED BY <1>1, <1>2, <1>3

(* TouchesLive holds wherever main() has not returned too early.             *)
LEMMA SafeTouches ==
  ASSUME Shape, Single, "late" \notin mishaps, NoUser
  PROVE  TouchesLive
<1> SUFFICES ASSUME NEW t \in Threads, Op(t) \in {"inc", "dec"}, NEW o, o = ptr[Next1(t)[2]],
                    o \notin alive \cup {Nil}, mishaps \cap {"raced", "self_assigned", "uncounted"} = {}
             PROVE  FALSE
  BY DEF TouchesLive
<1>1. ASSUME o \in made
      PROVE  Gone(o)
  BY <1>1 DEF NoUser, Clean, Doomed
<1>2. CASE Op(t) = "inc"
  <2>1. PICK g \in Handles : Next1(t) = <<"inc", g>>
    BY <1>2, IncreaseHandle
  <2>2. o \in made
    BY <2>1 DEF Single, PtrsMade
  <2> QED BY <1>1, <1>2, <2>2 DEF Gone, InFlight
<1>3. CASE Op(t) = "dec"
  <2>1. PICK h \in Handles : /\ Next1(t) = <<"dec", h>>
                             /\ h \in Mine(t) \/ (h = Instance /\ ((t = Main /\ exiting) \/ pc[t] = "hold"))
    <3>1. CASE pc[t] = "hold"
      <4>1. Next1(t) = <<"dec", Instance>>
        BY <1>3, <3>1, PlanOfOp DEF Shape, ToUnlock, Op, Next1
      <4> QED BY <3>1, <4>1, HandlesApart
    <3>2. CASE pc[t] # "hold"
      <4>1. ToDecrease(t, todo[t])
        BY <1>3, <3>2, PlanOfOp DEF Shape
      <4>2. PICK h \in Handles : /\ Head(todo[t]) = <<"dec", h>>
                                 /\ h \in Mine(t) \/ (h = Instance /\ t = Main /\ exiting)
        BY <4>1, TailOfDecrease
      <4> QED BY <4>2 DEF Next1
    <3> QED BY <3>1, <3>2
  <2>2. o = ptr[h] /\ o \in made
    BY <2>1 DEF Single, PtrsMade
  <2>3. ~Between(h)
    <3>1. todo[t] # <<>> /\ Head(todo[t])[1] = "dec"
      BY <1>3 DEF Op, Next1
    <3>2. ~BetweenIn(todo[t], h)
      BY <3>1, BetweenIns
    <3> QED BY <2>1, <3>2, NotBetweenUnlessLate, BetweenByPlans
  <2> QED BY <1>1, <2>1, <2>2, <2>3 DEF Gone, Owners
<1> QED BY <1>2, <1>3

(* The step after which nothing more is followed: GetInstance in the static  *)
(* destructors, or those while a thread is in GetInstance.                   *)
LEMMA LateTouches ==
  ASSUME Shape, Single, Followed, NoUser, TouchesLive, NEW t \in Threads, Steps(t), "late" \in mishaps'
  PROVE  TouchesLive'
<1>1. GetInstance(t) \/ (t = Main /\ Exit)
  BY DEF Steps, Step, Access, LoadPtr, CopyPtr, StorePtr, Increase, Decrease, LogCount, DeletePool, Unlock, Check,
     Lock, Recheck, Call, Drop, Construct, Assign, AssignPointer, Start, Followed
<1>2. UNCHANGED <<ptr, alive>> /\ mishaps \subseteq mishaps'
  BY <1>1, Frame DEF Steps, GetInstance, Exit
<1> SUFFICES ASSUME NEW u \in Threads, Op(u)' \in {"inc", "dec"}, NEW o, o = ptr[Next1(u)'[2]],
                    o \notin alive \cup {Nil}, mishaps' \cap {"raced", "self_assigned", "uncounted"} = {}
             PROVE  FALSE
  BY <1>2 DEF TouchesLive
<1>3. CASE u # t
  <2>1. UNCHANGED <<todo[u], pc[u]>>
    BY <1>3, Frame DEF Steps
  <2>2. Op(u) = Op(u)' /\ Next1(u) = Next1(u)'
    BY <2>1, OthersSame
  <2> QED BY <1>2, <2>2 DEF TouchesLive
<1>4. CASE u = t /\ GetInstance(t)
  <2>1. Op(t)' = "none"
    BY <1>4, GetInstanceSingle
  <2> QED BY <1>4, <2>1 DEF Op
<1>5. CASE u = t /\ t = Main /\ Exit
  <2>1. o = ptr[Instance] /\ ~exiting
    <3>1. Next1(Main)' = <<"dec", Instance>>
      BY <1>5, ExitSingle
    <3>2. Head(todo'[u])[2] = Instance
      BY <1>5, <3>1 DEF Next1
    <3> QED BY <1>5, <3>2 DEF Exit, Next1
  <2>2. o \in made
    BY <2>1, HandlesApart DEF Single, PtrsMade
  <2>3. Gone(o)
    BY <1>2, <2>2 DEF NoUser, Clean, Doomed
  <2>4. Between(Instance)
    BY <2>1, <2>3, HandlesApart DEF Gone, Owners
  <2>5. PICK v \in Threads : BetweenIn(todo[v], Instance)
    BY <2>4, BetweenByPlans
  <2>6. ~Making(v)
    BY <2>1, EarlyOps, HandlesApart DEF Early
  <2>7. Window(v)
    BY <2>1, <2>5, <2>6, BetweenInstance
  <2>8. Op(v) = "inc" /\ Next1(v) = <<"inc", Instance>>
    BY <2>7, IncreaseHandle, HandlesApart DEF Window
  <2> QED BY <2>1, <2>3, <2>8 DEF Gone, InFlight
<1> QED BY <1>1, <1>3, <1>4, <1>5

Safe == IF "late" \in mishaps THEN TouchesLive ELSE NeverShort /\ NoUser /\ Unshared /\ Returned

LEMMA StepsSafe ==
  ASSUME Shape, Single, Counted, Safe, [Next]_vars
  PROVE  Safe'
<1>1. CASE UNCHANGED vars
  <2>1. \A u \in Threads : Op(u)' = Op(u) /\ Next1(u)' = Next1(u) /\ Window(u)' = Window(u)
    BY <1>1, OthersSame DEF vars
  <2>2. UNCHANGED <<ptr, alive, skew, mishaps, made, todo>>
    BY <1>1 DEF vars
  <2>3. \A o : Owners(o)' = Owners(o)
    BY <1>1 DEF vars, Owners, Between, Op, Next1
  <2>4. Clean' = Clean /\ \A o : InFlight(o)' = InFlight(o) /\ Doomed(o)' = Doomed(o)
    BY <2>1, <2>2 DEF Clean, InFlight, Doomed, DeletePending
  <2>5. NoUser' = NoUser /\ Returned' = Returned /\ NeverShort' = NeverShort
    BY <2>1, <2>2, <2>3, <2>4 DEF NoUser, Gone, Returned, Result, NeverShort
  <2>6. Unshared' = Unshared
    BY <2>1, <2>2, <2>4 DEF Unshared
  <2>7. TouchesLive' = TouchesLive
    BY <2>1, <2>2 DEF TouchesLive
  <2> QED BY <2>2, <2>5, <2>6, <2>7 DEF Safe
<1>2. ASSUME Followed, NEW t \in Threads, Steps(t)
      PROVE  Safe'
  <2>1. NeverShort /\ NoUser /\ Unshared /\ Returned /\ "late" \notin mishaps
    BY <1>2 DEF Safe, Followed
  <2>2. NeverShort' /\ NoUser' /\ Unshared' /\ Returned'
    BY <1>2, <2>1, NeverShortKept, NoUserKept, UnsharedKept, ReturnedKept
  <2>3. "late" \in mishaps' => TouchesLive'
    BY <1>2, <2>1, SafeTouches, LateTouches
  <2> QED BY <2>2, <2>3 DEF Safe
<1>3. Main \in Threads
  BY ThreadsAssumption
<1> QED BY <1>1, <1>2, <1>3 DEF Next, Steps

LEMMA StartsSafe ==
  ASSUME Init
  PROVE  Safe
<1>1. \A t \in Threads : Op(t) = "none"
  BY DEF Init, Op
<1> QED BY <1>1 DEF Init, Safe, NeverShort, NoUser, Unshared, Returned, Window

(* No operation of sptr, and no copy of instance_, changes the counter of a  *)
(* pool that has been deleted, except after the three mishaps that the code  *)
(* permits: the copy of instance_ between its store and its count, the       *)
(* implicit assignment that makes an owner without counting it, and the      *)
(* assignment of an sptr's own pointer to it.                               *)
THEOREM CounterTouchedAlive == Spec => []TouchesLive
<1>1. Init => Shape /\ Single /\ Counted /\ Safe
  BY StartsSingle, StartsCounted, StartsSafe
<1>2. Shape /\ Single /\ Counted /\ Safe /\ [Next]_vars => Shape' /\ Single' /\ Counted' /\ Safe'
  BY StepsSingle, StepsCounted, StepsSafe
<1>3. Shape /\ Single /\ Safe => TouchesLive
  BY SafeTouches DEF Safe
<1> QED BY <1>1, <1>2, <1>3, PTL DEF Spec
=============================================================================
