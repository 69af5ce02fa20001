--------------------------- MODULE SharedInstance ---------------------------
(***************************************************************************)
(* The counted pointer sptr with RefBase (refbase/refbase.hpp, refbase.cpp)  *)
(* and the singleton that it holds, ThreadPoolImpl::instance_ with           *)
(* GetInstance (threadpool/ThreadPool.cpp, ThreadPool.hpp).                 *)
(* An operation of sptr is the sequence of its accesses to the pointer and   *)
(* to the counter; todo holds what a thread has still to do.                *)
(***************************************************************************)
EXTENDS Integers, Sequences, FiniteSets

CONSTANTS
  Threads,   \* threads that hold sptrs
  Workers,   \* those among them that are threads of the pool, inside a task
  Main,      \* the thread that returns from main()
  Pools, Nil,\* the addresses that new ThreadPoolImpl() may return
  Instance,  \* the static member instance_
  Spare,     \* the threads that have a second variable
  NoThread

ASSUME ThreadsAssumption ==
  /\ IsFiniteSet(Threads) /\ NoThread \notin Threads
  /\ Workers \subseteq Threads /\ Main \in Threads \ Workers
  /\ Nil \notin Pools /\ Spare \subseteq Threads
  /\ Instance \notin Threads \X {"p", "q", "result"}

(* A thread's variables, and the unnamed result of GetInstance.             *)
Locals(t) == {<<t, "p">>} \cup (IF t \in Spare THEN {<<t, "q">>} ELSE {})
Result(t) == <<t, "result">>
Handles == {Instance} \cup UNION {Locals(t) \cup {Result(t)} : t \in Threads}

VARIABLES
  ptr,       \* object_ptr_ of each sptr
  count,     \* refcount_ of each pool (a size_t: -1 is its largest value)
  alive,     \* pools constructed and not yet deleted
  made,      \* pools ever constructed
  mutex,     \* the owner of GetInstance's static mutex
  pc,        \* where a thread is inside GetInstance
  todo,      \* the accesses a thread has still to make
  exiting,   \* the static destructors have begun
  skew,      \* history: by how much copies that do not count put count off
  mishaps    \* history: what the code permits and does not provide for

vars == <<ptr, count, alive, made, mutex, pc, todo, exiting, skew, mishaps>>

Init ==
  /\ ptr = [h \in Handles |-> Nil] /\ count = [o \in Pools |-> 0]
  /\ alive = {} /\ made = {} /\ mutex = NoThread
  /\ pc = [t \in Threads |-> "idle"] /\ todo = [t \in Threads |-> <<>>]
  /\ exiting = FALSE
  /\ skew = [o \in Pools |-> 0] /\ mishaps = {}

(* Bound: a behaviour is followed until GetInstance is called during exit, a *)
(* worker deletes its pool, or the counter of a deleted pool is used; and    *)
(* with few copies that do not count.                                       *)
Followed == mishaps \cap {"late", "self_join", "dead_counter"} = {}
MaxSkew == 1

-----------------------------------------------------------------------------
(* The operations of sptr as sequences of accesses.                         *)

RefCountIncrease(h) == << <<"inc", h>> >>
RefCountDecrease(h) == << <<"dec", h>>, <<"null", h>> >>

CopyConstruct(d, s) == << <<"load", d, s>> >> \o RefCountIncrease(d)

(* Mutant of MoveConstruct: the source is released before d is counted.      *)
MoveConstructReleaseFirst(d, s) ==
  << <<"load", d, s>> >> \o RefCountDecrease(s) \o RefCountIncrease(d)

(* release() counts down, and what it returns is null by then.              *)
MoveConstruct(d, s) == CopyConstruct(d, s) \o RefCountDecrease(s)

AssignRaw(d, o) == RefCountDecrease(d) \o << <<"raw", d, o>> >> \o RefCountIncrease(d)

(* Mutant of MoveAssign: what d pointed to is not counted down.             *)
MoveAssignForgets(d, s) == MoveConstruct(d, s)

MoveAssign(d, s) == RefCountDecrease(d) \o MoveConstruct(d, s)

(* The template for const sptr<_Tx>& is no copy assignment operator, and an  *)
(* lvalue of the same type selects the implicit one: it copies the pointer. *)
CopyAssign(d, s) == << <<"copy", d, s>> >>

(* `return instance_` copies it; ThreadPool<>::GetInstance moves the copy    *)
(* into an sptr of the base class.                                          *)
ReturnInstance(t) == CopyConstruct(Result(t), Instance) \o MoveConstruct(<<t, "p">>, Result(t))

-----------------------------------------------------------------------------
(* The accesses.                                                            *)

Next1(t) == Head(todo[t])
Op(t) == IF todo[t] = <<>> THEN "none" ELSE Next1(t)[1]
Done(t) == todo' = [todo EXCEPT ![t] = Tail(@)]

(* instance_ points to a pool that it is not counted for yet.               *)
InWindow == \E u \in Threads : Op(u) = "inc" /\ Next1(u)[2] = Instance

LoadPtr(t) ==
  /\ Op(t) = "load"
  /\ ptr' = [ptr EXCEPT ![Next1(t)[2]] = ptr[Next1(t)[3]]]
  /\ mishaps' = IF Next1(t)[3] = Instance /\ InWindow THEN mishaps \cup {"raced"} ELSE mishaps
  /\ Done(t)
  /\ UNCHANGED <<count, alive, made, mutex, pc, exiting, skew>>

CopyPtr(t) ==
  /\ Op(t) = "copy"
  /\ LET d == Next1(t)[2]  s == Next1(t)[3] IN
       /\ ptr' = [ptr EXCEPT ![d] = ptr[s]]
       /\ skew' = [o \in Pools |-> skew[o] + (IF ptr[d] = o THEN 1 ELSE 0)
                                          - (IF ptr[s] = o THEN 1 ELSE 0)]
       /\ \A o \in Pools : skew'[o] \in -MaxSkew..MaxSkew
       /\ mishaps' = IF ptr[s] \in {ptr[d], Nil} THEN mishaps ELSE mishaps \cup {"uncounted"}
  /\ Done(t)
  /\ UNCHANGED <<count, alive, made, mutex, pc, exiting>>

StorePtr(t) ==
  /\ Op(t) \in {"raw", "null"}
  /\ ptr' = [ptr EXCEPT ![Next1(t)[2]] = IF Op(t) = "raw" THEN Next1(t)[3] ELSE Nil]
  /\ Done(t)
  /\ UNCHANGED <<count, alive, made, mutex, pc, exiting, skew, mishaps>>

(* RefCountIncrease.  The counter of a deleted pool is undefined.           *)
Increase(t) ==
  /\ Op(t) = "inc"
  /\ LET o == ptr[Next1(t)[2]] IN
       IF o \in alive
         THEN count' = [count EXCEPT ![o] = @ + 1] /\ UNCHANGED mishaps
         ELSE /\ mishaps' = IF o = Nil THEN mishaps ELSE mishaps \cup {"dead_counter"}
              /\ UNCHANGED count
  /\ Done(t)
  /\ UNCHANGED <<ptr, alive, made, mutex, pc, exiting, skew>>

(* RefCountDecrease: who takes the counter from 1 deletes the pool.  With    *)
(* __cshr_debug__ the others read the counter once more, for the log;        *)
(* without it LogCount does nothing.                                        *)
Decrease(t) ==
  /\ Op(t) = "dec"
  /\ LET o == ptr[Next1(t)[2]] IN
       IF o \in alive
         THEN /\ count' = [count EXCEPT ![o] = @ - 1]
              /\ todo' = [todo EXCEPT ![t] =
                   (IF count[o] = 1 THEN << <<"delete", o>> >>
                    ELSE << <<"log", o>> >>) \o Tail(@)]
              /\ UNCHANGED mishaps
         ELSE /\ mishaps' = IF o = Nil THEN mishaps ELSE mishaps \cup {"dead_counter"}
              /\ Done(t)
              /\ UNCHANGED count
  /\ UNCHANGED <<ptr, alive, made, mutex, pc, exiting, skew>>

LogCount(t) ==
  /\ Op(t) = "log"
  /\ Done(t)
  /\ mishaps' = IF Next1(t)[2] \in alive THEN mishaps ELSE mishaps \cup {"dead_log"}
  /\ UNCHANGED <<ptr, count, alive, made, mutex, pc, exiting, skew>>

(* delete this: the destructor of the pool joins its workers, each of which  *)
(* must have finished its task.  A worker cannot join itself.               *)
DeletePool(t) ==
  /\ Op(t) = "delete"
  /\ \/ /\ t \in Workers
        /\ mishaps' = mishaps \cup {"self_join"}
        /\ UNCHANGED <<alive, todo>>
     \/ /\ t \notin Workers
        /\ \A w \in Workers : pc[w] = "idle" /\ todo[w] = <<>>
        /\ alive' = alive \ {Next1(t)[2]}
        /\ Done(t)
        /\ UNCHANGED mishaps
  /\ UNCHANGED <<ptr, count, made, mutex, pc, exiting, skew>>

Unlock(t) ==
  /\ Op(t) = "unlock"
  /\ mutex' = NoThread
  /\ pc' = [pc EXCEPT ![t] = "idle"]
  /\ todo' = [todo EXCEPT ![t] = ReturnInstance(t)]
  /\ UNCHANGED <<ptr, count, alive, made, exiting, skew, mishaps>>

Access(t) == \/ LoadPtr(t) \/ CopyPtr(t) \/ StorePtr(t) \/ Increase(t) \/ Decrease(t)
             \/ LogCount(t) \/ DeletePool(t) \/ Unlock(t)

-----------------------------------------------------------------------------
(* GetInstance.                                                             *)

Ready(t) == pc[t] = "idle" /\ todo[t] = <<>>

(* auto p = GetInstance(): a task can call it once there is a pool.         *)
GetInstance(t) ==
  /\ Ready(t) /\ ptr[<<t, "p">>] = Nil
  /\ t \in Workers => alive # {}
  /\ t = Main => ~exiting
  /\ pc' = [pc EXCEPT ![t] = "check"]
  /\ mishaps' = IF exiting THEN mishaps \cup {"late"} ELSE mishaps
  /\ UNCHANGED <<ptr, count, alive, made, mutex, todo, exiting, skew>>

(* The first test of instance_ is made without the lock.                    *)
Check(t) ==
  /\ pc[t] = "check"
  /\ IF ptr[Instance] = Nil
       THEN pc' = [pc EXCEPT ![t] = "lock"] /\ UNCHANGED todo
       ELSE /\ pc' = [pc EXCEPT ![t] = "idle"]
            /\ todo' = [todo EXCEPT ![t] = ReturnInstance(t)]
  /\ UNCHANGED <<ptr, count, alive, made, mutex, exiting, skew, mishaps>>

Lock(t) ==
  /\ pc[t] = "lock" /\ mutex = NoThread
  /\ mutex' = t
  /\ pc' = [pc EXCEPT ![t] = "recheck"]
  /\ UNCHANGED <<ptr, count, alive, made, todo, exiting, skew, mishaps>>

(* new ThreadPoolImpl() starts the workers; the assignment is that of a raw  *)
(* pointer.                                                                 *)
NewPool(t, o) ==
  /\ made' = made \cup {o} /\ alive' = alive \cup {o}
  /\ todo' = [todo EXCEPT ![t] = AssignRaw(Instance, o) \o << <<"unlock">> >>]

(* Mutant of Recheck: a pool is made whatever instance_ has become.         *)
RecheckForgotten(t) ==
  /\ pc[t] = "recheck"
  /\ \E o \in Pools \ made : NewPool(t, o)
  /\ pc' = [pc EXCEPT ![t] = "hold"]
  /\ UNCHANGED <<ptr, count, mutex, exiting, skew, mishaps>>

Recheck(t) ==
  /\ pc[t] = "recheck"
  /\ \/ ptr[Instance] = Nil /\ \E o \in Pools \ made : NewPool(t, o)
     \/ /\ ptr[Instance] # Nil
        /\ todo' = [todo EXCEPT ![t] = << <<"unlock">> >>]
        /\ UNCHANGED <<alive, made>>
  /\ pc' = [pc EXCEPT ![t] = "hold"]
  /\ UNCHANGED <<ptr, count, mutex, exiting, skew, mishaps>>

-----------------------------------------------------------------------------
(* What a thread does with its sptrs.                                       *)

Start(t, seq, mishap) ==
  /\ todo' = [todo EXCEPT ![t] = seq]
  /\ mishaps' = mishaps \cup mishap
  /\ UNCHANGED <<ptr, count, alive, made, mutex, pc, exiting, skew>>

(* A variable goes out of scope.                                            *)
Drop(t) == Ready(t) /\ \E h \in Locals(t) : ptr[h] # Nil /\ Start(t, RefCountDecrease(h), {})

(* A new variable takes the pointer of another one.                         *)
Construct(t) ==
  /\ Ready(t)
  /\ \E d, s \in Locals(t) :
       /\ ptr[d] = Nil /\ ptr[s] # Nil
       /\ \E make \in {CopyConstruct(d, s), MoveConstruct(d, s)} : Start(t, make, {})

(* From another variable, which may be null.  A move from itself returns at   *)
(* once.                                                                    *)
Assign(t) ==
  /\ Ready(t)
  /\ \E d, s \in Locals(t) : d # s /\ (ptr[d] # Nil \/ ptr[s] # Nil)
       /\ \/ Start(t, MoveAssign(d, s), {})
          \/ Start(t, CopyAssign(d, s), {})

(* d = s.GetRefPtr(): counts down before it counts up.  A null pointer        *)
(* assigned does what Drop does.                                            *)
AssignPointer(t) ==
  /\ Ready(t)
  /\ \E d, s \in Locals(t) :
       /\ ptr[s] # Nil
       /\ Start(t, AssignRaw(d, ptr[s]), IF d = s THEN {"self_assigned"} ELSE {})

(* main() has returned: the destructor of instance_.                        *)
InGetInstance(t) ==
  pc[t] # "idle" \/ \E i \in DOMAIN todo[t] : todo[t][i] = <<"inc", Result(t)>>
Exit ==
  /\ Ready(Main) /\ ~exiting /\ \A h \in Locals(Main) : ptr[h] = Nil
  /\ exiting' = TRUE
  /\ todo' = [todo EXCEPT ![Main] = RefCountDecrease(Instance)]
  /\ mishaps' = IF \E t \in Threads : InGetInstance(t) THEN mishaps \cup {"late"} ELSE mishaps
  /\ UNCHANGED <<ptr, count, alive, made, mutex, pc, skew>>

-----------------------------------------------------------------------------
Step(t) == Access(t) \/ Check(t) \/ Lock(t) \/ Recheck(t)
Call(t) == GetInstance(t) \/ Drop(t) \/ Construct(t) \/ Assign(t) \/ AssignPointer(t)

Next == Followed /\ (Exit \/ \E t \in Threads : Step(t) \/ Call(t))

Spec == Init /\ [][Next]_vars

-----------------------------------------------------------------------------
TypeOK ==
  /\ ptr \in [Handles -> Pools \cup {Nil}] /\ count \in [Pools -> Int]
  /\ alive \subseteq made /\ made \subseteq Pools
  /\ mutex \in Threads \cup {NoThread}
  /\ pc \in [Threads -> {"idle", "check", "lock", "recheck", "hold"}]

(* An sptr whose pointer is set and not yet counted, or counted down and not *)
(* yet cleared.                                                             *)
Between(h) == \E t \in Threads :
  \/ todo[t] # <<>> /\ Next1(t) \in {<<"inc", h>>, <<"null", h>>}
  \/ Op(t) \in {"delete", "log"} /\ Len(todo[t]) > 1 /\ todo[t][2] = <<"null", h>>

(* The counter of a pool is the number of sptrs that own it, in the middle   *)
(* of copies and moves by several threads too, but for the copies made by    *)
(* the implicit assignment; and no pool is left with nobody to delete it.   *)
CountsOwners ==
  /\ TypeOK
  /\ \A o \in alive :
       /\ count[o] = skew[o] + Cardinality({h \in Handles : ptr[h] = o /\ ~Between(h)})
       /\ count[o] = 0 => \E t \in Threads, i \in 1..3 : i \in DOMAIN todo[t] /\
            todo[t][i] \in {<<"delete", o>>, <<"raw", Instance, o>>, <<"inc", Instance>>}

(* No thread changes the counter of a pool that has been deleted, unless a   *)
(* thread copied instance_ while GetInstance had stored it and not yet       *)
(* counted it, an implicit assignment has made an owner that does not count, *)
(* or an sptr was assigned its own pointer.  One that forgets to count down  *)
(* is no excuse: it keeps the pool for too long.                             *)
TouchesLive ==
  \A t \in Threads : Op(t) \in {"inc", "dec"} =>
    LET o == ptr[Next1(t)[2]] IN
      o \in alive \cup {Nil} \/ mishaps \cap {"raced", "self_assigned", "uncounted"} # {}

(* One pool is made, however many threads call GetInstance at first, and     *)
(* until the destructor of instance_ it is the one that all callers get.    *)
OnePool ==
  /\ Cardinality(made) <= 1
  /\ \A t \in Threads : Op(t) = "load" /\ Next1(t)[3] = Instance => ptr[Instance] \in made
=============================================================================
