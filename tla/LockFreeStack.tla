---------------------------- MODULE LockFreeStack ----------------------------
(***************************************************************************)
(* LockFreeListStack (lockfree/Concurrent.hpp) over HazardSanitizer.  One    *)
(* step per access to shared memory; a step that only touches locals is      *)
(* part of the step before it.  Producers call Push, consumers call Pop, and *)
(* Main runs the destructor when nobody is inside a call.                    *)
(***************************************************************************)
EXTENDS HazardSanitizer, Sequences

CONSTANTS
  Main,      \* the thread that destroys the stack
  Uses,      \* the programs around it: see UsesAssumption
  Watched,   \* threads whose calls CallsDoNotBlock follows: one of each kind is enough
  NoValue,
  SizeMod    \* size_t wraps at SizeMod

(* The threads that call Push and those that call Pop, the constructor's     *)
(* argument isBackSanitizer, and the bound on Push calls.                    *)
ASSUME UsesAssumption ==
  Uses \subseteq [producers : SUBSET Threads, consumers : SUBSET Threads,
                 background : BOOLEAN, pushes : Nat]
ASSUME MainAssumption == Main \in Threads /\ Watched \subseteq Threads \ {Main}
ASSUME SizeModAssumption == SizeMod \in Nat \ {0}

(* The n-th Push is given the value n. *)
Values == UNION {1 .. u.pushes : u \in Uses}
ASSUME NoValueAssumption == NoValue \notin Values

VARIABLES
  use,       \* the one of Uses that runs
  head_,     \* head_.node_ptr_
  size_,
  data,      \* node->data_ptr_
  pc, ori, new, nxt, val,   \* locals of Push and Pop; val is value or ret
  pushes     \* how many times Push has been called

program == <<use, pushes>>
locals == <<pc, ori, new, nxt, val, program>>
vars == <<sanVars, head_, size_, data, locals>>

Init ==
  /\ use \in Uses /\ isBackSanitizer_ = use.background
  /\ SanInit
  /\ head_ = NULL /\ size_ = 0
  /\ data = [n \in Nodes |-> NoValue]
  /\ pc = [t \in Threads |-> "idle"]
  /\ ori = [t \in Threads |-> NULL]
  /\ new = [t \in Threads |-> NULL]
  /\ nxt = [t \in Threads |-> NULL]
  /\ val = [t \in Threads |-> NoValue]
  /\ pushes = 0

Goto(t, label) == pc' = [pc EXCEPT ![t] = label]
Set(var, t, x) == [var EXCEPT ![t] = x]

(* The locals go out of scope. *)
Leave(t, label) ==
  /\ Goto(t, label)
  /\ ori' = Set(ori, t, NULL) /\ new' = Set(new, t, NULL) /\ nxt' = Set(nxt, t, NULL)
  /\ val' = Set(val, t, NoValue)
  /\ UNCHANGED program

-----------------------------------------------------------------------------
(* Push.                                                                    *)

PushCall(t) ==
  /\ pc[t] = "idle" /\ pc[Main] = "idle" /\ pushes < use.pushes
  /\ pushes' = pushes + 1 /\ UNCHANGED use
  /\ val' = Set(val, t, pushes + 1)
  /\ Goto(t, "push_load")
  /\ UNCHANGED <<sanVars, head_, size_, data, ori, new, nxt>>

PushLoad(t) ==
  /\ pc[t] = "push_load"
  /\ ori' = Set(ori, t, head_)
  /\ Goto(t, "push_new")
  /\ UNCHANGED <<sanVars, head_, size_, data, new, nxt, val, program>>

(* Which address the first of all nodes gets makes no difference.           *)
FirstNode == CHOOSE n \in Nodes : TRUE

(* new node_type(value, ori_node_ptr), at any address that is not in use.   *)
PushNew(t) ==
  /\ pc[t] = "push_new"
  /\ \E n \in Nodes \ allocated :
       /\ pushes = 1 => n = FirstNode
       /\ allocated' = allocated \cup {n}
       /\ next_' = [next_ EXCEPT ![n] = ori[t]]
       /\ data' = [data EXCEPT ![n] = val[t]]
       /\ new' = Set(new, t, n)
  /\ Goto(t, "push_cas")
  /\ UNCHANGED <<hazards, backward_deleting_list_, isBackSanitizer_, del,
                 head_, size_, ori, nxt, val, program>>

(* Mutant of PushCas: a failure leaves ori_node_ptr as it was.              *)
PushCasStale(t) ==
  /\ pc[t] = "push_cas"
  /\ IF head_ = ori[t]
       THEN head_' = new[t] /\ Goto(t, "push_size")
       ELSE Goto(t, "push_reload") /\ UNCHANGED head_
  /\ UNCHANGED <<sanVars, size_, data, ori, new, nxt, val, program>>

(* The compare_exchange of the loop condition; a failure writes the head it *)
(* saw into the outer ori_node_ptr.                                         *)
PushCas(t) ==
  /\ pc[t] = "push_cas"
  /\ IF head_ = ori[t]
       THEN head_' = new[t] /\ Goto(t, "push_size") /\ UNCHANGED ori
       ELSE ori' = Set(ori, t, head_) /\ Goto(t, "push_reload") /\ UNCHANGED head_
  /\ UNCHANGED <<sanVars, size_, data, new, nxt, val, program>>

(* Mutant of PushReload: next_ keeps the head of the first load.            *)
PushReloadForgotten(t) ==
  /\ pc[t] = "push_reload"
  /\ Goto(t, "push_cas")
  /\ UNCHANGED <<sanVars, head_, size_, data, ori, new, nxt, val, program>>

(* The loop body: the head is loaded again, into an inner ori_node_ptr that *)
(* shadows the outer one, and only next_ takes it.                          *)
PushReload(t) ==
  /\ pc[t] = "push_reload"
  /\ next_' = [next_ EXCEPT ![new[t]] = head_]
  /\ Goto(t, "push_cas")
  /\ UNCHANGED <<allocated, hazards, backward_deleting_list_, isBackSanitizer_, del,
                 head_, size_, data, ori, new, nxt, val, program>>

PushSize(t) ==
  /\ pc[t] = "push_size"
  /\ size_' = (size_ + 1) % SizeMod
  /\ Leave(t, "idle")
  /\ UNCHANGED <<sanVars, head_, data>>

-----------------------------------------------------------------------------
(* Pop.                                                                     *)

PopCall(t) ==
  /\ pc[t] = "idle" /\ (t = Main \/ pc[Main] = "idle")
  /\ Goto(t, "pop_load")
  /\ UNCHANGED <<sanVars, head_, size_, data, ori, new, nxt, val, program>>

(* Where a Pop of t returns to: the destructor's loop ends on a null.       *)
Caller(t, empty) ==
  IF t # Main THEN "idle" ELSE IF empty THEN "dtor_stop" ELSE "dtor_loop"

(* The top of the loop with ori_node_ptr = n: the early return on nullptr   *)
(* leaves the hazard pointers as they are.                                  *)
PopLoop(t, n) ==
  IF n = NULL THEN Leave(t, Caller(t, TRUE))
  ELSE /\ ori' = Set(ori, t, n) /\ new' = Set(new, t, NULL)
       /\ Goto(t, "pop_access")
       /\ UNCHANGED <<nxt, val, program>>

PopLoad(t) ==
  /\ pc[t] = "pop_load"
  /\ PopLoop(t, head_)
  /\ UNCHANGED <<sanVars, head_, size_, data>>

PopAccess(t) ==
  /\ pc[t] = "pop_access"
  /\ StorePtr(t, ori[t])
  /\ Goto(t, "pop_recheck")
  /\ UNCHANGED <<allocated, next_, backward_deleting_list_, isBackSanitizer_, del,
                 head_, size_, data, ori, new, nxt, val, program>>

PopRecheck(t) ==
  /\ pc[t] = "pop_recheck"
  /\ IF head_ # ori[t] THEN PopLoop(t, head_)
     ELSE /\ new' = Set(new, t, head_)
          /\ Goto(t, "pop_next")
          /\ UNCHANGED <<ori, nxt, val, program>>
  /\ UNCHANGED <<sanVars, head_, size_, data>>

(* The argument new_node_ptr->next_ of the compare_exchange. *)
PopNext(t) ==
  /\ pc[t] = "pop_next"
  /\ nxt' = Set(nxt, t, next_[new[t]])
  /\ Goto(t, "pop_cas")
  /\ UNCHANGED <<sanVars, head_, size_, data, ori, new, val, program>>

(* Mutant of PopCas: a plain store instead of the compare_exchange.         *)
PopCasStore(t) ==
  /\ pc[t] = "pop_cas"
  /\ head_' = nxt[t] /\ Goto(t, "pop_swap")
  /\ UNCHANGED <<sanVars, size_, data, ori, new, nxt, val, program>>

(* A failure writes new_node_ptr, which the loop does not look at.          *)
PopCas(t) ==
  /\ pc[t] = "pop_cas"
  /\ IF head_ = new[t]
       THEN head_' = nxt[t] /\ Goto(t, "pop_swap") /\ UNCHANGED <<ori, new, nxt, val, program>>
       ELSE /\ PopLoop(t, ori[t]) /\ UNCHANGED head_
  /\ UNCHANGED <<sanVars, size_, data>>

PopSwap(t) ==
  /\ pc[t] = "pop_swap"
  /\ val' = Set(val, t, data[ori[t]])
  /\ data' = [data EXCEPT ![ori[t]] = NoValue]
  /\ Goto(t, "pop_size")
  /\ UNCHANGED <<sanVars, head_, size_, ori, new, nxt, program>>

PopSize(t) ==
  /\ pc[t] = "pop_size"
  /\ size_' = (size_ - 1) % SizeMod
  /\ Goto(t, "pop_reset")
  /\ UNCHANGED <<sanVars, head_, data, ori, new, nxt, val, program>>

PopReset(t) ==
  /\ pc[t] = "pop_reset"
  /\ ResetFirst(t)
  /\ Goto(t, "pop_release")
  /\ UNCHANGED <<allocated, next_, backward_deleting_list_, isBackSanitizer_, del,
                 head_, size_, data, ori, new, nxt, val, program>>

(* The end of reset, and release(ori_node_ptr) begins. *)
PopRelease(t) ==
  /\ pc[t] = "pop_release"
  /\ ResetLast(t)
  /\ StartRelease(t, ori[t])
  /\ Goto(t, "pop_return")
  /\ UNCHANGED <<allocated, next_, backward_deleting_list_, isBackSanitizer_,
                 head_, size_, data, ori, new, nxt, val, program>>

PopReturn(t) ==
  /\ pc[t] = "pop_return" /\ ~Releasing(t)
  /\ Leave(t, Caller(t, val[t] = NoValue))
  /\ UNCHANGED <<sanVars, head_, size_, data>>

Deletion(a) ==
  /\ DeleteStep(a)
  /\ UNCHANGED <<head_, size_, data, locals>>

-----------------------------------------------------------------------------
(* ~LockFreeListStack: Pop until it returns null, then ~HazardSanitizer.    *)

Quiet == \A t \in Threads : pc[t] = "idle"

Destroy ==
  /\ Quiet
  /\ Goto(Main, "dtor_loop")
  /\ UNCHANGED <<sanVars, head_, size_, data, ori, new, nxt, val, program>>

DtorStep(from, to) ==
  /\ pc[Main] = from /\ Goto(Main, to)
  /\ UNCHANGED <<head_, size_, data, ori, new, nxt, val, program>>

DtorLoop == DtorStep("dtor_loop", "pop_load") /\ UNCHANGED sanVars
DtorStop ==
  IF isBackSanitizer_ THEN DtorStep("dtor_stop", "dtor_join") /\ StopBack(Main)
  ELSE DtorStep("dtor_stop", "dtor_exchange") /\ UNCHANGED sanVars
DtorJoin == DtorStep("dtor_join", "dtor_exchange") /\ JoinBack(Main)
DtorTake == DtorStep("dtor_exchange", "dtor_free") /\ DtorExchange(Main)
DtorDelete == DtorStep("dtor_free", "dtor_free") /\ DtorFree(Main)
DtorEnd == DtorStep("dtor_free", "destroyed") /\ del[Main].rest = NULL /\ UNCHANGED sanVars

Destructor == DtorLoop \/ DtorStop \/ DtorJoin \/ DtorTake \/ DtorDelete \/ DtorEnd

-----------------------------------------------------------------------------
PushLabels == {"push_load", "push_new", "push_cas", "push_reload", "push_size"}
PopLabels == {"pop_load", "pop_access", "pop_recheck", "pop_next", "pop_cas", "pop_swap",
              "pop_size", "pop_reset", "pop_release", "pop_return"}

Call(t) == \/ t \in use.producers /\ PushCall(t)
           \/ t \in use.consumers /\ PopCall(t)

(* A deletion belongs to pop_return. *)
Step(t) ==
  \/ /\ pc[t] \in PushLabels
     /\ PushLoad(t) \/ PushNew(t) \/ PushCas(t) \/ PushReload(t) \/ PushSize(t)
  \/ /\ pc[t] \in PopLabels
     /\ \/ PopLoad(t) \/ PopAccess(t) \/ PopRecheck(t) \/ PopNext(t) \/ PopCas(t)
        \/ PopSwap(t) \/ PopSize(t) \/ PopReset(t) \/ PopRelease(t) \/ PopReturn(t)
        \/ Deletion(t)

BackStep ==
  \/ BackWake /\ UNCHANGED <<head_, size_, data, locals>>
  \/ Deletion(Back)

Next == \/ \E t \in Threads : Call(t) \/ Step(t)
        \/ BackStep \/ Destroy \/ Destructor

Spec == Init /\ [][Next]_vars

-----------------------------------------------------------------------------
DtorLabels == {"dtor_loop", "dtor_stop", "dtor_join", "dtor_exchange", "dtor_free", "destroyed"}

TypeOK ==
  /\ SanTypeOK
  /\ head_ \in Ptr /\ size_ \in 0 .. SizeMod - 1
  /\ data \in [Nodes -> Values \cup {NoValue}]
  /\ pc \in [Threads -> {"idle"} \cup PushLabels \cup PopLabels \cup DtorLabels]
  /\ ori \in [Threads -> Ptr] /\ new \in [Threads -> Ptr] /\ nxt \in [Threads -> Ptr]
  /\ val \in [Threads -> Values \cup {NoValue}]
  /\ use \in Uses /\ pushes \in 0 .. use.pushes

(* The memory the next step of a thread reads or writes through a pointer.  *)
Touches(t) ==
  CASE pc[t] = "push_reload" -> {new[t]}
    [] pc[t] = "pop_next" -> {new[t]}
    [] pc[t] = "pop_swap" -> {ori[t]}
    [] pc[t] = "dtor_free" -> {del[t].rest} \ {NULL}
    [] OTHER -> {}

(* No thread is about to follow a pointer to a node that has been deleted,  *)
(* and no node is deleted twice: what access and the recheck of Pop         *)
(* ("recheck the validation", Concurrent.hpp:98) are for.                   *)
NoUseAfterFree ==
  /\ \A t \in Threads : Touches(t) \subseteq allocated
  /\ \A a \in Agents : DeleteTouches(a) \subseteq allocated

(* The nodes of the stack are allocated, and none of them is retired: a     *)
(* node leaves the list before it can wait for deletion, and for good.      *)
ListIsLive ==
  /\ Chain(head_) \subseteq allocated
  /\ Chain(head_) \cap Retired = {}

(* size_ is the number of nodes in the list, counting the operations that   *)
(* have moved head_ and not yet reached their fetch_add or fetch_sub.       *)
SizeAccounts ==
  LET added == Cardinality({t \in Threads : pc[t] = "push_size"})
      taken == Cardinality({t \in Threads : pc[t] \in {"pop_swap", "pop_size"}})
  IN size_ = (Cardinality(Chain(head_)) + taken - added) % SizeMod

(* The shape of the stack: its type, its list and its size.                 *)
StackShape == TypeOK /\ ListIsLive /\ SizeAccounts

(* After the destructor no node is left: none leaks because a hazard        *)
(* pointer still named it, or because the background thread held it.        *)
NothingLeaks == pc[Main] = "destroyed" => allocated = {}

(* The life of a node: never followed after its deletion, waiting for it in *)
(* one place at most, and deleted by the time the destructor returns.       *)
MemorySafe == NoUseAfterFree /\ RetiredOnce /\ NothingLeaks

(* A destructor that has begun ends if its own thread and the background    *)
(* thread keep running: the Pop loop, the join and the final deletions all  *)
(* finish, whatever the hazard pointers of the other threads still name.    *)
(* A background thread that empties and refills the delayed list at every   *)
(* compare_exchange of the destructor would hold it up for ever; the sleep  *)
(* between its turns is taken to end that.                                  *)
DestructorEnds ==
  (/\ WF_vars(Step(Main) \/ Destructor) /\ WF_vars(BackStep)
   /\ <>[][~(BackWake /\ Releasing(Main))]_vars)
     => (pc[Main] # "idle" ~> pc[Main] = "destroyed")

(* No call waits for another thread: a thread that keeps running leaves its *)
(* Push or Pop wherever the others have stopped.  The calls that can hold   *)
(* it up by making its compare_exchange fail are bounded by use.pushes; the *)
(* background thread, which can as well, falls asleep at some point; and    *)
(* new finds memory.                                                        *)
CallsDoNotBlock == \A t \in Watched :
  (/\ WF_vars(Step(t))
   /\ <>[][UNCHANGED del[Back]]_vars
   /\ []<>(pc[t] = "push_new" => allocated # Nodes))
     => (pc[t] # "idle" ~> pc[t] = "idle")

-----------------------------------------------------------------------------
(* Linearizability.  A Push takes effect at its successful compare_exchange, *)
(* a Pop at its own, or at the load that found nullptr.                     *)

Contents ==
  LET walk[k \in 0 .. Cardinality(Nodes)] ==
        [n \in Ptr |-> IF n = NULL \/ k = 0 THEN <<>> ELSE <<data[n]>> \o walk[k - 1][next_[n]]]
  IN walk[Cardinality(Nodes)][head_]

Op(t) ==
  CASE pc[t] \in {"push_load", "push_new", "push_cas", "push_reload"} ->
         [kind |-> "push", val |-> val[t]]
    [] pc[t] = "push_size" -> [kind |-> "pushed", val |-> NoValue]
    [] pc[t] \in {"pop_load", "pop_access", "pop_recheck", "pop_next", "pop_cas"} ->
         [kind |-> "pop", val |-> NoValue]
    [] pc[t] = "pop_swap" -> [kind |-> "popped", val |-> data[ori[t]]]
    [] pc[t] \in {"pop_size", "pop_reset", "pop_release", "pop_return"} ->
         [kind |-> "popped", val |-> val[t]]
    [] OTHER -> [kind |-> "idle", val |-> NoValue]

Atomic == INSTANCE AtomicContainer
            WITH Lifo <- TRUE, items <- Contents, op <- [t \in Threads |-> Op(t)]

(* Every behaviour of Push and Pop is one of a stack whose operations are   *)
(* atomic: no value is lost, none is returned twice, and values come back   *)
(* last in, first out.                                                      *)
Linearizable == Atomic!Spec
=============================================================================
