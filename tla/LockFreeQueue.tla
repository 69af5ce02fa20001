---------------------------- MODULE LockFreeQueue ----------------------------
(***************************************************************************)
(* LockFreeListQueue (lockfree/Concurrent.hpp) over HazardSanitizer: a list  *)
(* whose first node is a dummy.  One step per access to shared memory; a     *)
(* step that only touches locals is part of the step before it.             *)
(***************************************************************************)
EXTENDS HazardSanitizer, Sequences

CONSTANTS
  Main,      \* the thread that destroys the queue
  Uses,      \* the programs around it: see UsesAssumption
  Watched,   \* threads whose calls CallsDoNotBlock follows: one of each kind is enough
  NoValue,
  SizeMod    \* size_t wraps at SizeMod

(* The threads that call Push and those that call Pop, the constructor's     *)
(* argument isBackSanitizer, and the bound on Push calls.                    *)
ASSUME UsesAssumption ==
  Uses \subseteq [producers : SUBSET Threads, consumers : SUBSET Threads,
                 background : BOOLEAN, pushes : Nat]
ASSUME MainAssumption == Main \in Threads /\ Watched \subseteq Threads \ {Main}
ASSUME SizeModAssumption == SizeMod \in Nat \ {0}

(* The n-th Push is given the value n. *)
Values == UNION {1 .. u.pushes : u \in Uses}
ASSUME NoValueAssumption == NoValue \notin Values

VARIABLES
  use,       \* the one of Uses that runs
  head_, tail_,   \* head_.node_ptr_, tail_.node_ptr_
  size_,
  data,           \* node->data_ptr_
  pc, val,        \* val is value or ret
  pre, ori, new,  \* pre_ori_node_ptr, ori_node_ptr, new_node_ptr of Push
  h, tl, nxt,     \* head_node_ptr, tail_node_ptr of Pop; next of both
  pushes     \* how many times Push has been called

ends == <<head_, tail_>>
program == <<use, pushes>>
locals == <<pc, val, pre, ori, new, h, tl, nxt, program>>
vars == <<sanVars, ends, size_, data, locals>>

(* The dummy that the constructor allocates: which address it gets makes no *)
(* difference.                                                              *)
FirstDummy == CHOOSE n \in Nodes : TRUE

Init ==
  /\ use \in Uses /\ isBackSanitizer_ = use.background
  /\ allocated = {FirstDummy} /\ head_ = FirstDummy /\ tail_ = FirstDummy
  /\ next_ = [n \in Nodes |-> NULL]
  /\ hps = [s \in SlotIds |-> [k \in 0 .. Sz - 1 |-> NULL]]
  /\ pos = [s \in SlotIds |-> 0]
  /\ backward_deleting_list_ = NULL
  /\ del = [a \in Agents |-> NoDel]
  /\ size_ = 0
  /\ data = [n \in Nodes |-> NoValue]
  /\ pc = [t \in Threads |-> "idle"]
  /\ val = [t \in Threads |-> NoValue]
  /\ pushes = 0
  /\ pre = [t \in Threads |-> NULL] /\ ori = [t \in Threads |-> NULL]
  /\ new = [t \in Threads |-> NULL] /\ h = [t \in Threads |-> NULL]
  /\ tl = [t \in Threads |-> NULL] /\ nxt = [t \in Threads |-> NULL]

Goto(t, label) == pc' = [pc EXCEPT ![t] = label]
Set(var, t, x) == [var EXCEPT ![t] = x]

(* The locals go out of scope. *)
Leave(t, label) ==
  /\ Goto(t, label)
  /\ val' = Set(val, t, NoValue)
  /\ pre' = Set(pre, t, NULL) /\ ori' = Set(ori, t, NULL) /\ new' = Set(new, t, NULL)
  /\ h' = Set(h, t, NULL) /\ tl' = Set(tl, t, NULL) /\ nxt' = Set(nxt, t, NULL)
  /\ UNCHANGED program

-----------------------------------------------------------------------------
(* Push.                                                                    *)

PushCall(t) ==
  /\ pc[t] = "idle" /\ pc[Main] = "idle" /\ pushes < use.pushes
  /\ pushes' = pushes + 1 /\ UNCHANGED use
  /\ val' = Set(val, t, pushes + 1)
  /\ Goto(t, "push_new")
  /\ UNCHANGED <<sanVars, ends, size_, data, pre, ori, new, h, tl, nxt>>

(* new node_type(value, nullptr), at any address that is not in use.        *)
PushNew(t) ==
  /\ pc[t] = "push_new"
  /\ \E n \in Nodes \ allocated :
       /\ allocated' = allocated \cup {n}
       /\ next_' = [next_ EXCEPT ![n] = NULL]
       /\ data' = [data EXCEPT ![n] = val[t]]
       /\ new' = Set(new, t, n)
  /\ Goto(t, "push_load")
  /\ UNCHANGED <<hazards, backward_deleting_list_, isBackSanitizer_, del,
                 ends, size_, val, pre, ori, h, tl, nxt, program>>

PushLoad(t) ==
  /\ pc[t] = "push_load"
  /\ pre' = Set(pre, t, tail_)
  /\ Goto(t, "push_access")
  /\ UNCHANGED <<sanVars, ends, size_, data, val, ori, new, h, tl, nxt, program>>

PushAccess(t) ==
  /\ pc[t] = "push_access"
  /\ StorePtr(t, pre[t])
  /\ Goto(t, "push_recheck")
  /\ UNCHANGED <<allocated, next_, backward_deleting_list_, isBackSanitizer_, del,
                 ends, size_, data, val, pre, ori, new, h, tl, nxt, program>>

PushRecheck(t) ==
  /\ pc[t] = "push_recheck"
  /\ IF tail_ # pre[t]
       THEN pre' = Set(pre, t, tail_) /\ Goto(t, "push_access") /\ UNCHANGED ori
       ELSE ori' = Set(ori, t, tail_) /\ Goto(t, "push_next") /\ UNCHANGED pre
  /\ UNCHANGED <<sanVars, ends, size_, data, val, new, h, tl, nxt, program>>

PushNext(t) ==
  /\ pc[t] = "push_next"
  /\ nxt' = Set(nxt, t, next_[ori[t]])
  /\ Goto(t, IF next_[ori[t]] # NULL THEN "push_help" ELSE "push_append")
  /\ UNCHANGED <<sanVars, ends, size_, data, val, pre, ori, new, h, tl, program>>

(* continue: the loop starts again with the same pre_ori_node_ptr. *)
PushAgain(t) ==
  /\ Goto(t, "push_access")
  /\ ori' = Set(ori, t, NULL) /\ nxt' = Set(nxt, t, NULL)
  /\ UNCHANGED <<val, pre, new, h, tl, program>>

(* Mutant of PushHelp: the loop starts again without moving the tail.       *)
PushHelpSkipped(t) ==
  /\ pc[t] = "push_help"
  /\ PushAgain(t)
  /\ UNCHANGED <<sanVars, ends, size_, data>>

(* The tail is behind: move it to next, or find it moved. *)
PushHelp(t) ==
  /\ pc[t] = "push_help"
  /\ tail_' = IF tail_ = ori[t] THEN nxt[t] ELSE tail_
  /\ PushAgain(t)
  /\ UNCHANGED <<sanVars, head_, size_, data>>

(* Mutant of PushAppend: a plain store instead of the compare_exchange.     *)
PushAppendStore(t) ==
  /\ pc[t] = "push_append"
  /\ next_' = [next_ EXCEPT ![ori[t]] = new[t]]
  /\ Goto(t, "push_swing")
  /\ UNCHANGED <<allocated, hazards, backward_deleting_list_, isBackSanitizer_, del,
                 ends, size_, data, val, pre, ori, new, h, tl, nxt, program>>

PushAppend(t) ==
  /\ pc[t] = "push_append"
  /\ IF next_[ori[t]] = NULL
       THEN /\ next_' = [next_ EXCEPT ![ori[t]] = new[t]]
            /\ Goto(t, "push_swing")
            /\ UNCHANGED <<val, pre, ori, new, h, tl, nxt, program>>
       ELSE PushAgain(t) /\ UNCHANGED next_
  /\ UNCHANGED <<allocated, hazards, backward_deleting_list_, isBackSanitizer_, del,
                 ends, size_, data>>

PushSwing(t) ==
  /\ pc[t] = "push_swing"
  /\ tail_' = IF tail_ = ori[t] THEN new[t] ELSE tail_
  /\ Goto(t, "push_size")
  /\ UNCHANGED <<sanVars, head_, size_, data, val, pre, ori, new, h, tl, nxt, program>>

(* Push returns without a reset: its hazard pointers stay. *)
PushSize(t) ==
  /\ pc[t] = "push_size"
  /\ size_' = (size_ + 1) % SizeMod
  /\ Leave(t, "idle")
  /\ UNCHANGED <<sanVars, ends, data>>

-----------------------------------------------------------------------------
(* Pop.                                                                     *)

PopCall(t) ==
  /\ pc[t] = "idle" /\ pc[Main] = "idle"
  /\ Goto(t, "pop_head")
  /\ UNCHANGED <<sanVars, ends, size_, data, val, pre, ori, new, h, tl, nxt, program>>

(* Where a Pop of t returns to: the destructor's loop ends on a null.       *)
Caller(t, empty) ==
  IF t # Main THEN "idle" ELSE IF empty THEN "dtor_head" ELSE "dtor_loop"

PopHead(t) ==
  /\ pc[t] = "pop_head"
  /\ h' = Set(h, t, head_)
  /\ Goto(t, "pop_tail")
  /\ UNCHANGED <<sanVars, ends, size_, data, val, pre, ori, new, tl, nxt, program>>

PopTail(t) ==
  /\ pc[t] = "pop_tail"
  /\ tl' = Set(tl, t, tail_)
  /\ Goto(t, "pop_next")
  /\ UNCHANGED <<sanVars, ends, size_, data, val, pre, ori, new, h, nxt, program>>

(* Mutant of PopNext: a tail that is behind is not looked for.              *)
PopNextNoHelp(t) ==
  /\ pc[t] = "pop_next"
  /\ LET n == next_[h[t]] IN
       IF h[t] = tl[t] /\ n = NULL THEN Leave(t, Caller(t, TRUE))
       ELSE /\ nxt' = Set(nxt, t, n)
            /\ Goto(t, "pop_access_head")
            /\ UNCHANGED <<val, pre, ori, new, h, tl, program>>
  /\ UNCHANGED <<sanVars, ends, size_, data>>

(* head_node_ptr->next_ is read before any access() of that node. *)
PopNext(t) ==
  /\ pc[t] = "pop_next"
  /\ LET n == next_[h[t]] IN
       IF h[t] = tl[t] /\ n = NULL THEN Leave(t, Caller(t, TRUE))
       ELSE /\ nxt' = Set(nxt, t, n)
            /\ Goto(t, IF h[t] = tl[t] THEN "pop_help" ELSE "pop_access_head")
            /\ UNCHANGED <<val, pre, ori, new, h, tl, program>>
  /\ UNCHANGED <<sanVars, ends, size_, data>>

(* The loop starts again: its locals are declared inside it. *)
PopAgain(t) ==
  /\ Goto(t, "pop_head")
  /\ h' = Set(h, t, NULL) /\ tl' = Set(tl, t, NULL) /\ nxt' = Set(nxt, t, NULL)
  /\ UNCHANGED <<val, pre, ori, new, program>>

PopHelp(t) ==
  /\ pc[t] = "pop_help"
  /\ tail_' = IF tail_ = tl[t] THEN nxt[t] ELSE tail_
  /\ PopAgain(t)
  /\ UNCHANGED <<sanVars, head_, size_, data>>

PopAccessHead(t) ==
  /\ pc[t] = "pop_access_head"
  /\ StorePtr(t, h[t])
  /\ Goto(t, "pop_access_next")
  /\ UNCHANGED <<allocated, next_, backward_deleting_list_, isBackSanitizer_, del,
                 ends, size_, data, val, pre, ori, new, h, tl, nxt, program>>

PopAccessNext(t) ==
  /\ pc[t] = "pop_access_next"
  /\ StorePtr(t, nxt[t])
  /\ Goto(t, "pop_cas")
  /\ UNCHANGED <<allocated, next_, backward_deleting_list_, isBackSanitizer_, del,
                 ends, size_, data, val, pre, ori, new, h, tl, nxt, program>>

PopCas(t) ==
  /\ pc[t] = "pop_cas"
  /\ IF head_ = h[t]
       THEN /\ head_' = nxt[t] /\ Goto(t, "pop_swap")
            /\ UNCHANGED <<val, pre, ori, new, h, tl, nxt, program>>
       ELSE PopAgain(t) /\ UNCHANGED head_
  /\ UNCHANGED <<sanVars, tail_, size_, data>>

PopSwap(t) ==
  /\ pc[t] = "pop_swap"
  /\ val' = Set(val, t, data[nxt[t]])
  /\ data' = [data EXCEPT ![nxt[t]] = NoValue]
  /\ Goto(t, "pop_size")
  /\ UNCHANGED <<sanVars, ends, size_, pre, ori, new, h, tl, nxt, program>>

PopSize(t) ==
  /\ pc[t] = "pop_size"
  /\ size_' = (size_ - 1) % SizeMod
  /\ Goto(t, "pop_reset")
  /\ UNCHANGED <<sanVars, ends, data, val, pre, ori, new, h, tl, nxt, program>>

PopReset(t) ==
  /\ pc[t] = "pop_reset"
  /\ ResetFirst(t)
  /\ Goto(t, "pop_release")
  /\ UNCHANGED <<allocated, next_, backward_deleting_list_, isBackSanitizer_, del,
                 ends, size_, data, val, pre, ori, new, h, tl, nxt, program>>

(* Mutant of PopRelease: the new head is released, not the old one.         *)
PopReleaseNext(t) ==
  /\ pc[t] = "pop_release"
  /\ ResetLast(t)
  /\ StartRelease(t, nxt[t])
  /\ Goto(t, "pop_return")
  /\ UNCHANGED <<allocated, next_, backward_deleting_list_, isBackSanitizer_,
                 ends, size_, data, val, pre, ori, new, h, tl, nxt, program>>

(* The end of reset, and release(head_node_ptr) begins. *)
PopRelease(t) ==
  /\ pc[t] = "pop_release"
  /\ ResetLast(t)
  /\ StartRelease(t, h[t])
  /\ Goto(t, "pop_return")
  /\ UNCHANGED <<allocated, next_, backward_deleting_list_, isBackSanitizer_,
                 ends, size_, data, val, pre, ori, new, h, tl, nxt, program>>

PopReturn(t) ==
  /\ pc[t] = "pop_return" /\ ~Releasing(t)
  /\ Leave(t, Caller(t, val[t] = NoValue))
  /\ UNCHANGED <<sanVars, ends, size_, data>>

Deletion(a) ==
  /\ DeleteStep(a)
  /\ UNCHANGED <<ends, size_, data, locals>>

-----------------------------------------------------------------------------
(* ~LockFreeListQueue: Pop until it returns null, delete the dummy, then     *)
(* ~HazardSanitizer.                                                         *)

Destroy ==
  /\ \A t \in Threads : pc[t] = "idle"
  /\ Goto(Main, "dtor_loop")
  /\ UNCHANGED <<sanVars, ends, size_, data, val, pre, ori, new, h, tl, nxt, program>>

DtorStep(from, to) ==
  /\ pc[Main] = from /\ Goto(Main, to)
  /\ UNCHANGED <<ends, size_, data, val, pre, ori, new, h, tl, nxt, program>>

DtorLoop == DtorStep("dtor_loop", "pop_head") /\ UNCHANGED sanVars
DtorHead ==
  /\ DtorStep("dtor_head", "dtor_stop")
  /\ allocated' = allocated \ {head_}
  /\ UNCHANGED <<next_, hazards, backward_deleting_list_, isBackSanitizer_, del>>
DtorStop ==
  IF isBackSanitizer_ THEN DtorStep("dtor_stop", "dtor_join") /\ StopBack(Main)
  ELSE DtorStep("dtor_stop", "dtor_exchange") /\ UNCHANGED sanVars
DtorJoin == DtorStep("dtor_join", "dtor_exchange") /\ JoinBack(Main)
DtorTake == DtorStep("dtor_exchange", "dtor_free") /\ DtorExchange(Main)
DtorDelete == DtorStep("dtor_free", "dtor_free") /\ DtorFree(Main)
DtorEnd == DtorStep("dtor_free", "destroyed") /\ del[Main].rest = NULL /\ UNCHANGED sanVars

Destructor == \/ DtorLoop \/ DtorHead \/ DtorStop \/ DtorJoin
              \/ DtorTake \/ DtorDelete \/ DtorEnd

-----------------------------------------------------------------------------
PushLabels == {"push_new", "push_load", "push_access", "push_recheck", "push_next",
               "push_help", "push_append", "push_swing", "push_size"}
PopLabels == {"pop_head", "pop_tail", "pop_next", "pop_help", "pop_access_head",
              "pop_access_next", "pop_cas", "pop_swap", "pop_size", "pop_reset",
              "pop_release", "pop_return"}

Call(t) == \/ t \in use.producers /\ PushCall(t)
           \/ t \in use.consumers /\ PopCall(t)

(* A deletion belongs to pop_return. *)
Step(t) ==
  \/ /\ pc[t] \in PushLabels
     /\ \/ PushNew(t) \/ PushLoad(t) \/ PushAccess(t) \/ PushRecheck(t) \/ PushNext(t)
        \/ PushHelp(t) \/ PushAppend(t) \/ PushSwing(t) \/ PushSize(t)
  \/ /\ pc[t] \in PopLabels
     /\ \/ PopHead(t) \/ PopTail(t) \/ PopNext(t) \/ PopHelp(t) \/ PopAccessHead(t)
        \/ PopAccessNext(t) \/ PopCas(t) \/ PopSwap(t) \/ PopSize(t) \/ PopReset(t)
        \/ PopRelease(t) \/ PopReturn(t) \/ Deletion(t)

BackStep ==
  \/ BackWake /\ UNCHANGED <<ends, size_, data, locals>>
  \/ Deletion(Back)

Next == \/ \E t \in Threads : Call(t) \/ Step(t)
        \/ BackStep \/ Destroy \/ Destructor

Spec == Init /\ [][Next]_vars

-----------------------------------------------------------------------------
DtorLabels == {"dtor_loop", "dtor_head", "dtor_stop", "dtor_join", "dtor_exchange",
               "dtor_free", "destroyed"}

TypeOK ==
  /\ SanTypeOK
  /\ head_ \in Nodes /\ tail_ \in Nodes /\ size_ \in 0 .. SizeMod - 1
  /\ data \in [Nodes -> Values \cup {NoValue}]
  /\ pc \in [Threads -> {"idle"} \cup PushLabels \cup PopLabels \cup DtorLabels]
  /\ val \in [Threads -> Values \cup {NoValue}]
  /\ \A local \in {pre, ori, new, h, tl, nxt} : local \in [Threads -> Ptr]
  /\ use \in Uses /\ pushes \in 0 .. use.pushes

(* The memory the next step of a thread reads or writes through a pointer.  *)
Touches(t) ==
  CASE pc[t] \in {"push_next", "push_append"} -> {ori[t]}
    [] pc[t] = "pop_next" -> {h[t]}
    [] pc[t] = "pop_swap" -> {nxt[t]}
    [] pc[t] = "dtor_head" -> {head_}
    [] pc[t] = "dtor_free" -> {del[t].rest} \ {NULL}
    [] OTHER -> {}

(* No thread is about to follow a pointer to a node that has been deleted,  *)
(* and no node is deleted twice.  Push relies on its access of the tail      *)
(* ("the memory of ori_node_ptr has been reserved", Concurrent.hpp:243), Pop *)
(* on being the only one to shift head_.                                     *)
NoUseAfterFree ==
  /\ \A t \in Threads : Touches(t) \subseteq allocated
  /\ \A a \in Agents : DeleteTouches(a) \subseteq allocated

(* The nodes of the queue are allocated and none of them is retired, and    *)
(* tail_ names the last node or the one before it: a Pop never leaves the    *)
(* tail behind on the node it releases.                                      *)
TailInList ==
  pc[Main] \notin {"dtor_stop", "dtor_join", "dtor_exchange", "dtor_free", "destroyed"} =>
  /\ Chain(head_) \subseteq allocated /\ Chain(head_) \cap Retired = {}
  /\ tail_ \in Chain(head_)
  /\ next_[tail_] # NULL => next_[next_[tail_]] = NULL

(* A Push that succeeds linked its node behind a node of the queue: "it     *)
(* means the new_node_ptr has been successfully appended"                    *)
(* (Concurrent.hpp:251).                                                     *)
AppendedToQueue == [][\A t \in Threads :
  pc[t] = "push_append" /\ pc'[t] = "push_swing" => ori[t] \in Chain(head_)]_vars

(* size_ is the number of values in the queue, counting the operations that *)
(* have linked or unlinked a node and not yet reached size_.                *)
SizeAccounts ==
  LET added == Cardinality({t \in Threads : pc[t] \in {"push_swing", "push_size"}})
      taken == Cardinality({t \in Threads : pc[t] \in {"pop_swap", "pop_size"}})
  IN size_ = (Cardinality(Chain(head_)) - 1 + taken - added) % SizeMod

(* The shape of the queue: its type, its list with the tail, and its size.  *)
QueueShape == TypeOK /\ TailInList /\ SizeAccounts

(* After the destructor no node is left.                                    *)
NothingLeaks == pc[Main] = "destroyed" => allocated = {}

(* The life of a node: never followed after its deletion, waiting for it in *)
(* one place at most, and deleted by the time the destructor returns.       *)
MemorySafe == NoUseAfterFree /\ RetiredOnce /\ NothingLeaks

(* A destructor that has begun ends if its own thread and the background    *)
(* thread keep running, whatever the hazard pointers still name, and if the *)
(* background thread does not make every compare_exchange of the destructor *)
(* fail with one more turn: it sleeps between its turns.                    *)
DestructorEnds ==
  (/\ WF_vars(Step(Main) \/ Destructor) /\ WF_vars(BackStep)
   /\ <>[][~(BackWake /\ Releasing(Main))]_vars)
     => (pc[Main] # "idle" ~> pc[Main] = "destroyed")

(* No call waits for another thread: a thread that keeps running leaves its *)
(* Push or Pop wherever the others have stopped.  The calls that can hold   *)
(* it up by making its compare_exchange fail are bounded by use.pushes; the *)
(* background thread, which can as well, falls asleep at some point; and    *)
(* new finds memory.                                                        *)
(* A tail left behind by a stopped Push is moved on by whoever finds it.    *)
CallsDoNotBlock == \A t \in Watched :
  (/\ WF_vars(Step(t))
   /\ <>[][UNCHANGED del[Back]]_vars
   /\ []<>(pc[t] = "push_new" => allocated # Nodes))
     => (pc[t] # "idle" ~> pc[t] = "idle")

-----------------------------------------------------------------------------
(* Linearizability.  A Push takes effect when it links its node, a Pop when *)
(* it shifts head_, or when it reads a null next at the tail.               *)

Contents ==
  LET walk[k \in 0 .. Cardinality(Nodes)] ==
        [n \in Ptr |-> IF n = NULL \/ k = 0 THEN <<>>
                       ELSE <<data[n]>> \o walk[k - 1][next_[n]]]
  IN walk[Cardinality(Nodes)][next_[head_]]

Op(t) ==
  CASE pc[t] \in {"push_new", "push_load", "push_access", "push_recheck", "push_next",
                  "push_help", "push_append"} -> [kind |-> "push", val |-> val[t]]
    [] pc[t] \in {"push_swing", "push_size"} -> [kind |-> "pushed", val |-> NoValue]
    [] pc[t] \in {"pop_head", "pop_tail", "pop_next", "pop_help", "pop_access_head",
                  "pop_access_next", "pop_cas"} -> [kind |-> "pop", val |-> NoValue]
    [] pc[t] = "pop_swap" -> [kind |-> "popped", val |-> data[nxt[t]]]
    [] pc[t] \in {"pop_size", "pop_reset", "pop_release", "pop_return"} ->
         [kind |-> "popped", val |-> val[t]]
    [] OTHER -> [kind |-> "idle", val |-> NoValue]

Atomic == INSTANCE AtomicContainer
            WITH Lifo <- FALSE, items <- Contents, op <- [t \in Threads |-> Op(t)]

(* Every behaviour of Push and Pop is one of a queue whose operations are   *)
(* atomic: no value is lost, none is returned twice, and values come back   *)
(* first in, first out.                                                     *)
Linearizable == Atomic!Spec
=============================================================================
