--------------------------- MODULE HazardRegistry ---------------------------
(***************************************************************************)
(* How a thread gets a slot of HazardSanitizer::hps_ and writes hazard     *)
(* pointers into it (lockfree/Sanitizer.hpp).                              *)
(*                                                                         *)
(* _Store, _Deaccess and _Reset each hold a function-local thread_local    *)
(* HazardRegister: a thread resolves its slot once per FUNCTION, on the    *)
(* sanitizer object of that first call, and keeps the pointer for every    *)
(* later call, whatever object that call is on.  Sanitizers is the set of  *)
(* objects of one instantiation HazardSanitizer<_Node, _ThreadMax>.        *)
(***************************************************************************)
EXTENDS Integers, FiniteSets

CONSTANTS
  Threads,      \* std::thread::id values in use
  NoThread,     \* the default-constructed id
  Sanitizers,   \* objects of one instantiation of the template
  ThreadMax,    \* _ThreadMax
  Functions,    \* which of _Store, _Deaccess, _Reset are called
  Uses,         \* which of them each thread calls
  Nodes,        \* addresses passed to access and deaccess
  NullNode,     \* nullptr
  NoSlot        \* a null HazardPointer*

ASSUME ThreadsAssumption == NoThread \notin Threads
ASSUME SanitizersAssumption == Sanitizers # {}
ASSUME FunctionsAssumption == Functions \subseteq {"Store", "Deaccess", "Reset"}
ASSUME UsesAssumption == Uses \in [Threads -> SUBSET Functions]
ASSUME ThreadMaxAssumption == ThreadMax \in Nat \ {0}
ASSUME NullNodeAssumption == NullNode \notin Nodes
ASSUME NoSlotAssumption == NoSlot \notin Sanitizers \X (0 .. ThreadMax - 1)

Slots == 0 .. ThreadMax - 1
Sz == 2                                   \* HazardPointer::sz

VARIABLES
  id_,              \* hps_[i].id_ of each sanitizer
  accessing_ptrs_,  \* hps_[i].accessing_ptrs_ of each sanitizer
  next_pos,         \* hps_[i].next_available_cache_pos
  made,             \* the functions whose thread_local register exists
  hp,               \* HazardRegister::hp of each thread and function
  pc, call, i, init_id   \* the call a thread is in; locals of _RegisterThread

table == <<id_, accessing_ptrs_, next_pos>>
vars == <<id_, accessing_ptrs_, next_pos, made, hp, pc, call, i, init_id>>

Call == [fn : Functions \cup {"Reset"}, san : Sanitizers, node : Nodes \cup {NullNode}]
(* What an idle thread's call is; no step reads it. *)
NoCall == [fn |-> "Reset", san |-> CHOOSE s \in Sanitizers : TRUE, node |-> NullNode]

Init ==
  /\ id_ = [s \in Sanitizers |-> [j \in Slots |-> NoThread]]
  /\ accessing_ptrs_ =
       [s \in Sanitizers |-> [j \in Slots |-> [k \in 0 .. Sz - 1 |-> NullNode]]]
  /\ next_pos = [s \in Sanitizers |-> [j \in Slots |-> 0]]
  /\ made = [t \in Threads |-> {}]
  /\ hp = [t \in Threads |-> [f \in Functions |-> NoSlot]]
  /\ pc = [t \in Threads |-> "idle"]
  /\ call = [t \in Threads |-> NoCall]
  /\ i = [t \in Threads |-> 0]
  /\ init_id = [t \in Threads |-> NoThread]

-----------------------------------------------------------------------------
(* access, deaccess and reset: the thread_local register of the function is *)
(* constructed by the first call of the thread, before any other statement. *)

Enter(t, f, s, n) ==
  /\ pc[t] = "idle"
  /\ call' = [call EXCEPT ![t] = [fn |-> f, san |-> s, node |-> n]]
  /\ IF f \in made[t]
       THEN pc' = [pc EXCEPT ![t] = "body"]
       ELSE pc' = [pc EXCEPT ![t] = "check"]
  /\ UNCHANGED <<table, made, hp, i, init_id>>

Access(t) ==
  "Store" \in Uses[t] /\ \E s \in Sanitizers, n \in Nodes \cup {NullNode} : Enter(t, "Store", s, n)
Deaccess(t) ==
  "Deaccess" \in Uses[t] /\ \E s \in Sanitizers, n \in Nodes \cup {NullNode} : Enter(t, "Deaccess", s, n)
Reset(t) == "Reset" \in Uses[t] /\ \E s \in Sanitizers : Enter(t, "Reset", s, NullNode)

(* HazardRegister::HazardRegister ends with hp = h, and the locals of        *)
(* _RegisterThread go: they are back at the values a call starts with.      *)
Construct(t, h) ==
  /\ made' = [made EXCEPT ![t] = @ \cup {call[t].fn}]
  /\ hp' = [hp EXCEPT ![t][call[t].fn] = h]
  /\ pc' = [pc EXCEPT ![t] = "body"]
  /\ i' = [i EXCEPT ![t] = 0]
  /\ init_id' = [init_id EXCEPT ![t] = NoThread]

-----------------------------------------------------------------------------
(* _RegisterThread: the loop over hps_.  The load of id_ and the           *)
(* compare_exchange are two atomic steps; a failed compare_exchange writes *)
(* the value it saw into init_id, and the loop goes on with that value.    *)

Exhausted(t) ==
  /\ pc[t] = "check" /\ i[t] = ThreadMax
  /\ Construct(t, NoSlot)
  /\ UNCHANGED <<table, call>>

(* Mutant of CheckId: the id of the slot is never compared with the thread. *)
CheckIdBlind(t) ==
  /\ pc[t] = "check" /\ i[t] \in Slots
  /\ pc' = [pc EXCEPT ![t] = "cas"]
  /\ UNCHANGED <<table, made, hp, call, i, init_id>>

CheckId(t) ==
  /\ pc[t] = "check" /\ i[t] \in Slots
  /\ IF id_[call[t].san][i[t]] = t
       THEN Construct(t, <<call[t].san, i[t]>>)
       ELSE pc' = [pc EXCEPT ![t] = "cas"] /\ UNCHANGED <<made, hp, i, init_id>>
  /\ UNCHANGED <<table, call>>

CasOk(t) ==
  /\ pc[t] = "cas" /\ id_[call[t].san][i[t]] = init_id[t]
  /\ id_' = [id_ EXCEPT ![call[t].san][i[t]] = t]
  /\ Construct(t, <<call[t].san, i[t]>>)
  /\ UNCHANGED <<accessing_ptrs_, next_pos, call>>

(* Mutant of CasFail: the same slot is tried again with the value it held.  *)
CasFailRetry(t) ==
  /\ pc[t] = "cas" /\ id_[call[t].san][i[t]] # init_id[t]
  /\ init_id' = [init_id EXCEPT ![t] = id_[call[t].san][i[t]]]
  /\ pc' = [pc EXCEPT ![t] = "check"]
  /\ UNCHANGED <<table, made, hp, call, i>>

(* Mutant of CasFail: init_id is made afresh for each slot.                 *)
CasFailFresh(t) ==
  /\ pc[t] = "cas" /\ id_[call[t].san][i[t]] # init_id[t]
  /\ i' = [i EXCEPT ![t] = @ + 1]
  /\ pc' = [pc EXCEPT ![t] = "check"]
  /\ UNCHANGED <<table, made, hp, call, init_id>>

CasFail(t) ==
  /\ pc[t] = "cas" /\ id_[call[t].san][i[t]] # init_id[t]
  /\ init_id' = [init_id EXCEPT ![t] = id_[call[t].san][i[t]]]
  /\ i' = [i EXCEPT ![t] = @ + 1]
  /\ pc' = [pc EXCEPT ![t] = "check"]
  /\ UNCHANGED <<table, made, hp, call>>

-----------------------------------------------------------------------------
(* The bodies of _Store, _Deaccess and _Reset, on the slot the register     *)
(* points to: not on a slot of the object of the call.  Each body is one    *)
(* step here, since no other thread reads the cache in this module; the     *)
(* modules that add the scan of _Delete split it into its atomic stores.    *)

(* HazardPointer::store, at the slot h. *)
StorePtr(h, n) ==
  /\ accessing_ptrs_' = [accessing_ptrs_ EXCEPT ![h[1]][h[2]][next_pos[h[1]][h[2]]] = n]
  /\ next_pos' = [next_pos EXCEPT ![h[1]][h[2]] = (@ + 1) % Sz]

(* HazardPointer::deaccess. *)
DropPtr(h, n) ==
  /\ accessing_ptrs_' = [accessing_ptrs_ EXCEPT ![h[1]][h[2]] =
       [k \in 0 .. Sz - 1 |-> IF @[k] = n THEN NullNode ELSE @[k]]]
  /\ UNCHANGED next_pos

(* HazardPointer::resetCache. *)
ResetCache(h) ==
  /\ accessing_ptrs_' = [accessing_ptrs_ EXCEPT ![h[1]][h[2]] =
       [k \in 0 .. Sz - 1 |-> NullNode]]
  /\ next_pos' = [next_pos EXCEPT ![h[1]][h[2]] = 0]

(* The early return false: no slot, or a null node. *)
Refused(t) == \/ hp[t][call[t].fn] = NoSlot
              \/ call[t].fn # "Reset" /\ call[t].node = NullNode

Body(t) ==
  /\ pc[t] = "body"
  /\ pc' = [pc EXCEPT ![t] = "idle"]
  /\ LET h == hp[t][call[t].fn] IN
       \/ Refused(t) /\ UNCHANGED <<accessing_ptrs_, next_pos>>
       \/ ~Refused(t) /\ call[t].fn = "Store" /\ StorePtr(h, call[t].node)
       \/ ~Refused(t) /\ call[t].fn = "Deaccess" /\ DropPtr(h, call[t].node)
       \/ ~Refused(t) /\ call[t].fn = "Reset" /\ ResetCache(h)
  /\ call' = [call EXCEPT ![t] = NoCall]
  /\ UNCHANGED <<id_, made, hp, i, init_id>>

(* ~HazardRegister: the thread ends and its registers with it.  The slot is *)
(* not given back; a later thread may be given the same std::thread::id.    *)
ThreadExit(t) ==
  /\ pc[t] = "idle" /\ made[t] # {}
  /\ made' = [made EXCEPT ![t] = {}]
  /\ hp' = [hp EXCEPT ![t] = [f \in Functions |-> NoSlot]]
  /\ UNCHANGED <<table, pc, call, i, init_id>>

-----------------------------------------------------------------------------
Register(t) == Exhausted(t) \/ CheckId(t) \/ CasOk(t) \/ CasFail(t)

Next == \E t \in Threads :
  \/ Access(t) \/ Deaccess(t) \/ Reset(t)
  \/ Register(t) \/ Body(t) \/ ThreadExit(t)

Spec == Init /\ [][Next]_vars

-----------------------------------------------------------------------------
(* Types of the variables, with the ranges of the loop index and of the     *)
(* cache position that the array accesses of the code rely on.              *)
TypeOK ==
  /\ id_ \in [Sanitizers -> [Slots -> Threads \cup {NoThread}]]
  /\ accessing_ptrs_ \in [Sanitizers -> [Slots -> [0 .. Sz - 1 -> Nodes \cup {NullNode}]]]
  /\ next_pos \in [Sanitizers -> [Slots -> 0 .. Sz - 1]]
  /\ made \in [Threads -> SUBSET Functions]
  /\ hp \in [Threads -> [Functions -> (Sanitizers \X Slots) \cup {NoSlot}]]
  /\ pc \in [Threads -> {"idle", "check", "cas", "body"}]
  /\ call \in [Threads -> Call]
  /\ i \in [Threads -> 0 .. ThreadMax]
  /\ init_id \in [Threads -> Threads \cup {NoThread}]

(* One thread never owns two slots of a table, although the id check and    *)
(* the compare_exchange of _RegisterThread are separate steps and the       *)
(* compare_exchange runs with whatever value the previous one left.         *)
OneSlotPerThread == \A s \in Sanitizers, j, k \in Slots :
  id_[s][j] = id_[s][k] /\ id_[s][j] # NoThread => j = k

(* The three registers of a thread, resolved at three different moments,    *)
(* name the same slot of a sanitizer: _Reset clears what _Store wrote.      *)
RegistersAgree == \A t \in Threads : \A f, g \in made[t] :
  hp[t][f] # NoSlot /\ hp[t][g] # NoSlot /\ hp[t][f][1] = hp[t][g][1]
    => hp[t][f] = hp[t][g]

(* A register points to a slot its thread owns, so no two threads ever      *)
(* write one non-atomic next_available_cache_pos.                           *)
RegisterIsOwner == \A t \in Threads, f \in Functions :
  hp[t][f] # NoSlot => id_[hp[t][f][1]][hp[t][f][2]] = t

(* Only every other slot is ever claimed: a compare_exchange that failed on *)
(* an owned slot leaves the owner in init_id, which the next slot never     *)
(* holds, and that failure puts the default id back.  Half of the           *)
(* _ThreadMax slots are out of reach.                                       *)
OddSlotsFree == \A s \in Sanitizers, j \in Slots : j % 2 = 1 => id_[s][j] = NoThread

(* _RegisterThread returns nullptr only if every slot it can claim belongs  *)
(* to another thread: no interleaving makes it give up with a slot left.    *)
FailsOnlyWhenFull == \A t \in Threads : \A f \in made[t] :
  hp[t][f] = NoSlot =>
    \E s \in Sanitizers : \A j \in Slots : j % 2 = 0 => id_[s][j] \in Threads \ {t}

(* A slot, once claimed, keeps its owner for the life of the sanitizer: no  *)
(* compare_exchange with a stale init_id takes it over.                     *)
NoSlotStolen == [][\A s \in Sanitizers, j \in Slots :
  id_[s][j] # NoThread => id_'[s][j] = id_[s][j]]_vars

(* The hazard pointers of a slot change only in the body of a call made by  *)
(* the slot's owner.                                                        *)
OnlyOwnerWrites == [][\A s \in Sanitizers, j \in Slots :
  accessing_ptrs_'[s][j] # accessing_ptrs_[s][j] =>
    \E t \in Threads : id_[s][j] = t /\ pc[t] = "body" /\ pc'[t] = "idle"]_vars

-----------------------------------------------------------------------------
(* The strengthening that makes the invariants above inductive.             *)

(* The claimed slots are a prefix of the even ones. *)
ClaimedPrefix == \A s \in Sanitizers, j, k \in Slots :
  j < k /\ j % 2 = 0 /\ id_[s][k] # NoThread => id_[s][j] # NoThread

(* A search that has reached i found every even slot below i claimed by     *)
(* another thread; init_id is the default id at an even slot and the owner  *)
(* of the slot before at an odd one.                                        *)
SearchAt(t) ==
  LET row == id_[call[t].san] IN
  /\ \A j \in Slots : j < i[t] /\ j % 2 = 0 => row[j] \in Threads \ {t}
  /\ i[t] % 2 = 0 => init_id[t] = NoThread
  /\ i[t] % 2 = 1 => init_id[t] = row[i[t] - 1]
  /\ pc[t] = "cas" => i[t] \in Slots /\ row[i[t]] # t

SearchProgress == \A t \in Threads : pc[t] \in {"check", "cas"} => SearchAt(t)

(* The function of a call under way is one of Functions, and outside a      *)
(* search its locals have the values a search starts with.                  *)
CallInFunctions == \A t \in Threads :
  /\ pc[t] # "idle" => call[t].fn \in Functions
  /\ pc[t] \notin {"check", "cas"} => i[t] = 0 /\ init_id[t] = NoThread

IInv == /\ TypeOK /\ OddSlotsFree /\ OneSlotPerThread /\ RegisterIsOwner
        /\ FailsOnlyWhenFull /\ ClaimedPrefix /\ SearchProgress /\ CallInFunctions
=============================================================================
