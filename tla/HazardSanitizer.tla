--------------------------- MODULE HazardSanitizer ---------------------------
(***************************************************************************)
(* The deferred deletion of HazardSanitizer (lockfree/Sanitizer.hpp): the    *)
(* hazard pointers of the registered threads, the list of nodes whose        *)
(* deletion is delayed, the steps of _Release, the background thread and     *)
(* the destructor.  A container module EXTENDS this one and calls            *)
(* StorePtr, ResetFirst, ResetLast and StartRelease from its own steps.      *)
(*                                                                         *)
(* HazardRegistry shows that a registered thread has one slot that nobody    *)
(* else writes; here SlotOf gives that slot, and 0 stands for a thread whose *)
(* registration failed.                                                     *)
(***************************************************************************)
EXTENDS Integers, FiniteSets

CONSTANTS
  Nodes,      \* addresses the allocator hands out, again after a delete
  NULL,       \* nullptr
  Threads,    \* threads that call the container
  Back,       \* the background sanitizer thread
  SlotCount,  \* slots of hps_ that are claimed
  SlotOf      \* slot of each thread, 0 if it has none

ASSUME NullAssumption == NULL \notin Nodes
ASSUME BackAssumption == Back \notin Threads
ASSUME SlotAssumption == SlotCount \in Nat /\ SlotOf \in [Threads -> 0 .. SlotCount]

Ptr == Nodes \cup {NULL}
Agents == Threads \cup {Back}
SlotIds == 1 .. SlotCount
Sz == 2                          \* HazardPointer::sz
Cells == 0 .. SlotCount * Sz     \* the scan position, one past the end included

VARIABLES
  allocated,    \* nodes that are new-ed and not yet deleted
  next_,        \* node->next_
  hps,          \* accessing_ptrs_ of each slot
  pos,          \* next_available_cache_pos of each slot
  backward_deleting_list_,
  isBackSanitizer_,
  del           \* the deletion each agent is in

Frame == [pc : {"none", "scan", "load", "link", "cas", "exchange", "next"},
          node : Ptr, i : Cells, ori : Ptr, rest : Ptr, loop : BOOLEAN]
NoDel == [pc |-> "none", node |-> NULL, i |-> 0, ori |-> NULL, rest |-> NULL, loop |-> FALSE]

hazards == <<hps, pos>>
sanVars == <<allocated, next_, hps, pos, backward_deleting_list_, isBackSanitizer_, del>>

SanInit ==
  /\ allocated = {}
  /\ next_ = [n \in Nodes |-> NULL]
  /\ hps = [s \in SlotIds |-> [k \in 0 .. Sz - 1 |-> NULL]]
  /\ pos = [s \in SlotIds |-> 0]
  /\ backward_deleting_list_ = NULL
  /\ isBackSanitizer_ \in BOOLEAN
  /\ del = [a \in Agents |-> NoDel]

SanTypeOK ==
  /\ allocated \subseteq Nodes
  /\ next_ \in [Nodes -> Ptr]
  /\ hps \in [SlotIds -> [0 .. Sz - 1 -> Ptr]]
  /\ pos \in [SlotIds -> 0 .. Sz - 1]
  /\ backward_deleting_list_ \in Ptr
  /\ isBackSanitizer_ \in BOOLEAN
  /\ del \in [Agents -> Frame]

-----------------------------------------------------------------------------
(* Calls of a container.                                                    *)

(* access(n): false, and nothing stored, for nullptr or without a slot. *)
StorePtr(t, n) ==
  LET s == SlotOf[t] IN
  IF n = NULL \/ s = 0 THEN UNCHANGED hazards
  ELSE /\ hps' = [hps EXCEPT ![s][pos[s]] = n]
       /\ pos' = [pos EXCEPT ![s] = (@ + 1) % Sz]

(* reset(): one atomic store per cell, then the plain position. *)
ResetFirst(t) ==
  /\ hps' = IF SlotOf[t] = 0 THEN hps ELSE [hps EXCEPT ![SlotOf[t]][0] = NULL]
  /\ UNCHANGED pos
ResetLast(t) ==
  IF SlotOf[t] = 0 THEN UNCHANGED hazards
  ELSE /\ hps' = [hps EXCEPT ![SlotOf[t]][1] = NULL]
       /\ pos' = [pos EXCEPT ![SlotOf[t]] = 0]

(* release(n): _Delete(n) begins. *)
StartRelease(t, n) ==
  del' = [del EXCEPT ![t] = [NoDel EXCEPT !.pc = "scan", !.node = n]]

Releasing(t) == del[t].pc # "none"

-----------------------------------------------------------------------------
(* The steps of a deletion, by a thread in release or by the background     *)
(* thread.                                                                  *)

(* What follows _Delete of a node: the next node of _BackLoopDelete, or     *)
(* after the first _Delete of _Release a _BackLoopDelete of its own unless  *)
(* there is a background thread.                                            *)
AfterDelete(a) ==
  IF del[a].loop
    THEN IF del[a].rest = NULL THEN NoDel
         ELSE [NoDel EXCEPT !.pc = "next", !.rest = del[a].rest, !.loop = TRUE]
    ELSE IF isBackSanitizer_ THEN NoDel ELSE [NoDel EXCEPT !.pc = "exchange"]

(* isAccessed, one cell of one slot. *)
CellAt(i) == hps[i \div Sz + 1][i % Sz]

ScanMiss(a) ==
  /\ del[a].pc = "scan" /\ del[a].i < SlotCount * Sz
  /\ CellAt(del[a].i) # del[a].node
  /\ del' = [del EXCEPT ![a].i = @ + 1]
  /\ UNCHANGED <<allocated, next_, hazards, backward_deleting_list_, isBackSanitizer_>>

ScanHit(a) ==
  /\ del[a].pc = "scan" /\ del[a].i < SlotCount * Sz
  /\ CellAt(del[a].i) = del[a].node
  /\ del' = [del EXCEPT ![a] = [@ EXCEPT !.pc = "load", !.i = 0]]
  /\ UNCHANGED <<allocated, next_, hazards, backward_deleting_list_, isBackSanitizer_>>

(* _ImmediateDelete, when no cell held the node. *)
ImmediateDelete(a) ==
  /\ del[a].pc = "scan" /\ del[a].i = SlotCount * Sz
  /\ allocated' = allocated \ {del[a].node}
  /\ del' = [del EXCEPT ![a] = AfterDelete(a)]
  /\ UNCHANGED <<next_, hazards, backward_deleting_list_, isBackSanitizer_>>

(* _DelayDelete: load the list, link the node to it, compare_exchange. *)
DelayLoad(a) ==
  /\ del[a].pc = "load"
  /\ del' = [del EXCEPT ![a] = [@ EXCEPT !.pc = "link", !.ori = backward_deleting_list_]]
  /\ UNCHANGED <<allocated, next_, hazards, backward_deleting_list_, isBackSanitizer_>>

DelayLink(a) ==
  /\ del[a].pc = "link"
  /\ next_' = [next_ EXCEPT ![del[a].node] = del[a].ori]
  /\ del' = [del EXCEPT ![a].pc = "cas"]
  /\ UNCHANGED <<allocated, hazards, backward_deleting_list_, isBackSanitizer_>>

DelayCas(a) ==
  /\ del[a].pc = "cas"
  /\ IF backward_deleting_list_ = del[a].ori
       THEN /\ backward_deleting_list_' = del[a].node
            /\ del' = [del EXCEPT ![a] = AfterDelete(a)]
       ELSE /\ del' = [del EXCEPT ![a] = [@ EXCEPT !.pc = "load", !.ori = NULL]]
            /\ UNCHANGED backward_deleting_list_
  /\ UNCHANGED <<allocated, next_, hazards, isBackSanitizer_>>

(* _BackLoopDelete: take the whole list, then delete its nodes one by one. *)
BackExchange(a) ==
  /\ del[a].pc = "exchange"
  /\ backward_deleting_list_' = NULL
  /\ del' = [del EXCEPT ![a] =
       IF backward_deleting_list_ = NULL THEN NoDel
       ELSE [NoDel EXCEPT !.pc = "next", !.rest = backward_deleting_list_, !.loop = TRUE]]
  /\ UNCHANGED <<allocated, next_, hazards, isBackSanitizer_>>

BackNext(a) ==
  /\ del[a].pc = "next"
  /\ del' = [del EXCEPT ![a] = [NoDel EXCEPT !.pc = "scan", !.node = del[a].rest,
                                 !.rest = next_[del[a].rest], !.loop = TRUE]]
  /\ UNCHANGED <<allocated, next_, hazards, backward_deleting_list_, isBackSanitizer_>>

DeleteStep(a) ==
  \/ ScanMiss(a) \/ ScanHit(a) \/ ImmediateDelete(a)
  \/ DelayLoad(a) \/ DelayLink(a) \/ DelayCas(a)
  \/ BackExchange(a) \/ BackNext(a)

(* BackSanitizerThread: a turn of its loop begins while the flag is set. *)
BackWake ==
  /\ isBackSanitizer_ /\ del[Back].pc = "none"
  /\ del' = [del EXCEPT ![Back] = [NoDel EXCEPT !.pc = "exchange"]]
  /\ UNCHANGED <<allocated, next_, hazards, backward_deleting_list_, isBackSanitizer_>>

-----------------------------------------------------------------------------
(* ~HazardSanitizer, by the thread t that destroys the container: stop and   *)
(* join the background thread, then delete the delayed nodes unconditionally.*)

(* Mutant of StopBack: the flag of the background thread stays up.          *)
StopBackForgotten(t) == UNCHANGED sanVars

StopBack(t) ==
  /\ isBackSanitizer_' = FALSE
  /\ UNCHANGED <<allocated, next_, hazards, backward_deleting_list_, del>>

(* Mutant of JoinBack: the destructor does not wait for the thread.         *)
JoinBackEarly(t) == UNCHANGED sanVars

(* The thread ends when it finds the flag down between two turns. *)
JoinBack(t) == ~isBackSanitizer_ /\ del[Back].pc = "none" /\ UNCHANGED sanVars

DtorExchange(t) ==
  /\ backward_deleting_list_' = NULL
  /\ del' = [del EXCEPT ![t].rest = backward_deleting_list_]
  /\ UNCHANGED <<allocated, next_, hazards, isBackSanitizer_>>

DtorFree(t) ==
  /\ del[t].rest # NULL
  /\ allocated' = allocated \ {del[t].rest}
  /\ del' = [del EXCEPT ![t].rest = next_[@]]
  /\ UNCHANGED <<next_, hazards, backward_deleting_list_, isBackSanitizer_>>

-----------------------------------------------------------------------------
(* The nodes whose deletion is under way: the delayed list, and for each    *)
(* agent the node in hand and the part of a taken list still to come.       *)

(* The nodes reached from n along next_. *)
Chain(n) ==
  LET reach[k \in 0 .. Cardinality(Nodes)] ==
        [m \in Ptr |-> IF m = NULL \/ k = 0 THEN {} ELSE {m} \cup reach[k - 1][next_[m]]]
  IN reach[Cardinality(Nodes)][n]

InHand(a) == {del[a].node} \ {NULL}
Retired == Chain(backward_deleting_list_)
             \cup UNION {InHand(a) \cup Chain(del[a].rest) : a \in Agents}

(* A node waits for deletion in one place: with one agent, or in the        *)
(* delayed list.                                                            *)
RetiredOnce ==
  LET delayed == Chain(backward_deleting_list_)
      busy == {a \in Agents : del[a] # NoDel}
      held == [a \in busy |-> InHand(a) \cup Chain(del[a].rest)]
  IN /\ \A a \in busy : held[a] \cap delayed = {} /\ InHand(a) \cap Chain(del[a].rest) = {}
     /\ \A a, b \in busy : a # b => held[a] \cap held[b] = {}

(* Memory the next step of a deletion touches. *)
DeleteTouches(a) ==
  CASE del[a].pc = "scan" /\ del[a].i = SlotCount * Sz -> {del[a].node}
    [] del[a].pc = "link" -> {del[a].node}
    [] del[a].pc = "next" -> {del[a].rest}
    [] OTHER -> {}
=============================================================================
