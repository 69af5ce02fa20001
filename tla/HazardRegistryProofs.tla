------------------------ MODULE HazardRegistryProofs ------------------------
(***************************************************************************)
(* Proofs about HazardRegistry, for any number of threads, sanitizers and   *)
(* slots.  IInv is inductive; the invariants the runs check follow from it. *)
(***************************************************************************)
EXTENDS HazardRegistry, TLAPS

USE DEF Slots, Sz, table

(* IInv holds of the zero-initialised table, before any call.               *)
LEMMA InitIInv == Init => IInv
<1> SUFFICES ASSUME Init PROVE IInv
  OBVIOUS
<1>1. NoCall \in Call
  BY SanitizersAssumption DEF NoCall, Call
<1>2. TypeOK
  BY <1>1, ThreadMaxAssumption DEF Init, TypeOK
<1>3. OddSlotsFree /\ OneSlotPerThread /\ ClaimedPrefix
  BY DEF Init, OddSlotsFree, OneSlotPerThread, ClaimedPrefix
<1>4. RegisterIsOwner /\ FailsOnlyWhenFull /\ SearchProgress /\ CallInFunctions
  BY DEF Init, RegisterIsOwner, FailsOnlyWhenFull, SearchProgress, CallInFunctions
<1> QED BY <1>2, <1>3, <1>4 DEF IInv

-----------------------------------------------------------------------------
(* A call begins: nothing but pc and call of one thread changes, and a      *)
(* search begins at slot 0 with the default id.                             *)
LEMMA EnterIInv ==
  ASSUME IInv, NEW t \in Threads, NEW f \in Functions, NEW s \in Sanitizers,
         NEW n \in Nodes \cup {NullNode}, Enter(t, f, s, n)
  PROVE  IInv'
<1> USE DEF IInv
<1>1. TypeOK'
  BY DEF TypeOK, Enter, Call
<1>2. OddSlotsFree' /\ OneSlotPerThread' /\ ClaimedPrefix' /\ RegisterIsOwner' /\ FailsOnlyWhenFull'
  BY DEF OddSlotsFree, OneSlotPerThread, ClaimedPrefix, RegisterIsOwner, FailsOnlyWhenFull, Enter
<1>3. SearchProgress'
  <2> SUFFICES ASSUME NEW u \in Threads, pc'[u] \in {"check", "cas"}
               PROVE  SearchAt(u)'
    BY DEF SearchProgress
  <2>1. CASE u = t
    <3>1. i'[u] = 0 /\ pc'[u] = "check" /\ init_id'[u] = NoThread
      BY <2>1 DEF Enter, CallInFunctions, TypeOK
    <3> QED BY <3>1 DEF SearchAt
  <2>2. CASE u # t
    <3>1. pc'[u] = pc[u] /\ call'[u] = call[u]
      BY <2>2 DEF Enter, TypeOK
    <3> QED BY <3>1 DEF Enter, SearchProgress, SearchAt
  <2> QED BY <2>1, <2>2
<1>4. CallInFunctions'
  BY DEF CallInFunctions, TypeOK, Enter
<1> QED BY <1>1, <1>2, <1>3, <1>4
-----------------------------------------------------------------------------
(* Construct ends the search of t with the register set to h: the parts of  *)
(* the invariant it leaves alone, and those it keeps for a suitable h.      *)
LEMMA ConstructIInv ==
  ASSUME IInv, NEW t \in Threads, pc[t] \in {"check", "cas"},
         NEW h \in (Sanitizers \X Slots) \cup {NoSlot}, Construct(t, h),
         UNCHANGED <<table, call>>,
         h # NoSlot => id_[h[1]][h[2]] = t,
         h = NoSlot => \E s \in Sanitizers : \A j \in Slots :
                         j % 2 = 0 => id_[s][j] \in Threads \ {t}
  PROVE  IInv'
<1> USE DEF IInv
<1>1. call[t].fn \in Functions
  BY DEF CallInFunctions
<1>2. TypeOK'
  BY <1>1, ThreadMaxAssumption DEF TypeOK, Construct
<1>3. OddSlotsFree' /\ OneSlotPerThread' /\ ClaimedPrefix'
  BY DEF OddSlotsFree, OneSlotPerThread, ClaimedPrefix
<1>4. RegisterIsOwner'
  BY <1>1 DEF RegisterIsOwner, TypeOK, Construct
<1>5. FailsOnlyWhenFull'
  <2> SUFFICES ASSUME NEW u \in Threads, NEW f \in made'[u], hp'[u][f] = NoSlot
               PROVE  \E s \in Sanitizers : \A j \in Slots :
                        j % 2 = 0 => id_[s][j] \in Threads \ {u}
    BY DEF FailsOnlyWhenFull
  <2>1. CASE u = t /\ f = call[t].fn
    BY <2>1, <1>1 DEF Construct, TypeOK
  <2>2. CASE ~(u = t /\ f = call[t].fn)
    <3>1. f \in made[u] /\ f \in Functions
      BY <2>2, <1>1 DEF Construct, TypeOK
    <3>2. hp[u][f] = NoSlot
      BY <2>2, <3>1 DEF Construct, TypeOK
    <3> QED BY <3>1, <3>2 DEF FailsOnlyWhenFull
  <2> QED BY <2>1, <2>2
<1>6. SearchProgress'
  <2> SUFFICES ASSUME NEW u \in Threads, pc'[u] \in {"check", "cas"}
               PROVE  SearchAt(u)'
    BY DEF SearchProgress
  <2>1. u # t /\ pc'[u] = pc[u] /\ i'[u] = i[u] /\ init_id'[u] = init_id[u]
    BY DEF Construct, TypeOK
  <2> QED BY <2>1 DEF SearchProgress, SearchAt
<1>7. CallInFunctions'
  BY <1>1 DEF CallInFunctions, TypeOK, Construct
<1> QED BY <1>2, <1>3, <1>4, <1>5, <1>6, <1>7

(* A search past the last slot saw every even slot owned by another thread. *)
LEMMA ExhaustedIInv ==
  ASSUME IInv, NEW t \in Threads, Exhausted(t)
  PROVE  IInv'
<1>1. SearchAt(t) /\ call[t].san \in Sanitizers /\ i[t] = ThreadMax
  BY DEF IInv, SearchProgress, Exhausted, TypeOK, Call
<1>2. \A j \in Slots : j % 2 = 0 => id_[call[t].san][j] \in Threads \ {t}
  BY <1>1, ThreadMaxAssumption DEF SearchAt
<1> QED
  BY <1>1, <1>2, ConstructIInv DEF Exhausted

(* A slot that already carries the id of t is returned, or tried next.      *)
LEMMA CheckIdIInv ==
  ASSUME IInv, NEW t \in Threads, CheckId(t)
  PROVE  IInv'
<1> DEFINE s == call[t].san
<1>0. s \in Sanitizers /\ i[t] \in Slots
  BY DEF IInv, TypeOK, Call, CheckId
<1>1. CASE id_[s][i[t]] = t
  <2>1. <<s, i[t]>> # NoSlot
    BY <1>0, NoSlotAssumption
  <2> QED
    BY <1>0, <1>1, <2>1, ConstructIInv DEF CheckId
<1>2. CASE id_[s][i[t]] # t
  <2> USE DEF IInv
  <2>1. pc' = [pc EXCEPT ![t] = "cas"] /\ UNCHANGED <<table, made, hp, call, i, init_id>>
    BY <1>2 DEF CheckId
  <2>2. TypeOK' /\ OddSlotsFree' /\ OneSlotPerThread' /\ RegisterIsOwner'
        /\ FailsOnlyWhenFull' /\ ClaimedPrefix'
    BY <2>1 DEF TypeOK, OddSlotsFree, OneSlotPerThread, RegisterIsOwner,
                FailsOnlyWhenFull, ClaimedPrefix
  <2>3. SearchProgress'
    BY <1>0, <1>2, <2>1 DEF SearchProgress, SearchAt, CheckId, TypeOK
  <2>4. CallInFunctions'
    BY <2>1 DEF CallInFunctions, CheckId, TypeOK
  <2> QED BY <2>2, <2>3, <2>4
<1> QED BY <1>1, <1>2

(* The heart of the matter: a compare_exchange succeeds only at an even     *)
(* slot that is free, and only if t has no slot in this table.              *)
LEMMA CasOkTakesFreeSlot ==
  ASSUME IInv, NEW t \in Threads, CasOk(t)
  PROVE  /\ call[t].san \in Sanitizers /\ i[t] \in Slots /\ i[t] % 2 = 0
         /\ id_[call[t].san][i[t]] = NoThread
         /\ \A j \in Slots : id_[call[t].san][j] # t
         /\ \A j \in Slots : j < i[t] /\ j % 2 = 0 => id_[call[t].san][j] \in Threads \ {t}
<1> DEFINE s == call[t].san
           k == i[t]
<1>1. s \in Sanitizers /\ SearchAt(t) /\ k \in Slots /\ id_[s][k] = init_id[t]
  BY DEF IInv, TypeOK, Call, CasOk, SearchProgress, SearchAt
<1>2. k % 2 = 0
  <2> SUFFICES ASSUME k % 2 = 1 PROVE FALSE
    BY <1>1, ThreadMaxAssumption
  <2>1. k - 1 \in Slots /\ (k - 1) % 2 = 0 /\ k - 1 < k
    BY <1>1, ThreadMaxAssumption
  <2>2. id_[s][k - 1] \in Threads /\ init_id[t] = id_[s][k - 1]
    BY <1>1, <2>1 DEF SearchAt
  <2>3. id_[s][k] = NoThread
    BY <1>1 DEF IInv, OddSlotsFree
  <2> QED BY <1>1, <2>2, <2>3, ThreadsAssumption
<1>3. id_[s][k] = NoThread
  BY <1>1, <1>2 DEF SearchAt
<1>4. ASSUME NEW j \in Slots PROVE id_[s][j] # t
  <2>1. CASE j % 2 = 1
    BY <1>1, <2>1, ThreadsAssumption DEF IInv, OddSlotsFree
  <2>2. CASE j % 2 = 0 /\ j < k
    BY <1>1, <2>2 DEF SearchAt
  <2>3. CASE j = k
    BY <1>3, <2>3, ThreadsAssumption
  <2>4. CASE k < j
    BY <1>1, <1>2, <1>3, <2>4, ThreadsAssumption DEF IInv, ClaimedPrefix
  <2> QED BY <1>1, <2>1, <2>2, <2>3, <2>4, ThreadMaxAssumption
<1> QED BY <1>1, <1>2, <1>3, <1>4 DEF SearchAt

LEMMA CasOkIInv ==
  ASSUME IInv, NEW t \in Threads, CasOk(t)
  PROVE  IInv'
<1> USE DEF IInv
<1> DEFINE s == call[t].san
           k == i[t]
<1>0. /\ s \in Sanitizers /\ k \in Slots /\ k % 2 = 0 /\ id_[s][k] = NoThread
      /\ \A j \in Slots : id_[s][j] # t
      /\ \A j \in Slots : j < k /\ j % 2 = 0 => id_[s][j] \in Threads \ {t}
  BY CasOkTakesFreeSlot
<1>1. call[t].fn \in Functions
  BY DEF CallInFunctions, CasOk
<1>2. id_' = [id_ EXCEPT ![s][k] = t]
  BY DEF CasOk
<1>3. \A r \in Sanitizers, j \in Slots :
        id_'[r][j] = IF r = s /\ j = k THEN t ELSE id_[r][j]
  BY <1>0, <1>2 DEF TypeOK
<1>4. TypeOK'
  BY <1>0, <1>1, <1>2, ThreadMaxAssumption DEF TypeOK, CasOk, Construct
<1>5. OddSlotsFree'
  BY <1>0, <1>3 DEF OddSlotsFree
<1>6. OneSlotPerThread'
  BY <1>0, <1>3 DEF OneSlotPerThread
<1>7. ClaimedPrefix'
  BY <1>0, <1>3, ThreadsAssumption DEF ClaimedPrefix
<1>8. RegisterIsOwner'
  <2> SUFFICES ASSUME NEW u \in Threads, NEW f \in Functions, hp'[u][f] # NoSlot
               PROVE  id_'[hp'[u][f][1]][hp'[u][f][2]] = u
    BY DEF RegisterIsOwner
  <2>1. CASE u = t /\ f = call[t].fn
    <3>1. hp'[u][f] = <<s, k>>
      BY <2>1 DEF CasOk, Construct, TypeOK
    <3> QED BY <3>1, <2>1, <1>0, <1>3
  <2>2. CASE ~(u = t /\ f = call[t].fn)
    <3>1. hp'[u][f] = hp[u][f]
      BY <2>2 DEF CasOk, Construct, TypeOK
    <3>2. hp[u][f] \in Sanitizers \X Slots
      BY <3>1 DEF TypeOK
    <3>3. id_[hp[u][f][1]][hp[u][f][2]] = u
      BY <3>1 DEF RegisterIsOwner
    <3> QED BY <3>1, <3>2, <3>3, <1>0, <1>3, ThreadsAssumption
  <2> QED BY <2>1, <2>2
<1>9. FailsOnlyWhenFull'
  <2> SUFFICES ASSUME NEW u \in Threads, NEW f \in made'[u], hp'[u][f] = NoSlot
               PROVE  \E r \in Sanitizers : \A j \in Slots :
                        j % 2 = 0 => id_'[r][j] \in Threads \ {u}
    BY DEF FailsOnlyWhenFull
  <2>1. f \in Functions /\ ~(u = t /\ f = call[t].fn)
    <3>1. f \in Functions
      BY <1>4 DEF TypeOK
    <3>2. <<s, k>> # NoSlot
      BY <1>0, NoSlotAssumption
    <3> QED BY <1>1, <3>1, <3>2 DEF CasOk, Construct, TypeOK
  <2>2. f \in made[u] /\ hp[u][f] = NoSlot
    BY <1>1, <2>1 DEF CasOk, Construct, TypeOK
  <2>3. PICK r \in Sanitizers : \A j \in Slots : j % 2 = 0 => id_[r][j] \in Threads \ {u}
    BY <2>2 DEF FailsOnlyWhenFull
  <2>4. r # s
    BY <2>3, <1>0, ThreadsAssumption
  <2> QED BY <2>3, <2>4, <1>3
<1>10. SearchProgress'
  <2> SUFFICES ASSUME NEW u \in Threads, pc'[u] \in {"check", "cas"}
               PROVE  SearchAt(u)'
    BY DEF SearchProgress
  <2>1. /\ u # t /\ pc'[u] = pc[u] /\ i'[u] = i[u] /\ init_id'[u] = init_id[u]
        /\ call'[u] = call[u]
    BY DEF CasOk, Construct, TypeOK
  <2>2. SearchAt(u) /\ call[u].san \in Sanitizers /\ i[u] \in 0 .. ThreadMax
    BY <2>1 DEF SearchProgress, TypeOK, Call
  <2>3. ASSUME NEW j \in Slots, j < i[u], j % 2 = 0
        PROVE  id_'[call[u].san][j] \in Threads \ {u}
    BY <2>1, <2>2, <2>3, <1>3 DEF SearchAt
  <2>4. i[u] % 2 = 1 => init_id[u] = id_'[call[u].san][i[u] - 1]
    <3> HAVE i[u] % 2 = 1
    <3>1. i[u] - 1 \in Slots /\ (i[u] - 1) % 2 = 0 /\ i[u] - 1 < i[u]
      BY <2>2, ThreadMaxAssumption
    <3>2. id_[call[u].san][i[u] - 1] \in Threads
      BY <2>2, <3>1 DEF SearchAt
    <3>3. ~(call[u].san = s /\ i[u] - 1 = k)
      BY <3>2, <1>0, ThreadsAssumption
    <3> QED BY <2>2, <3>1, <3>3, <1>3 DEF SearchAt
  <2>5. pc'[u] = "cas" => i[u] \in Slots /\ id_'[call[u].san][i[u]] # u
    BY <2>1, <2>2, <1>3 DEF SearchAt
  <2> QED BY <2>1, <2>2, <2>3, <2>4, <2>5 DEF SearchAt
<1>11. CallInFunctions'
  BY <1>1 DEF CallInFunctions, TypeOK, CasOk, Construct
<1> QED BY <1>4, <1>5, <1>6, <1>7, <1>8, <1>9, <1>10, <1>11

(* A failed compare_exchange moves on with the value it saw.                *)
LEMMA CasFailIInv ==
  ASSUME IInv, NEW t \in Threads, CasFail(t)
  PROVE  IInv'
<1> USE DEF IInv
<1> DEFINE s == call[t].san
           k == i[t]
<1>1. s \in Sanitizers /\ SearchAt(t) /\ k \in Slots /\ id_[s][k] # t
  BY DEF TypeOK, Call, CasFail, SearchProgress, SearchAt
<1>2. /\ init_id' = [init_id EXCEPT ![t] = id_[s][k]]
      /\ i' = [i EXCEPT ![t] = k + 1]
      /\ pc' = [pc EXCEPT ![t] = "check"]
      /\ UNCHANGED <<table, made, hp, call>>
  BY DEF CasFail
<1>3. TypeOK'
  BY <1>1, <1>2, ThreadMaxAssumption DEF TypeOK
<1>4. OddSlotsFree' /\ OneSlotPerThread' /\ ClaimedPrefix' /\ RegisterIsOwner' /\ FailsOnlyWhenFull'
  BY <1>2 DEF OddSlotsFree, OneSlotPerThread, ClaimedPrefix, RegisterIsOwner, FailsOnlyWhenFull
<1>5. SearchProgress'
  <2> SUFFICES ASSUME NEW u \in Threads, pc'[u] \in {"check", "cas"}
               PROVE  SearchAt(u)'
    BY DEF SearchProgress
  <2>1. CASE u # t
    <3>1. /\ pc'[u] = pc[u] /\ i'[u] = i[u] /\ init_id'[u] = init_id[u]
          /\ call' = call /\ id_' = id_
      BY <2>1, <1>2 DEF TypeOK
    <3>2. SearchAt(u)
      BY <3>1 DEF SearchProgress
    <3> QED BY <3>1, <3>2 DEF SearchAt
  <2>2. CASE u = t
    <3>1. i'[u] = k + 1 /\ init_id'[u] = id_[s][k] /\ pc'[u] = "check"
      BY <2>2, <1>2 DEF TypeOK
    <3>2. k % 2 = 0 => id_[s][k] \in Threads \ {t}
      <4>1. id_[s][k] # init_id[t]
        BY DEF CasFail
      <4>2. id_[s][k] \in Threads \cup {NoThread}
        <5>1. id_ \in [Sanitizers -> [Slots -> Threads \cup {NoThread}]]
          BY DEF TypeOK
        <5> QED BY <1>1, <5>1
      <4>3. k % 2 = 0 => init_id[t] = NoThread
        BY <1>1 DEF SearchAt
      <4> QED BY <1>1, <4>1, <4>2, <4>3
    <3>3. k % 2 = 1 => id_[s][k] = NoThread
      BY <1>1 DEF OddSlotsFree
    <3>4. \A j \in Slots : j < k + 1 /\ j % 2 = 0 => id_[s][j] \in Threads \ {t}
      BY <1>1, <3>2, ThreadMaxAssumption DEF SearchAt
    <3>5. (k + 1) % 2 = 0 => k % 2 = 1
      BY <1>1, ThreadMaxAssumption
    <3>6. (k + 1) - 1 = k
      BY <1>1, ThreadMaxAssumption
    <3>7. call'[u].san = s /\ id_' = id_ /\ u = t
      BY <2>2, <1>2
    <3>8. \A j \in Slots : j < i'[u] /\ j % 2 = 0 => id_'[call'[u].san][j] \in Threads \ {u}
      BY <3>1, <3>4, <3>7
    <3>9. /\ i'[u] % 2 = 0 => init_id'[u] = NoThread
          /\ i'[u] % 2 = 1 => init_id'[u] = id_'[call'[u].san][i'[u] - 1]
      BY <3>1, <3>3, <3>5, <3>6, <3>7
    <3> QED BY <3>1, <3>8, <3>9 DEF SearchAt
  <2> QED BY <2>1, <2>2
<1>6. CallInFunctions'
  BY <1>2 DEF CallInFunctions, TypeOK, CasFail
<1> QED BY <1>3, <1>4, <1>5, <1>6

(* One cell of a table indexed by sanitizer and slot is replaced.           *)
LEMMA CellUpdate ==
  ASSUME NEW V, NEW f \in [Sanitizers -> [Slots -> V]],
         NEW r \in Sanitizers, NEW j \in Slots, NEW v \in V
  PROVE  [f EXCEPT ![r][j] = v] \in [Sanitizers -> [Slots -> V]]
OBVIOUS

(* The body of a call touches only the hazard pointers.                     *)
LEMMA BodyIInv ==
  ASSUME IInv, NEW t \in Threads, Body(t)
  PROVE  IInv'
<1> USE DEF IInv
<1> DEFINE h == hp[t][call[t].fn]
<1>1. call[t].fn \in Functions /\ h \in (Sanitizers \X Slots) \cup {NoSlot}
  BY DEF CallInFunctions, Body, TypeOK
<1>2. NoCall \in Call
  BY SanitizersAssumption DEF NoCall, Call
<1>3. /\ pc' = [pc EXCEPT ![t] = "idle"]
      /\ call' = [call EXCEPT ![t] = NoCall]
      /\ UNCHANGED <<id_, made, hp, i, init_id>>
  BY DEF Body
<1>4. /\ accessing_ptrs_' \in [Sanitizers -> [Slots -> [0 .. Sz - 1 -> Nodes \cup {NullNode}]]]
      /\ next_pos' \in [Sanitizers -> [Slots -> 0 .. Sz - 1]]
  <2>1. CASE Refused(t) /\ UNCHANGED <<accessing_ptrs_, next_pos>>
    BY <2>1 DEF TypeOK
  <2>2. CASE ~Refused(t) /\ call[t].fn = "Store" /\ StorePtr(h, call[t].node)
    <3>1. h \in Sanitizers \X Slots /\ call[t].node \in Nodes
      BY <2>2, <1>1 DEF Refused, TypeOK, Call
    <3>2. PICK r \in Sanitizers, j \in Slots : h = <<r, j>>
      BY <3>1
    <3>3. /\ next_pos \in [Sanitizers -> [Slots -> 0 .. 1]]
          /\ accessing_ptrs_ \in [Sanitizers -> [Slots -> [0 .. 1 -> Nodes \cup {NullNode}]]]
      BY DEF TypeOK
    <3>4. /\ accessing_ptrs_' = [accessing_ptrs_ EXCEPT ![r][j][next_pos[r][j]] = call[t].node]
          /\ next_pos' = [next_pos EXCEPT ![r][j] = (next_pos[r][j] + 1) % 2]
      BY <2>2, <3>2 DEF StorePtr
    <3>5. next_pos[r][j] \in 0 .. 1
      BY <3>3
    <3> DEFINE new_pos == (next_pos[r][j] + 1) % 2
               cell == [accessing_ptrs_[r][j] EXCEPT ![next_pos[r][j]] = call[t].node]
    <3>6. new_pos \in 0 .. 1
      BY <3>5
    <3>7. cell \in [0 .. 1 -> Nodes \cup {NullNode}]
      <4>1. accessing_ptrs_[r][j] \in [0 .. 1 -> Nodes \cup {NullNode}]
        BY <3>3
      <4> QED BY <3>1, <3>5, <4>1
    <3>8. /\ accessing_ptrs_' = [accessing_ptrs_ EXCEPT ![r][j] = cell]
          /\ next_pos' = [next_pos EXCEPT ![r][j] = new_pos]
      BY <3>4
    <3> HIDE DEF h, cell, new_pos
    <3> QED BY <3>3, <3>6, <3>7, <3>8, CellUpdate
  <2>3. CASE ~Refused(t) /\ call[t].fn = "Deaccess" /\ DropPtr(h, call[t].node)
    <3>1. h \in Sanitizers \X Slots
      BY <2>3, <1>1 DEF Refused
    <3>2. PICK r \in Sanitizers, j \in Slots : h = <<r, j>>
      BY <3>1
    <3>3. /\ next_pos \in [Sanitizers -> [Slots -> 0 .. 1]]
          /\ accessing_ptrs_ \in [Sanitizers -> [Slots -> [0 .. 1 -> Nodes \cup {NullNode}]]]
      BY DEF TypeOK
    <3> DEFINE n == call[t].node
               row == accessing_ptrs_[r][j]
               cleared == [q \in 0 .. 1 |-> IF row[q] = n THEN NullNode ELSE row[q]]
    <3>4. /\ accessing_ptrs_' = [accessing_ptrs_ EXCEPT ![r][j] = cleared]
          /\ next_pos' = next_pos
      BY <2>3, <3>2 DEF DropPtr
    <3>5. cleared \in [0 .. 1 -> Nodes \cup {NullNode}]
      <4>1. row \in [0 .. 1 -> Nodes \cup {NullNode}]
        BY <3>3
      <4> HIDE DEF row, n
      <4> QED BY <4>1
    <3> HIDE DEF cleared
    <3> QED BY <3>3, <3>4, <3>5, CellUpdate
  <2>4. CASE ~Refused(t) /\ call[t].fn = "Reset" /\ ResetCache(h)
    BY <2>4, <1>1 DEF Refused, TypeOK, ResetCache
  <2> QED BY <2>1, <2>2, <2>3, <2>4 DEF Body
<1>5. TypeOK'
  BY <1>2, <1>3, <1>4 DEF TypeOK
<1>6. OddSlotsFree' /\ OneSlotPerThread' /\ ClaimedPrefix' /\ RegisterIsOwner' /\ FailsOnlyWhenFull'
  BY <1>3 DEF OddSlotsFree, OneSlotPerThread, ClaimedPrefix, RegisterIsOwner, FailsOnlyWhenFull
<1>7. SearchProgress' /\ CallInFunctions'
  BY <1>3 DEF SearchProgress, SearchAt, CallInFunctions, Body, TypeOK
<1> QED BY <1>5, <1>6, <1>7

(* The end of a thread forgets its registers and leaves the table.          *)
LEMMA ThreadExitIInv ==
  ASSUME IInv, NEW t \in Threads, ThreadExit(t)
  PROVE  IInv'
<1> USE DEF IInv
<1>1. TypeOK' /\ OddSlotsFree' /\ OneSlotPerThread' /\ ClaimedPrefix'
  BY DEF TypeOK, OddSlotsFree, OneSlotPerThread, ClaimedPrefix, ThreadExit
<1>2. RegisterIsOwner' /\ FailsOnlyWhenFull'
  BY DEF RegisterIsOwner, FailsOnlyWhenFull, ThreadExit, TypeOK
<1>3. SearchProgress' /\ CallInFunctions'
  BY DEF SearchProgress, SearchAt, CallInFunctions, ThreadExit
<1> QED BY <1>1, <1>2, <1>3

-----------------------------------------------------------------------------
(* IInv is inductive.                                                       *)
LEMMA StepIInv == IInv /\ [Next]_vars => IInv'
<1> SUFFICES ASSUME IInv, [Next]_vars PROVE IInv'
  OBVIOUS
<1>1. CASE UNCHANGED vars
  BY <1>1 DEF vars, IInv, TypeOK, OddSlotsFree, OneSlotPerThread, RegisterIsOwner,
     FailsOnlyWhenFull, ClaimedPrefix, SearchProgress, SearchAt, CallInFunctions
<1>2. ASSUME NEW t \in Threads, Access(t) \/ Deaccess(t) \/ Reset(t) PROVE IInv'
  <2>0. Uses[t] \subseteq Functions
    BY UsesAssumption
  <2>1. CASE Access(t)
    BY <2>0, <2>1, EnterIInv DEF Access
  <2>2. CASE Deaccess(t)
    BY <2>0, <2>2, EnterIInv DEF Deaccess
  <2>3. CASE Reset(t)
    BY <2>0, <2>3, EnterIInv DEF Reset
  <2> QED BY <1>2, <2>1, <2>2, <2>3
<1>3. ASSUME NEW t \in Threads, Register(t) \/ Body(t) \/ ThreadExit(t) PROVE IInv'
  BY <1>3, ExhaustedIInv, CheckIdIInv, CasOkIInv, CasFailIInv, BodyIInv, ThreadExitIInv
     DEF Register
<1> QED BY <1>1, <1>2, <1>3 DEF Next

(* Every reachable state satisfies the inductive invariant.                 *)
THEOREM Inductive == Spec => []IInv
BY InitIInv, StepIInv, PTL DEF Spec

(* The loop index, the cache position and the tables stay in their ranges.  *)
THEOREM TypeCorrect == Spec => []TypeOK
<1>1. IInv => TypeOK
  BY DEF IInv
<1> QED BY <1>1, Inductive, PTL

(* A thread owns at most one slot of a table, and its registers are slots   *)
(* it owns: the hazard pointers of _RegisterThread are never shared.        *)
THEOREM SlotsNotShared == Spec => [](OneSlotPerThread /\ RegisterIsOwner)
<1>1. IInv => OneSlotPerThread /\ RegisterIsOwner
  BY DEF IInv
<1> QED BY <1>1, Inductive, PTL

(* The registers of one thread agree on their slot of a sanitizer.          *)
THEOREM RegistersAlwaysAgree == Spec => []RegistersAgree
<1>1. IInv => RegistersAgree
  <2> SUFFICES ASSUME IInv, NEW t \in Threads, NEW f \in made[t], NEW g \in made[t],
                      hp[t][f] # NoSlot, hp[t][g] # NoSlot, hp[t][f][1] = hp[t][g][1]
               PROVE  hp[t][f] = hp[t][g]
    BY DEF RegistersAgree
  <2>1. f \in Functions /\ g \in Functions
    BY DEF IInv, TypeOK
  <2>2. hp[t][f] \in Sanitizers \X Slots /\ hp[t][g] \in Sanitizers \X Slots
    BY <2>1 DEF IInv, TypeOK
  <2>3. id_[hp[t][f][1]][hp[t][f][2]] = t /\ id_[hp[t][g][1]][hp[t][g][2]] = t
    BY <2>1 DEF IInv, RegisterIsOwner
  <2>4. hp[t][f][2] = hp[t][g][2]
    BY <2>2, <2>3, ThreadsAssumption DEF IInv, OneSlotPerThread
  <2> QED BY <2>2, <2>4
<1> QED BY <1>1, Inductive, PTL

(* No odd slot is ever claimed: the table registers half of _ThreadMax.     *)
THEOREM HalfTheTable == Spec => []OddSlotsFree
<1>1. IInv => OddSlotsFree
  BY DEF IInv
<1> QED BY <1>1, Inductive, PTL

(* Registration fails only when every slot it can claim has another owner.  *)
THEOREM NullOnlyWhenFull == Spec => []FailsOnlyWhenFull
<1>1. IInv => FailsOnlyWhenFull
  BY DEF IInv
<1> QED BY <1>1, Inductive, PTL

(* A claimed slot never changes hands.                                      *)
THEOREM ClaimedForever == Spec => NoSlotStolen
<1>1. IInv /\ [Next]_vars => [\A s \in Sanitizers, j \in Slots :
        id_[s][j] # NoThread => id_'[s][j] = id_[s][j]]_vars
  <2> SUFFICES ASSUME IInv, Next, NEW s \in Sanitizers, NEW j \in Slots,
                      id_[s][j] # NoThread
               PROVE  id_'[s][j] = id_[s][j]
    OBVIOUS
  <2>1. CASE \E t \in Threads : CasOk(t)
    <3>1. PICK t \in Threads : CasOk(t)
      BY <2>1
    <3>2. id_[call[t].san][i[t]] = NoThread
      BY <3>1, CasOkTakesFreeSlot
    <3> QED BY <3>1, <3>2 DEF CasOk, IInv, TypeOK
  <2>2. CASE ~ \E t \in Threads : CasOk(t)
    BY <2>2 DEF Next, Access, Deaccess, Reset, Enter, Register, Exhausted, CheckId,
       CasFail, Body, ThreadExit
  <2> QED BY <2>1, <2>2
<1> QED BY <1>1, Inductive, PTL DEF Spec, NoSlotStolen

(* The hazard pointers of a slot are written by its owner only, which is    *)
(* why next_available_cache_pos may be a plain int.                         *)
THEOREM WrittenByOwner == Spec => OnlyOwnerWrites
<1>1. IInv /\ [Next]_vars => [\A s \in Sanitizers, j \in Slots :
        accessing_ptrs_'[s][j] # accessing_ptrs_[s][j] =>
          \E t \in Threads : id_[s][j] = t /\ pc[t] = "body" /\ pc'[t] = "idle"]_vars
  <2> SUFFICES ASSUME IInv, Next, NEW s \in Sanitizers, NEW j \in Slots,
                      accessing_ptrs_'[s][j] # accessing_ptrs_[s][j]
               PROVE  \E t \in Threads : id_[s][j] = t /\ pc[t] = "body" /\ pc'[t] = "idle"
    OBVIOUS
  <2>1. PICK t \in Threads : Body(t)
    BY DEF Next, Access, Deaccess, Reset, Enter, Register, Exhausted, CheckId, CasOk,
       CasFail, ThreadExit
  <2> DEFINE h == hp[t][call[t].fn]
  <2>2. call[t].fn \in Functions /\ h \in (Sanitizers \X Slots) \cup {NoSlot}
    BY <2>1 DEF IInv, CallInFunctions, Body, TypeOK
  <2>3. h \in Sanitizers \X Slots
    BY <2>1, <2>2 DEF Body, Refused
  <2>4. accessing_ptrs_ \in [Sanitizers -> [Slots -> [0 .. Sz - 1 -> Nodes \cup {NullNode}]]]
    BY DEF IInv, TypeOK
  <2>5. h[1] = s /\ h[2] = j
    <3>1. PICK r \in Sanitizers, q \in Slots : h = <<r, q>>
      BY <2>3
    <3>2. \E v : accessing_ptrs_' = [accessing_ptrs_ EXCEPT ![r][q] = v]
      <4> HIDE DEF h
      <4>1. CASE StorePtr(h, call[t].node)
        BY <4>1, <3>1 DEF StorePtr
      <4>2. CASE DropPtr(h, call[t].node)
        BY <4>2, <3>1 DEF DropPtr
      <4>3. CASE ResetCache(h)
        BY <4>3, <3>1 DEF ResetCache
      <4>4. StorePtr(h, call[t].node) \/ DropPtr(h, call[t].node) \/ ResetCache(h)
        BY <2>1 DEF Body, h
      <4> QED BY <4>1, <4>2, <4>3, <4>4
    <3>3. PICK v : accessing_ptrs_' = [accessing_ptrs_ EXCEPT ![r][q] = v]
      BY <3>2
    <3>4. r = s /\ q = j
      <4> HIDE DEF h
      <4> QED BY <2>4, <3>3
    <3> QED BY <3>1, <3>4
  <2>6. id_[s][j] = t
    BY <2>2, <2>3, <2>5, NoSlotAssumption DEF IInv, RegisterIsOwner
  <2>7. pc[t] = "body" /\ pc'[t] = "idle"
    BY <2>1 DEF Body, IInv, TypeOK
  <2> QED BY <2>6, <2>7
<1> QED BY <1>1, Inductive, PTL DEF Spec, OnlyOwnerWrites
=============================================================================
