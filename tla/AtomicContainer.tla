-------------------------- MODULE AtomicContainer --------------------------
(***************************************************************************)
(* What LockFreeListStack and LockFreeListQueue promise their callers: each  *)
(* Push and each Pop takes effect at one instant between its call and its    *)
(* return, on a stack (Lifo) or on a queue.                                  *)
(***************************************************************************)
EXTENDS Sequences

CONSTANTS Threads, Values, NoValue, Lifo

VARIABLES
  items,   \* the next one to pop first
  op       \* what each thread is in the middle of

Idle == [kind |-> "idle", val |-> NoValue]

Init == items = <<>> /\ op = [t \in Threads |-> Idle]

CallPush(t, v) ==
  /\ op[t] = Idle
  /\ op' = [op EXCEPT ![t] = [kind |-> "push", val |-> v]]
  /\ UNCHANGED items

CallPop(t) ==
  /\ op[t] = Idle
  /\ op' = [op EXCEPT ![t] = [kind |-> "pop", val |-> NoValue]]
  /\ UNCHANGED items

Push(t) ==
  /\ op[t].kind = "push"
  /\ items' = IF Lifo THEN <<op[t].val>> \o items ELSE Append(items, op[t].val)
  /\ op' = [op EXCEPT ![t] = [kind |-> "pushed", val |-> NoValue]]

Pop(t) ==
  /\ op[t].kind = "pop" /\ items # <<>>
  /\ items' = Tail(items)
  /\ op' = [op EXCEPT ![t] = [kind |-> "popped", val |-> Head(items)]]

(* A Pop that finds nothing returns null. *)
PopEmpty(t) ==
  /\ op[t].kind = "pop" /\ items = <<>>
  /\ op' = [op EXCEPT ![t] = Idle]
  /\ UNCHANGED items

Return(t) ==
  /\ op[t].kind \in {"pushed", "popped"}
  /\ op' = [op EXCEPT ![t] = Idle]
  /\ UNCHANGED items

(* Every action moves the operation of its thread: said first, it spares TLC *)
(* the others when it checks a step against Next.                           *)
Next == \E t \in Threads :
  /\ op'[t] # op[t]
  /\ \/ \E v \in Values : CallPush(t, v)
     \/ CallPop(t) \/ Push(t) \/ Pop(t) \/ PopEmpty(t) \/ Return(t)

Spec == Init /\ [][Next]_<<items, op>>
=============================================================================
