----------------------------- MODULE RingProofs -----------------------------
(***************************************************************************)
(* Proofs about the two kinds of ring that nanolog passes its messages      *)
(* through: the queues of io_uring (IoUring) and the buffer of a logging     *)
(* thread (LoggerRing).                                                      *)
(***************************************************************************)
EXTENDS IoUring, LoggerRing, SequenceTheorems, TLAPS

-----------------------------------------------------------------------------
(* IoUring, for any number of requests with any helpers, and queues of any   *)
(* size.  First the arithmetic of counters that wrap at a multiple of the    *)
(* size, then QueuesInv, which is inductive, then what it says of the entries*)
(* and of the completions.                                                  *)

(* Multiplication, in the forms in which the proofs below need it.          *)
LEMMA Distribute ==
  ASSUME NEW m \in Int, NEW k \in Int, NEW l \in Int
  PROVE  m * (k + l) = m * k + m * l
  BY Z3

LEMMA Associate ==
  ASSUME NEW m \in Int, NEW k \in Int, NEW l \in Int
  PROVE  m * (k * l) = (m * k) * l
  BY Z3

LEMMA SmallMultiple ==
  ASSUME NEW m \in Nat \ {0}, NEW q \in Int, -m < m * q, m * q < m
  PROVE  q = 0
  BY Z3

(* Division with a remainder.  Rem hides the operator from the provers, which *)
(* otherwise reason about it themselves and find nothing.                    *)
Rem(a, m) == a % m

(* There are a quotient and a remainder.                                    *)
LEMMA Division ==
  ASSUME NEW a \in Int, NEW m \in Nat \ {0}
  PROVE  \E q \in Int, r \in 0..(m - 1) : a = m * q + r /\ Rem(a, m) = r
<1>1. a % m \in 0..(m - 1) /\ a \div m \in Int /\ a = m * (a \div m) + (a % m)
  OBVIOUS
<1> QED BY <1>1 DEF Rem

(* The remainder is the only one.                                           *)
LEMMA RemIs ==
  ASSUME NEW a \in Int, NEW m \in Nat \ {0}, NEW q \in Int, NEW r \in 0..(m - 1), a = m * q + r
  PROVE  Rem(a, m) = r
<1>1. PICK k \in Int, s \in 0..(m - 1) : a = m * k + s /\ Rem(a, m) = s
  BY Division
<1>2. PICK d \in Int : k = q + d
  <2>1. k - q \in Int /\ k = q + (k - q)
    OBVIOUS
  <2> QED BY <2>1
<1>3. m * d = r - s
  <2>1. m * k = m * q + m * d
    BY <1>2, Distribute
  <2> QED BY <1>1, <2>1
<1>4. d = 0
  BY <1>3, SmallMultiple
<1> QED BY <1>1, <1>2, <1>4

(* Two numbers less than m apart differ in their remainders.                *)
LEMMA RemInjective ==
  ASSUME NEW m \in Nat \ {0}, NEW a \in Int, NEW b \in Int, Rem(a, m) = Rem(b, m),
         -m < a - b, a - b < m
  PROVE  a = b
<1>1. PICK k \in Int, r \in 0..(m - 1) : a = m * k + r /\ Rem(a, m) = r
  BY Division
<1>2. PICK l \in Int, s \in 0..(m - 1) : b = m * l + s /\ Rem(b, m) = s
  BY Division
<1>3. PICK d \in Int : k = l + d
  <2>1. k - l \in Int /\ k = l + (k - l)
    OBVIOUS
  <2> QED BY <2>1
<1>4. m * d = a - b
  <2>1. m * k = m * l + m * d
    BY <1>3, Distribute
  <2> QED BY <1>1, <1>2, <2>1
<1>5. d = 0
  BY <1>4, SmallMultiple
<1> QED BY <1>1, <1>2, <1>3, <1>5

(* A remainder taken before adding makes no difference.                     *)
LEMMA RemPlusRem ==
  ASSUME NEW m \in Nat \ {0}, NEW a \in Int, NEW b \in Int
  PROVE  Rem(Rem(a, m) + b, m) = Rem(a + b, m)
<1>1. PICK k \in Int, r \in 0..(m - 1) : a = m * k + r /\ Rem(a, m) = r
  BY Division
<1>2. PICK c \in Int : c = r + b
  OBVIOUS
<1>3. PICK l \in Int, s \in 0..(m - 1) : c = m * l + s /\ Rem(c, m) = s
  BY Division
<1>4. PICK d \in Int, q \in Int : d = a + b /\ q = k + l
  OBVIOUS
<1>5. d = m * q + s
  <2>1. m * q = m * k + m * l
    BY <1>4, Distribute
  <2> QED BY <1>1, <1>2, <1>3, <1>4, <2>1
<1>6. Rem(d, m) = s
  BY <1>5, RemIs
<1> QED BY <1>1, <1>2, <1>3, <1>4, <1>6

(* Counters that wrap at a multiple of the size still point to their slot.   *)
LEMMA RemOfRem ==
  ASSUME NEW s \in Nat \ {0}, NEW m \in Nat \ {0}, Rem(m, s) = 0, NEW a \in Int
  PROVE  Rem(Rem(a, m), s) = Rem(a, s)
<1>1. PICK k \in Int : m = s * k
  <2>0. m \in Int
    OBVIOUS
  <2>1. PICK k \in Int, r \in 0..(s - 1) : m = s * k + r /\ Rem(m, s) = r
    BY <2>0, Division
  <2> QED BY <2>1
<1>2. PICK q \in Int, b \in 0..(m - 1) : a = m * q + b /\ Rem(a, m) = b
  BY Division
<1>3. PICK p \in Int, r \in 0..(s - 1) : b = s * p + r /\ Rem(b, s) = r
  <2>1. b \in Int
    OBVIOUS
  <2> QED BY <2>1, Division
<1>4. PICK n \in Int, t \in Int : n = k * q /\ t = n + p
  OBVIOUS
<1>5. a = s * t + r
  <2>1. s * t = s * n + s * p
    BY <1>4, Distribute
  <2>2. s * n = m * q
    BY <1>1, <1>4, Associate
  <2> QED BY <1>2, <1>3, <2>1, <2>2
<1>6. Rem(a, s) = r
  BY <1>5, RemIs
<1> QED BY <1>2, <1>3, <1>6

-----------------------------------------------------------------------------
(* The counters and the slots they point to.                                *)

Counters == 0..(Modulus - 1)
IsSize(s) == s \in Nat \ {0} /\ s + 1 < Modulus /\ Rem(Modulus, s) = 0
Slot(h, i, s) == Plus(h, i - 1) % s

(* The sizes that the constants give.                                       *)
LEMMA Sizes == IsSize(Entries) /\ IsSize(CqEntries) /\ Modulus \in Nat \ {0, 1}
  BY UringAssumption DEF IsSize, Rem

(* A counter wraps at most once when it moves on.                           *)
LEMMA PlusSmall ==
  ASSUME NEW a \in Counters, NEW n \in 0..Modulus
  PROVE  /\ Plus(a, n) = IF a + n < Modulus THEN a + n ELSE a + n - Modulus
         /\ Plus(a, n) \in Counters
<1>0. Modulus \in Nat \ {0} /\ Plus(a, n) = Rem(a + n, Modulus)
  BY Sizes DEF Plus, Rem
<1>1. CASE a + n < Modulus
  <2>1. a + n = Modulus * 0 + (a + n)
    BY <1>0 DEF Counters
  <2>2. Rem(a + n, Modulus) = a + n
    BY <1>0, <1>1, <2>1, RemIs DEF Counters
  <2> QED BY <1>0, <1>1, <2>2 DEF Counters
<1>2. CASE a + n >= Modulus
  <2>1. a + n = Modulus * 1 + (a + n - Modulus)
    BY <1>0 DEF Counters
  <2>2. Rem(a + n, Modulus) = a + n - Modulus
    BY <1>0, <1>2, <2>1, RemIs DEF Counters
  <2> QED BY <1>0, <1>2, <2>2 DEF Counters
<1> QED BY <1>0, <1>1, <1>2 DEF Counters

(* The difference of two counters, across a wrap.                           *)
LEMMA MinusSmall ==
  ASSUME NEW a \in Counters, NEW b \in Counters
  PROVE  /\ Minus(a, b) = IF a >= b THEN a - b ELSE a - b + Modulus
         /\ Minus(a, b) \in Counters
<1>0. Modulus \in Nat \ {0} /\ Minus(a, b) = Rem(a - b, Modulus)
  BY Sizes DEF Minus, Rem
<1>1. CASE a >= b
  <2>1. a - b = Modulus * 0 + (a - b)
    BY <1>0 DEF Counters
  <2>2. Rem(a - b, Modulus) = a - b
    BY <1>0, <1>1, <2>1, RemIs DEF Counters
  <2> QED BY <1>0, <1>1, <2>2 DEF Counters
<1>2. CASE a < b
  <2>1. a - b = Modulus * (-1) + (a - b + Modulus)
    BY <1>0 DEF Counters
  <2>2. Rem(a - b, Modulus) = a - b + Modulus
    BY <1>0, <1>2, <2>1, RemIs DEF Counters
  <2> QED BY <1>0, <1>2, <2>2 DEF Counters
<1> QED BY <1>0, <1>1, <1>2 DEF Counters

(* How many are between the head and the tail, when either moves on.         *)
LEMMA ReadyFacts ==
  ASSUME NEW t \in Counters, NEW h \in Counters
  PROVE  /\ Minus(t, h) \in Counters
         /\ t = Plus(h, Minus(t, h))
         /\ Minus(t, h) + 1 < Modulus => Minus(Plus(t, 1), h) = Minus(t, h) + 1
         /\ \A n \in 0..Minus(t, h) : Minus(t, Plus(h, n)) = Minus(t, h) - n
<1>0. Modulus \in Nat \ {0, 1}
  BY Sizes
<1>1. PICK d \in Counters : d = Minus(t, h)
  BY MinusSmall
<1>2. t = IF h + d < Modulus THEN h + d ELSE h + d - Modulus
  <2>1. d = IF t >= h THEN t - h ELSE t - h + Modulus
    BY <1>1, MinusSmall
  <2> QED BY <1>0, <2>1 DEF Counters
<1>3. t = Plus(h, d)
  BY <1>0, <1>2, PlusSmall DEF Counters
<1>4. ASSUME d + 1 < Modulus PROVE Minus(Plus(t, 1), h) = d + 1
  <2>0. 1 \in 0..Modulus
    BY <1>0
  <2>1. PICK u \in Counters : u = Plus(t, 1)
    BY <2>0, PlusSmall
  <2>2. u = IF t + 1 < Modulus THEN t + 1 ELSE t + 1 - Modulus
    BY <2>0, <2>1, PlusSmall
  <2>3. Minus(u, h) = IF u >= h THEN u - h ELSE u - h + Modulus
    BY MinusSmall
  <2> QED BY <1>0, <1>2, <1>4, <2>1, <2>2, <2>3 DEF Counters
<1>5. ASSUME NEW n \in 0..d PROVE Minus(t, Plus(h, n)) = d - n
  <2>0. n \in 0..Modulus
    BY <1>0 DEF Counters
  <2>1. PICK u \in Counters : u = Plus(h, n)
    BY <2>0, PlusSmall
  <2>2. u = IF h + n < Modulus THEN h + n ELSE h + n - Modulus
    BY <2>0, <2>1, PlusSmall
  <2>3. Minus(t, u) = IF t >= u THEN t - u ELSE t - u + Modulus
    BY MinusSmall
  <2> QED BY <1>0, <1>2, <2>1, <2>2, <2>3 DEF Counters
<1> QED BY <1>1, <1>3, <1>4, <1>5

(* A counter's wrap does not show in its slot.                              *)
LEMMA SlotRem ==
  ASSUME NEW s, IsSize(s), NEW a \in Int
  PROVE  Rem(Rem(a, Modulus), s) = Rem(a, s) /\ Rem(a, s) \in 0..(s - 1)
<1>1. s \in Nat \ {0} /\ Modulus \in Nat \ {0} /\ Rem(Modulus, s) = 0
  BY Sizes DEF IsSize
<1>2. Rem(Rem(a, Modulus), s) = Rem(a, s)
  BY <1>1, RemOfRem
<1>3. PICK q \in Int, r \in 0..(s - 1) : a = s * q + r /\ Rem(a, s) = r
  BY <1>1, Division
<1> QED BY <1>2, <1>3

LEMMA SlotFacts ==
  ASSUME NEW s, IsSize(s), NEW h \in Counters, NEW i \in Nat \ {0}
  PROVE  Slot(h, i, s) = Rem(h + (i - 1), s) /\ Slot(h, i, s) \in 0..(s - 1)
<1>1. PICK a \in Int : a = h + (i - 1)
  BY Sizes DEF Counters
<1>2. Slot(h, i, s) = Rem(Rem(a, Modulus), s)
  BY <1>1 DEF Slot, Plus, Rem
<1> QED BY <1>1, <1>2, SlotRem

(* The entries of a queue that is not overfull are in slots of their own.   *)
LEMMA SlotInjective ==
  ASSUME NEW s, IsSize(s), NEW h \in Counters, NEW i \in 1..s, NEW j \in 1..s,
         Slot(h, i, s) = Slot(h, j, s)
  PROVE  i = j
<1>1. s \in Nat \ {0} /\ h \in Int
  BY Sizes DEF IsSize, Counters
<1>2. i \in Nat \ {0} /\ j \in Nat \ {0}
  BY <1>1
<1>3. PICK a \in Int, b \in Int : a = h + (i - 1) /\ b = h + (j - 1)
  BY <1>1
<1>4. Rem(a, s) = Rem(b, s)
  BY <1>2, <1>3, SlotFacts
<1>5. a = b
  BY <1>1, <1>3, <1>4, RemInjective
<1> QED BY <1>1, <1>3, <1>5

(* The slots stay when the head moves on.                                   *)
LEMMA SlotShift ==
  ASSUME NEW s, NEW h \in Counters, NEW n \in Nat, NEW i \in Nat \ {0}
  PROVE  Slot(Plus(h, n), i, s) = Slot(h, n + i, s)
<1>1. Modulus \in Nat \ {0} /\ h \in Int
  BY Sizes DEF Counters
<1>2. PICK a \in Int, b \in Int : a = h + n /\ b = i - 1
  BY <1>1
<1>3. Rem(Rem(a, Modulus) + b, Modulus) = Rem(a + b, Modulus)
  BY <1>1, RemPlusRem
<1>4. a + b = h + ((n + i) - 1)
  BY <1>1, <1>2
<1>5. Plus(Plus(h, n), i - 1) = Rem(Rem(a, Modulus) + b, Modulus)
  BY <1>2 DEF Plus, Rem
<1>6. Plus(h, (n + i) - 1) = Rem(a + b, Modulus)
  BY <1>4 DEF Plus, Rem
<1> QED BY <1>3, <1>5, <1>6 DEF Slot

(* The slots that the head and the tail point to.                           *)
LEMMA SlotEnds ==
  ASSUME NEW s, NEW h \in Counters, NEW t \in Counters
  PROVE  Slot(h, 1, s) = h % s /\ Slot(h, Minus(t, h) + 1, s) = t % s
<1>1. Modulus \in Nat \ {0} /\ h \in Int
  BY Sizes DEF Counters
<1>2. Plus(h, 0) = h
  BY <1>1, PlusSmall DEF Counters
<1>3. PICK d \in Counters : d = Minus(t, h) /\ t = Plus(h, d)
  BY ReadyFacts
<1>4. 1 - 1 = 0 /\ (d + 1) - 1 = d
  BY DEF Counters
<1> QED BY <1>2, <1>3, <1>4 DEF Slot

(* io_uring_cq_advance(1) clears the head's slot and no other.              *)
LEMMA Cleared ==
  ASSUME NEW s, IsSize(s), NEW h \in Counters, NEW i \in 0..(s - 1)
  PROVE  (Minus(i, h) % s) < 1 <=> i = h % s
<1>1. s \in Nat \ {0} /\ h \in Int
  BY Sizes DEF IsSize, Counters
<1>2. PICK a \in Int : a = i - h
  BY <1>1
<1>3. Minus(i, h) % s = Rem(a, s)
  <2>1. Minus(i, h) % s = Rem(Rem(a, Modulus), s)
    BY <1>2 DEF Minus, Rem
  <2> QED BY <2>1, SlotRem
<1>4. PICK p \in Int, r \in 0..(s - 1) : h = s * p + r /\ Rem(h, s) = r
  BY <1>1, Division
<1>5. PICK q \in Int, z \in 0..(s - 1) : a = s * q + z /\ Rem(a, s) = z
  BY <1>1, Division
<1>6. PICK d \in Int : d = p + q
  OBVIOUS
<1>7. i - r = s * d + z
  <2>1. s * d = s * p + s * q
    BY <1>1, <1>6, Distribute
  <2> QED BY <1>1, <1>2, <1>4, <1>5, <2>1
<1>8. ASSUME z < 1 PROVE i = r
  <2>1. d = 0
    BY <1>1, <1>7, <1>8, SmallMultiple
  <2> QED BY <1>1, <1>7, <1>8, <2>1
<1>9. ASSUME i = r PROVE z < 1
  <2>1. d = 0
    BY <1>1, <1>7, <1>9, SmallMultiple
  <2> QED BY <1>1, <1>7, <1>9, <2>1
<1>10. Rem(h, s) = h % s
  BY DEF Rem
<1> QED BY <1>3, <1>4, <1>5, <1>8, <1>9, <1>10

-----------------------------------------------------------------------------
Types ==
  /\ sqHead \in Counters /\ sqeTail \in Counters /\ cqHead \in Counters /\ cqTail \in Counters
  /\ sqes \in [0..(Entries - 1) -> [Fields -> Requests \union {0}]]
  /\ cqes \in [0..(CqEntries - 1) -> Requests \union {0, LIBURING_UDATA_TIMEOUT}]
  /\ queued \in Seq(Requests) /\ posted \in Seq(Requests \union {LIBURING_UDATA_TIMEOUT})
  /\ pending \subseteq Requests /\ inflight \subseteq Requests
  /\ submitter \in [at : {"idle", "empty", "full", "dead"}, slot : 0..(Entries - 1),
                    request : Requests \union {0}]
  /\ reaper \in [at : {"idle", "have", "used"}, slot : 0..(CqEntries - 1)]

(* The submission queue; an entry that is being filled is the last.         *)
SqQueue ==
  /\ Len(queued) = io_uring_sq_ready /\ Len(queued) <= Entries
  /\ \A i \in 1..Len(queued) :
       i < Len(queued) \/ submitter.at # "empty" =>
         sqes[Slot(sqHead, i, Entries)] = Entry(HelperOf[queued[i]], queued[i])
  /\ submitter.at = "empty" =>
       /\ queued # <<>> /\ submitter.request = queued[Len(queued)]
       /\ submitter.slot = Slot(sqHead, Len(queued), Entries)

(* The completion queue; the completion in use is the first, and it is not    *)
(* one of the library's own.                                                *)
CqQueue ==
  /\ Len(posted) = io_uring_cq_ready /\ Len(posted) <= CqEntries
  /\ \A i \in 1..Len(posted) : cqes[Slot(cqHead, i, CqEntries)] = posted[i]
  /\ reaper.at # "idle" => posted # <<>> /\ reaper.slot = Slot(cqHead, 1, CqEntries)
  /\ reaper.at = "have" => posted[1] # LIBURING_UDATA_TIMEOUT

(* The positions of the completions not yet used.                           *)
Unused == {i \in 1..Len(posted) : i > 1 \/ reaper.at # "used"}

(* A request not yet handled is in one place: the submission queue, the      *)
(* kernel, or, posted and not yet used, the completion queue.                *)
OnePlace ==
  /\ \A i, j \in 1..Len(queued) : queued[i] = queued[j] => i = j
  /\ \A i, j \in Unused : posted[i] = posted[j] => i = j
  /\ inflight \subseteq pending
  /\ \A i \in 1..Len(queued) : queued[i] \in pending \ inflight
  /\ \A i \in Unused : posted[i] # LIBURING_UDATA_TIMEOUT => posted[i] \in pending \ inflight
  /\ \A i \in 1..Len(queued), j \in Unused : queued[i] # posted[j]

QueuesInv == Types /\ SqQueue /\ CqQueue /\ OnePlace

-----------------------------------------------------------------------------
(* Sequences and entries.                                                   *)

(* What Append and SubSeq return.                                            *)
LEMMA AppendFacts ==
  ASSUME NEW S, NEW s \in Seq(S), NEW e \in S
  PROVE  /\ Append(s, e) \in Seq(S) /\ Len(Append(s, e)) = Len(s) + 1 /\ Append(s, e) # <<>>
         /\ \A i \in 1..Len(s) : Append(s, e)[i] = s[i]
         /\ Append(s, e)[Len(s) + 1] = e
  OBVIOUS

LEMMA DropFacts ==
  ASSUME NEW S, NEW s \in Seq(S), NEW n \in 0..Len(s)
  PROVE  /\ SubSeq(s, n + 1, Len(s)) \in Seq(S)
         /\ Len(SubSeq(s, n + 1, Len(s))) = Len(s) - n
         /\ \A i \in 1..(Len(s) - n) : SubSeq(s, n + 1, Len(s))[i] = s[n + i]
  OBVIOUS

(* Whatever a slot held, and in whichever order the helper and                *)
(* io_uring_sqe_set_data come, the entry is its request's.                   *)
LEMMA PrepFillsEntry ==
  ASSUME NEW h, NEW e, DOMAIN e = Fields, e = [x \in Fields |-> e[x]], NEW r
  PROVE  SetData(Prep(h, e, r), r) = Entry(h, r) /\ Prep(h, SetData(e, r), r) = Entry(h, r)
<1>1. "user_data" \in Fields /\ "opcode" \in Fields
  BY DEF Fields
<1>2. SetData(Prep(h, e, r), r) = Entry(h, r)
  BY <1>1 DEF SetData, Prep, PrepRw, Entry
<1>3. Prep(h, SetData(e, r), r) = Entry(h, r)
  BY <1>1 DEF SetData, Prep, PrepRw, Entry
<1> QED BY <1>2, <1>3

(* An entry names its request in user_data.                                 *)
LEMMA EntryType ==
  ASSUME NEW h, NEW r \in Requests
  PROVE  /\ Entry(h, r) \in [Fields -> Requests \union {0}]
         /\ Entry(h, r).user_data = r
  BY DEF Entry, Fields

(* After any two helpers in a row the entry is the second one's.            *)
LEMMA NothingIsStale == NothingStale
<1> SUFFICES ASSUME NEW f \in DOMAIN Own, NEW g \in DOMAIN Own
             PROVE  SetData(Prep(g, SetData(Prep(f, Blank, 1), 1), 2), 2) = Entry(g, 2)
  BY DEF NothingStale
<1>1. PICK e : e = SetData(Prep(f, Blank, 1), 1)
  OBVIOUS
<1>2. DOMAIN e = Fields /\ e = [x \in Fields |-> e[x]]
  BY <1>1 DEF SetData, Prep
<1> QED BY <1>1, <1>2, PrepFillsEntry

(* The library's own user_data is nobody's.                                 *)
LEMMA TimeoutNoRequest == LIBURING_UDATA_TIMEOUT \notin Requests \union {0}
  BY UringAssumption DEF LIBURING_UDATA_TIMEOUT

-----------------------------------------------------------------------------
(* Both queues are empty.                                                   *)
LEMMA InitInv == UringInit => QueuesInv
<1> SUFFICES ASSUME UringInit PROVE QueuesInv
  OBVIOUS
<1>1. /\ Entries \in Nat \ {0} /\ CqEntries \in Nat \ {0}
      /\ 0 \in Counters /\ Minus(0, 0) = 0
  BY Sizes, MinusSmall DEF IsSize, Counters
<1>2. Types
  BY <1>1 DEF UringInit, Types, Idle, Blank
<1>3. SqQueue /\ CqQueue /\ OnePlace
  BY <1>1 DEF UringInit, SqQueue, CqQueue, OnePlace, Unused, Idle, io_uring_sq_ready, io_uring_cq_ready
<1> QED BY <1>2, <1>3 DEF QueuesInv

(* One half of the invariant, when the other's variables change.            *)
LEMMA SqQueueStays == ASSUME SqQueue, UNCHANGED <<sq, submitter>> PROVE SqQueue'
  BY DEF SqQueue, sq, io_uring_sq_ready

LEMMA CqQueueStays == ASSUME CqQueue, UNCHANGED <<cq, reaper>> PROVE CqQueue'
  BY DEF CqQueue, cq, io_uring_cq_ready

(* Nothing changes.                                                         *)
LEMMA StutterInv == ASSUME QueuesInv, UNCHANGED uringVars PROVE QueuesInv'
<1>1. SqQueue' /\ CqQueue'
  BY SqQueueStays, CqQueueStays DEF QueuesInv, uringVars
<1>2. Types' /\ OnePlace'
  BY DEF QueuesInv, uringVars, sq, cq, Types, OnePlace, Unused
<1> QED BY <1>1, <1>2 DEF QueuesInv

(* The vacancy test admits an entry only while the queue has room.          *)
LEMMA VacantMeansRoom ==
  ASSUME QueuesInv, Vacant
  PROVE  Len(queued) + 1 <= Entries /\ Minus(Plus(sqeTail, 1), sqHead) = Len(queued) + 1
<1>1. Len(queued) = Minus(sqeTail, sqHead) /\ Len(queued) <= Entries /\ Len(queued) \in Nat
  BY DEF QueuesInv, SqQueue, io_uring_sq_ready, Types
<1>2. Entries \in Nat /\ Entries + 1 < Modulus /\ Modulus \in Nat
  BY Sizes DEF IsSize
<1>3. Minus(Plus(sqeTail, 1), sqHead) = Len(queued) + 1
  BY <1>1, <1>2, ReadyFacts DEF QueuesInv, Types
<1> QED BY <1>1, <1>2, <1>3 DEF Vacant

(* The new entry goes to the tail's slot; its request was in no place.       *)
LEMMA GetSqeInv ==
  ASSUME QueuesInv, NEW r \in Requests, io_uring_get_sqe(r)
  PROVE  QueuesInv'
<1>1. PICK n \in Nat : n = Len(queued)
  BY DEF QueuesInv, Types
<1>2. n + 1 <= Entries /\ Minus(sqeTail', sqHead) = n + 1 /\ Minus(sqeTail, sqHead) = n
  BY <1>1, VacantMeansRoom DEF io_uring_get_sqe, QueuesInv, SqQueue, io_uring_sq_ready
<1>3. /\ queued' \in Seq(Requests) /\ Len(queued') = n + 1 /\ queued' # <<>>
      /\ \A i \in 1..n : queued'[i] = queued[i]
      /\ queued'[n + 1] = r
  BY <1>1, AppendFacts DEF io_uring_get_sqe, QueuesInv, Types
<1>4. /\ submitter.at = "idle" /\ r \notin pending /\ pending' = pending \union {r}
      /\ submitter' = [at |-> "empty", slot |-> sqeTail % Entries, request |-> r]
      /\ UNCHANGED <<sqes, sqHead, cq, reaper, inflight>>
  BY DEF io_uring_get_sqe
<1>5. sqeTail % Entries = Slot(sqHead, n + 1, Entries) /\ sqeTail % Entries \in 0..(Entries - 1)
  <2>1. sqeTail % Entries = Slot(sqHead, n + 1, Entries)
    BY <1>2, SlotEnds DEF QueuesInv, Types
  <2>2. Slot(sqHead, n + 1, Entries) \in 0..(Entries - 1)
    BY SlotFacts, Sizes DEF QueuesInv, Types
  <2> QED BY <2>1, <2>2
<1>6. Types'
  <2>1. sqeTail' \in Counters
    <3>1. 1 \in 0..Modulus
      BY Sizes
    <3> QED BY <3>1, PlusSmall DEF io_uring_get_sqe, QueuesInv, Types
  <2> QED BY <1>3, <1>4, <1>5, <2>1 DEF QueuesInv, Types, cq
<1>7. SqQueue'
  <2>1. Len(queued') = io_uring_sq_ready' /\ Len(queued') <= Entries
    BY <1>2, <1>3, <1>4 DEF io_uring_sq_ready
  <2>2. ASSUME NEW i \in 1..Len(queued'), i < Len(queued') \/ submitter'.at # "empty"
        PROVE  sqes'[Slot(sqHead', i, Entries)] = Entry(HelperOf[queued'[i]], queued'[i])
    <3>1. i \in 1..Len(queued) /\ queued'[i] = queued[i]
      BY <1>1, <1>3, <1>4, <2>2
    <3> QED BY <1>4, <3>1 DEF QueuesInv, SqQueue
  <2>3. submitter'.request = queued'[Len(queued')]
        /\ submitter'.slot = Slot(sqHead', Len(queued'), Entries)
    BY <1>3, <1>4, <1>5
  <2> QED BY <1>3, <2>1, <2>2, <2>3 DEF SqQueue
<1>8. CqQueue'
  BY <1>4, CqQueueStays DEF QueuesInv
<1>9. OnePlace'
  <2>1. Unused' = Unused /\ posted' = posted
    BY <1>4 DEF Unused, cq
  <2>2. \A i \in 1..n : queued[i] \in pending \ inflight
    BY <1>1 DEF QueuesInv, OnePlace
  <2>3. \A i, j \in 1..Len(queued') : queued'[i] = queued'[j] => i = j
    BY <1>1, <1>3, <1>4, <2>2 DEF QueuesInv, OnePlace
  <2>4. \A i \in 1..Len(queued') : queued'[i] \in pending' \ inflight'
    BY <1>1, <1>3, <1>4, <2>2 DEF QueuesInv, OnePlace
  <2>5. \A i \in Unused : posted[i] # r
    BY <1>4, TimeoutNoRequest DEF QueuesInv, OnePlace
  <2>6. \A i \in 1..Len(queued'), j \in Unused' : queued'[i] # posted'[j]
    BY <1>1, <1>3, <2>1, <2>5 DEF QueuesInv, OnePlace
  <2> QED BY <1>4, <2>1, <2>3, <2>4, <2>6 DEF QueuesInv, OnePlace
<1> QED BY <1>6, <1>7, <1>8, <1>9 DEF QueuesInv

(* A process that ends leaves the queues as they are.                       *)
LEMMA EndsInv == ASSUME QueuesInv, NullSqe \/ ServerExits PROVE QueuesInv'
<1>1. submitter.at = "idle" /\ submitter'.at = "dead"
      /\ UNCHANGED <<sq, cq, reaper, pending, inflight>>
  BY DEF NullSqe, ServerExits, Idle, QueuesInv, Types
<1>2. Types'
  <2>1. submitter' = [at |-> "dead", slot |-> 0, request |-> 0] /\ 0 \in 0..(Entries - 1)
    BY Sizes DEF NullSqe, ServerExits, Idle, IsSize
  <2> QED BY <1>1, <2>1 DEF QueuesInv, Types, sq, cq
<1>3. SqQueue'
  BY <1>1 DEF QueuesInv, SqQueue, sq, io_uring_sq_ready
<1>4. CqQueue'
  BY <1>1, CqQueueStays DEF QueuesInv
<1>5. OnePlace'
  BY <1>1 DEF QueuesInv, OnePlace, Unused, sq, cq
<1> QED BY <1>2, <1>3, <1>4, <1>5 DEF QueuesInv

(* The entry filled is the last one's, and the slots of the others differ.   *)
LEMMA FillEntryInv == ASSUME QueuesInv, FillEntry PROVE QueuesInv'
<1>1. PICK n \in Nat, r \in Requests, k \in 0..(Entries - 1) :
        /\ n = Len(queued) /\ n \in 1..Entries /\ r = queued[n] /\ r = submitter.request
        /\ k = submitter.slot /\ k = Slot(sqHead, n, Entries)
  <2>1. Len(queued) \in Nat /\ Len(queued) # 0 /\ Len(queued) <= Entries
    BY DEF QueuesInv, Types, SqQueue, FillEntry
  <2>2. queued[Len(queued)] \in Requests
    BY <2>1 DEF QueuesInv, Types
  <2> QED BY <2>1, <2>2 DEF QueuesInv, Types, SqQueue, FillEntry
<1>2. sqes' = [sqes EXCEPT ![k] = Entry(HelperOf[r], r)]
  <2>1. PICK e \in [Fields -> Requests \union {0}] : e = sqes[k]
    BY DEF QueuesInv, Types
  <2>2. DOMAIN e = Fields /\ e = [x \in Fields |-> e[x]]
    OBVIOUS
  <2>3. /\ SetData(Prep(HelperOf[r], e, r), r) = Entry(HelperOf[r], r)
        /\ Prep(HelperOf[r], SetData(e, r), r) = Entry(HelperOf[r], r)
    BY <2>2, PrepFillsEntry
  <2> QED BY <1>1, <2>1, <2>3 DEF FillEntry
<1>3. /\ submitter.at = "empty" /\ submitter' = [submitter EXCEPT !.at = "full"]
      /\ UNCHANGED <<sqHead, sqeTail, queued, cq, reaper, pending, inflight>>
  BY DEF FillEntry
<1>4. Types'
  <2>1. Entry(HelperOf[r], r) \in [Fields -> Requests \union {0}]
    BY EntryType
  <2> QED BY <1>2, <1>3, <2>1 DEF QueuesInv, Types, cq
<1>5. SqQueue'
  <2>1. submitter'.at = "full"
    BY <1>3 DEF QueuesInv, Types
  <2>2. ASSUME NEW i \in 1..n
        PROVE  sqes'[Slot(sqHead, i, Entries)] = Entry(HelperOf[queued[i]], queued[i])
    <3>1. Slot(sqHead, i, Entries) \in 0..(Entries - 1)
      BY SlotFacts, Sizes DEF QueuesInv, Types
    <3>2. CASE i = n
      BY <1>1, <1>2, <3>1, <3>2 DEF QueuesInv, Types
    <3>3. CASE i # n
      <4>1. i \in 1..Entries /\ i < n
        BY <1>1, <3>3, Sizes DEF IsSize
      <4>2. Slot(sqHead, i, Entries) # k
        BY <1>1, <3>3, <4>1, SlotInjective, Sizes DEF QueuesInv, Types
      <4> QED BY <1>1, <1>2, <3>1, <4>1, <4>2 DEF QueuesInv, Types, SqQueue
    <3> QED BY <3>2, <3>3
  <2> QED BY <1>1, <1>3, <2>1, <2>2 DEF QueuesInv, SqQueue, io_uring_sq_ready
<1>6. CqQueue'
  BY <1>3, CqQueueStays DEF QueuesInv
<1>7. OnePlace'
  BY <1>3 DEF QueuesInv, OnePlace, Unused, cq
<1> QED BY <1>4, <1>5, <1>6, <1>7 DEF QueuesInv

(* The kernel takes requests from the head: what it finds in their entries    *)
(* are they, and nobody else has them.                                       *)
LEMMA SubmitInv ==
  ASSUME QueuesInv, NEW n \in 0..Entries, io_uring_submit(n)
  PROVE  QueuesInv'
<1>0. submitter.at = "full" /\ UNCHANGED <<sqes, sqeTail, cq, reaper, pending>>
      /\ submitter' = Idle /\ Entries \in Nat \ {0} /\ Modulus \in Nat
  BY Sizes DEF io_uring_submit, IsSize
<1>1. PICK l \in Nat : l = Len(queued) /\ l = Minus(sqeTail, sqHead) /\ n \in 0..l /\ l <= Entries
  BY DEF QueuesInv, Types, SqQueue, io_uring_sq_ready, io_uring_submit
<1>2. /\ queued' \in Seq(Requests) /\ Len(queued') = l - n
      /\ \A i \in 1..(l - n) : queued'[i] = queued[n + i]
  <2>1. queued \in Seq(Requests) /\ queued' = SubSeq(queued, n + 1, Len(queued))
        /\ n \in 0..Len(queued)
    BY <1>1 DEF QueuesInv, Types, io_uring_submit
  <2> QED BY <1>1, <2>1, DropFacts
<1>3. sqHead' = Plus(sqHead, n) /\ sqHead' \in Counters /\ Minus(sqeTail, sqHead') = l - n
  <2>1. n \in 0..Modulus
    BY <1>0, Sizes DEF IsSize
  <2>2. Minus(sqeTail, Plus(sqHead, n)) = l - n
    BY <1>1, ReadyFacts DEF QueuesInv, Types
  <2> QED BY <2>1, <2>2, PlusSmall DEF QueuesInv, Types, io_uring_submit
<1>4. \A i \in 1..l : sqes[Slot(sqHead, i, Entries)] = Entry(HelperOf[queued[i]], queued[i])
                      /\ queued[i] \in Requests
  BY <1>0, <1>1 DEF QueuesInv, Types, SqQueue
<1>5. inflight' = inflight \union {queued[i] : i \in 1..n}
  <2>1. inflight' = inflight \union
          {sqes[Plus(sqHead, i) % Entries].user_data : i \in 0..(n - 1)}
    BY DEF io_uring_submit
  <2>2. ASSUME NEW i \in 1..n
        PROVE  sqes[Plus(sqHead, i - 1) % Entries].user_data = queued[i]
    BY <1>1, <1>4, EntryType DEF Slot
  <2>3. \A i \in 0..(n - 1) : i + 1 \in 1..n /\ (i + 1) - 1 = i
    OBVIOUS
  <2>4. \A i \in 0..(n - 1) : sqes[Plus(sqHead, i) % Entries].user_data = queued[i + 1]
    <3> SUFFICES ASSUME NEW i \in 0..(n - 1)
                 PROVE  sqes[Plus(sqHead, i) % Entries].user_data = queued[i + 1]
      OBVIOUS
    <3>1. PICK j \in 1..n : j = i + 1 /\ j - 1 = i
      BY <2>3
    <3> QED BY <2>2, <3>1
  <2>5. {sqes[Plus(sqHead, i) % Entries].user_data : i \in 0..(n - 1)} = {queued[i] : i \in 1..n}
    <3>1. {sqes[Plus(sqHead, i) % Entries].user_data : i \in 0..(n - 1)}
            = {queued[i + 1] : i \in 0..(n - 1)}
      BY <2>4
    <3>2. {queued[i + 1] : i \in 0..(n - 1)} = {queued[i] : i \in 1..n}
      <4>1. \A i \in 1..n : i - 1 \in 0..(n - 1) /\ (i - 1) + 1 = i
        OBVIOUS
      <4> QED BY <2>3, <4>1
    <3> QED BY <3>1, <3>2
  <2> QED BY <2>1, <2>5
<1>6. Types'
  <2>1. inflight' \subseteq Requests
    BY <1>1, <1>4, <1>5 DEF QueuesInv, Types
  <2> QED BY <1>0, <1>2, <1>3, <2>1 DEF QueuesInv, Types, Idle, cq
<1>7. SqQueue'
  <2>1. ASSUME NEW i \in 1..(l - n)
        PROVE  sqes'[Slot(sqHead', i, Entries)] = Entry(HelperOf[queued'[i]], queued'[i])
    <3>1. n + i \in 1..l /\ n \in Nat /\ i \in Nat \ {0}
      BY <1>1
    <3>2. Slot(sqHead', i, Entries) = Slot(sqHead, n + i, Entries)
      BY <1>3, <3>1, SlotShift DEF QueuesInv, Types
    <3> QED BY <1>0, <1>2, <1>4, <3>1, <3>2
  <2>2. l - n <= Entries /\ submitter'.at = "idle"
    BY <1>0, <1>1 DEF Idle
  <2> QED BY <1>0, <1>2, <1>3, <2>1, <2>2 DEF SqQueue, io_uring_sq_ready
<1>8. CqQueue'
  BY <1>0, CqQueueStays DEF QueuesInv
<1>9. OnePlace'
  <2>1. Unused' = Unused /\ posted' = posted /\ pending' = pending
    BY <1>0 DEF Unused, cq
  <2>2. \A i \in 1..(l - n) : n + i \in 1..l /\ n + i \notin 1..n /\ queued'[i] = queued[n + i]
    BY <1>1, <1>2
  <2>3. \A i, j \in 1..(l - n) : queued'[i] = queued'[j] => i = j
    BY <1>1, <2>2 DEF QueuesInv, OnePlace
  <2>4. \A i \in 1..n : i \in 1..l
    BY <1>1
  <2>5. inflight' \subseteq pending
    BY <1>1, <1>5, <2>4 DEF QueuesInv, OnePlace
  <2>6. \A i \in 1..(l - n) : queued'[i] \in pending \ inflight'
    BY <1>1, <1>5, <2>2, <2>4 DEF QueuesInv, OnePlace
  <2>7. \A i \in Unused : posted[i] # LIBURING_UDATA_TIMEOUT => posted[i] \in pending \ inflight'
    BY <1>1, <1>5, <2>4 DEF QueuesInv, OnePlace
  <2>8. \A i \in 1..(l - n), j \in Unused : queued'[i] # posted[j]
    BY <1>1, <2>2 DEF QueuesInv, OnePlace
  <2>9. \A i, j \in Unused : posted[i] = posted[j] => i = j
    BY DEF QueuesInv, OnePlace
  <2> QED BY <1>2, <2>1, <2>3, <2>5, <2>6, <2>7, <2>8, <2>9 DEF OnePlace
<1> QED BY <1>6, <1>7, <1>8, <1>9 DEF QueuesInv

-----------------------------------------------------------------------------
(* The completion queue.                                                    *)

(* The kernel posts into a slot that holds nothing anybody waits for, and     *)
(* what it posts is in no other place any more.                              *)
LEMMA PostInv ==
  ASSUME QueuesInv, NEW d \in Requests \union {LIBURING_UDATA_TIMEOUT}, Post(d),
         \/ d \in inflight /\ inflight' = inflight \ {d}
         \/ /\ d = LIBURING_UDATA_TIMEOUT /\ UNCHANGED inflight
            /\ \A i \in 1..Len(posted) : posted[i] # d
  PROVE  QueuesInv'
<1>0. UNCHANGED <<sq, cqHead, submitter, reaper, pending>>
      /\ CqEntries \in Nat \ {0} /\ CqEntries + 1 < Modulus /\ Modulus \in Nat
  BY Sizes DEF Post, IsSize
<1>1. PICK n \in Nat : n = Len(posted) /\ n = Minus(cqTail, cqHead) /\ n < CqEntries
  BY DEF QueuesInv, Types, CqQueue, io_uring_cq_ready, Post
<1>2. Minus(cqTail', cqHead) = n + 1 /\ cqTail' \in Counters
  <2>1. n + 1 < Modulus /\ 1 \in 0..Modulus
    BY <1>0, <1>1
  <2> QED BY <1>1, <2>1, ReadyFacts, PlusSmall DEF Post, QueuesInv, Types
<1>3. /\ posted' \in Seq(Requests \union {LIBURING_UDATA_TIMEOUT})
      /\ Len(posted') = n + 1 /\ posted' # <<>>
      /\ \A i \in 1..n : posted'[i] = posted[i]
      /\ posted'[n + 1] = d
  <2>1. PICK S : S = Requests \union {LIBURING_UDATA_TIMEOUT}
    OBVIOUS
  <2>2. posted' = Append(posted, d) /\ posted \in Seq(S) /\ d \in S
    BY <2>1 DEF Post, QueuesInv, Types
  <2>3. /\ Append(posted, d) \in Seq(S) /\ Len(Append(posted, d)) = Len(posted) + 1
        /\ Append(posted, d) # <<>>
        /\ \A i \in 1..Len(posted) : Append(posted, d)[i] = posted[i]
        /\ Append(posted, d)[Len(posted) + 1] = d
    BY <2>2, AppendFacts
  <2> QED BY <1>1, <2>1, <2>2, <2>3
<1>4. PICK k \in 0..(CqEntries - 1) :
        k = Slot(cqHead, n + 1, CqEntries) /\ cqes' = [cqes EXCEPT ![k] = d]
  <2>1. cqTail % CqEntries = Slot(cqHead, n + 1, CqEntries)
    BY <1>1, SlotEnds DEF QueuesInv, Types
  <2>2. Slot(cqHead, n + 1, CqEntries) \in 0..(CqEntries - 1)
    BY SlotFacts, Sizes DEF QueuesInv, Types
  <2> QED BY <2>1, <2>2 DEF Post
<1>5. Types'
  BY <1>0, <1>2, <1>3, <1>4 DEF QueuesInv, Types, sq
<1>6. SqQueue'
  BY <1>0, SqQueueStays DEF QueuesInv
<1>7. CqQueue'
  <2>1. ASSUME NEW i \in 1..(n + 1)
        PROVE  cqes'[Slot(cqHead, i, CqEntries)] = posted'[i]
    <3>1. CASE i = n + 1
      BY <1>3, <1>4, <3>1 DEF QueuesInv, Types
    <3>2. CASE i # n + 1
      <4>1. i \in 1..n /\ i \in 1..CqEntries /\ n + 1 \in 1..CqEntries
        BY <1>0, <1>1, <3>2
      <4>2. Slot(cqHead, i, CqEntries) # k
        BY <1>4, <3>2, <4>1, SlotInjective, Sizes DEF QueuesInv, Types
      <4>3. Slot(cqHead, i, CqEntries) \in 0..(CqEntries - 1)
        BY SlotFacts, Sizes DEF QueuesInv, Types
      <4> QED BY <1>1, <1>3, <1>4, <4>1, <4>2, <4>3 DEF QueuesInv, Types, CqQueue
    <3> QED BY <3>1, <3>2
  <2>2. reaper.at # "idle" => reaper.slot = Slot(cqHead, 1, CqEntries) /\ n # 0
    BY <1>1 DEF QueuesInv, CqQueue, Types
  <2>3. reaper.at = "have" => posted'[1] # LIBURING_UDATA_TIMEOUT
    BY <1>1, <1>3, <2>2 DEF QueuesInv, CqQueue
  <2>4. n + 1 <= CqEntries
    BY <1>0, <1>1
  <2> QED BY <1>0, <1>2, <1>3, <2>1, <2>2, <2>3, <2>4 DEF CqQueue, io_uring_cq_ready
<1>8. OnePlace'
  <2>1. \A i \in Unused' : i = n + 1 \/ (i \in Unused /\ posted'[i] = posted[i])
    BY <1>0, <1>1, <1>3 DEF Unused
  <2>2. \A i \in Unused : posted[i] # d
    BY <1>1, TimeoutNoRequest DEF QueuesInv, OnePlace, Unused, Types
  <2>3. \A i \in 1..Len(queued) : queued[i] # d
    BY TimeoutNoRequest DEF QueuesInv, OnePlace, Types
  <2>4. inflight' \subseteq inflight
    OBVIOUS
  <2>5. d # LIBURING_UDATA_TIMEOUT => d \in pending \ inflight'
    BY DEF QueuesInv, OnePlace
  <2>6. \A i, j \in Unused' : posted'[i] = posted'[j] => i = j
    BY <1>3, <2>1, <2>2 DEF QueuesInv, OnePlace
  <2>7. \A i \in Unused' : posted'[i] # LIBURING_UDATA_TIMEOUT => posted'[i] \in pending \ inflight'
    BY <1>3, <2>1, <2>4, <2>5 DEF QueuesInv, OnePlace
  <2>8. \A i \in 1..Len(queued), j \in Unused' : queued[i] # posted'[j]
    BY <1>3, <2>1, <2>3 DEF QueuesInv, OnePlace
  <2> QED BY <1>0, <2>4, <2>6, <2>7, <2>8 DEF QueuesInv, OnePlace, sq
<1> QED BY <1>5, <1>6, <1>7, <1>8 DEF QueuesInv

(* A completion of a request, and one of the library's own time-out.         *)
LEMMA DeliverInv ==
  ASSUME QueuesInv, NEW r \in Requests, Deliver(r)
  PROVE  QueuesInv'
  BY PostInv DEF Deliver

LEMMA DeliverTimeoutInv == ASSUME QueuesInv, DeliverTimeout PROVE QueuesInv'
<1>1. \A i \in 1..Len(posted) : posted[i] # LIBURING_UDATA_TIMEOUT
  BY DEF DeliverTimeout, Contains
<1> QED BY <1>1, PostInv DEF DeliverTimeout

(* What is given back is the first completion, and it has been used, or is    *)
(* the library's own.  Its slot is cleared and no other.                     *)
LEMMA AdvanceInv ==
  ASSUME QueuesInv, io_uring_cq_advance(1), posted # <<>>, UNCHANGED pending,
         reaper.at # "have", reaper'.at = "idle",
         reaper' \in [at : {"idle", "have", "used"}, slot : 0..(CqEntries - 1)]
  PROVE  QueuesInv'
<1>0. UNCHANGED <<sq, cqTail, submitter, inflight>>
      /\ CqEntries \in Nat \ {0} /\ Modulus \in Nat \ {0}
  BY Sizes DEF io_uring_cq_advance, IsSize
<1>1. PICK n \in Nat \ {0} : n = Len(posted) /\ n = Minus(cqTail, cqHead) /\ n <= CqEntries
  BY DEF QueuesInv, Types, CqQueue, io_uring_cq_ready
<1>2. /\ posted' \in Seq(Requests \union {LIBURING_UDATA_TIMEOUT}) /\ Len(posted') = n - 1
      /\ \A i \in 1..(n - 1) : posted'[i] = posted[i + 1]
  <2>0. PICK S : S = Requests \union {LIBURING_UDATA_TIMEOUT}
    OBVIOUS
  <2>1. PICK m \in 0..Len(posted) : m = 1
    BY <1>1
  <2>2. posted' = SubSeq(posted, m + 1, Len(posted)) /\ posted \in Seq(S)
    BY <2>0, <2>1 DEF io_uring_cq_advance, QueuesInv, Types
  <2>3. /\ posted' \in Seq(S) /\ Len(posted') = Len(posted) - m
        /\ \A i \in 1..(Len(posted) - m) : posted'[i] = posted[m + i]
    BY <2>2, DropFacts
  <2>4. \A i \in 1..(n - 1) : m + i = i + 1
    BY <2>1
  <2> QED BY <1>1, <2>0, <2>1, <2>3, <2>4
<1>3. cqHead' = Plus(cqHead, 1) /\ cqHead' \in Counters /\ Minus(cqTail, cqHead') = n - 1
  <2>1. 1 \in 0..Modulus /\ 1 \in 0..n
    BY <1>0, <1>1
  <2>2. Minus(cqTail, Plus(cqHead, 1)) = n - 1
    BY <1>1, <2>1, ReadyFacts DEF QueuesInv, Types
  <2> QED BY <2>1, <2>2, PlusSmall DEF QueuesInv, Types, io_uring_cq_advance
<1>4. PICK k : /\ k = Slot(cqHead, 1, CqEntries)
               /\ \A i \in 0..(CqEntries - 1) : cqes'[i] = IF i = k THEN 0 ELSE cqes[i]
               /\ cqes' \in [0..(CqEntries - 1) -> Requests \union {0, LIBURING_UDATA_TIMEOUT}]
  <2>1. cqHead % CqEntries = Slot(cqHead, 1, CqEntries)
    BY SlotEnds DEF QueuesInv, Types
  <2>2. DOMAIN cqes = 0..(CqEntries - 1)
    BY DEF QueuesInv, Types
  <2>3. cqes' = [i \in 0..(CqEntries - 1) |->
                   IF (Minus(i, cqHead) % CqEntries) < 1 THEN 0 ELSE cqes[i]]
    BY <2>2 DEF io_uring_cq_advance
  <2>4. \A i \in 0..(CqEntries - 1) :
          (Minus(i, cqHead) % CqEntries) < 1 <=> i = cqHead % CqEntries
    BY Cleared, Sizes DEF QueuesInv, Types
  <2>5. cqes' = [i \in 0..(CqEntries - 1) |-> IF i = cqHead % CqEntries THEN 0 ELSE cqes[i]]
    BY <2>3, <2>4
  <2> QED BY <2>1, <2>5 DEF QueuesInv, Types
<1>5. Types'
  BY <1>0, <1>2, <1>3, <1>4 DEF QueuesInv, Types, sq
<1>6. SqQueue'
  BY <1>0, SqQueueStays DEF QueuesInv
<1>7. CqQueue'
  <2>1. ASSUME NEW i \in 1..(n - 1)
        PROVE  cqes'[Slot(cqHead', i, CqEntries)] = posted'[i]
    <3>1. i + 1 \in 1..n /\ i + 1 \in 1..CqEntries /\ 1 \in 1..CqEntries /\ i + 1 # 1
          /\ i \in Nat \ {0} /\ 1 + i = i + 1
      BY <1>0, <1>1
    <3>2. Slot(cqHead', i, CqEntries) = Slot(cqHead, i + 1, CqEntries)
      BY <1>3, <3>1, SlotShift DEF QueuesInv, Types
    <3>3. Slot(cqHead, i + 1, CqEntries) # k
      BY <1>4, <3>1, SlotInjective, Sizes DEF QueuesInv, Types
    <3>4. Slot(cqHead, i + 1, CqEntries) \in 0..(CqEntries - 1)
      BY <3>1, SlotFacts, Sizes DEF QueuesInv, Types
    <3>5. cqes[Slot(cqHead, i + 1, CqEntries)] = posted[i + 1]
      BY <1>1, <3>1 DEF QueuesInv, CqQueue
    <3> QED BY <1>2, <1>4, <3>2, <3>3, <3>4, <3>5
  <2>2. n - 1 <= CqEntries
    BY <1>0, <1>1
  <2> QED BY <1>0, <1>2, <1>3, <2>1, <2>2 DEF CqQueue, io_uring_cq_ready
<1>8. OnePlace'
  <2>1. \A i \in Unused' : i + 1 \in Unused /\ posted'[i] = posted[i + 1] /\ i \in Nat
    BY <1>1, <1>2 DEF Unused
  <2>2. \A i, j \in Unused' : posted'[i] = posted'[j] => i = j
    <3> SUFFICES ASSUME NEW i \in Unused', NEW j \in Unused', posted'[i] = posted'[j]
                 PROVE  i = j
      OBVIOUS
    <3>1. i + 1 = j + 1
      BY <2>1 DEF QueuesInv, OnePlace
    <3> QED BY <2>1, <3>1
  <2>3. \A i \in Unused' : posted'[i] # LIBURING_UDATA_TIMEOUT => posted'[i] \in pending \ inflight
    BY <2>1 DEF QueuesInv, OnePlace
  <2>4. \A i \in 1..Len(queued), j \in Unused' : queued[i] # posted'[j]
    BY <2>1 DEF QueuesInv, OnePlace
  <2> QED BY <1>0, <2>2, <2>3, <2>4 DEF QueuesInv, OnePlace, sq
<1> QED BY <1>5, <1>6, <1>7, <1>8 DEF QueuesInv

(* The reaping thread looks at the first completion.                        *)
LEMMA ReadyMeansPosted ==
  ASSUME QueuesInv, io_uring_cq_ready # 0
  PROVE  /\ posted # <<>> /\ 1 \in 1..Len(posted)
         /\ cqHead % CqEntries = Slot(cqHead, 1, CqEntries) /\ Cqe = posted[1]
         /\ cqHead % CqEntries \in 0..(CqEntries - 1)
<1>1. posted # <<>> /\ 1 \in 1..Len(posted)
  BY DEF QueuesInv, Types, CqQueue
<1>2. cqHead % CqEntries = Slot(cqHead, 1, CqEntries)
  BY SlotEnds DEF QueuesInv, Types
<1>3. Slot(cqHead, 1, CqEntries) \in 0..(CqEntries - 1)
  BY SlotFacts, Sizes DEF QueuesInv, Types
<1> QED BY <1>1, <1>2, <1>3 DEF QueuesInv, CqQueue, Cqe

(* A time-out that is passed over is given back.                            *)
LEMMA SkipTimeoutInv == ASSUME QueuesInv, SkipTimeout PROVE QueuesInv'
  BY ReadyMeansPosted, AdvanceInv DEF SkipTimeout, QueuesInv, Types

(* The pointer returned is to the slot of the first completion.             *)
LEMMA WaitCqeInv == ASSUME QueuesInv, io_uring_wait_cqe PROVE QueuesInv'
<1>1. /\ reaper.at = "idle" /\ UNCHANGED <<sq, cq, submitter, pending, inflight>>
      /\ reaper' = [at |-> "have", slot |-> Slot(cqHead, 1, CqEntries)]
      /\ Slot(cqHead, 1, CqEntries) \in 0..(CqEntries - 1)
      /\ posted # <<>> /\ posted[1] # LIBURING_UDATA_TIMEOUT
  BY ReadyMeansPosted DEF io_uring_wait_cqe
<1>2. Types'
  BY <1>1 DEF QueuesInv, Types, sq, cq
<1>3. SqQueue'
  BY <1>1, SqQueueStays DEF QueuesInv
<1>4. CqQueue'
  BY <1>1 DEF QueuesInv, CqQueue, cq, io_uring_cq_ready
<1>5. OnePlace'
  BY <1>1 DEF QueuesInv, OnePlace, Unused, sq, cq
<1> QED BY <1>2, <1>3, <1>4, <1>5 DEF QueuesInv

(* The completion used is the one that was found, and no other is of the same *)
(* request.                                                                  *)
LEMMA HandleInv == ASSUME QueuesInv, handle PROVE QueuesInv'
<1>1. /\ reaper.at = "have" /\ UNCHANGED <<sq, cq, submitter, inflight>>
      /\ reaper' = [reaper EXCEPT !.at = "used"]
  BY DEF handle
<1>2. posted # <<>> /\ 1 \in 1..Len(posted) /\ reaper.slot = Slot(cqHead, 1, CqEntries)
  BY <1>1 DEF QueuesInv, Types, CqQueue
<1>3. pending' = pending \ {posted[1]} /\ posted[1] \in pending \ inflight
  <2>1. pending' = pending \ {cqes[reaper.slot]}
    BY DEF handle
  <2>2. 1 \in Unused
    BY <1>1, <1>2 DEF Unused
  <2> QED BY <1>1, <1>2, <2>1, <2>2 DEF QueuesInv, CqQueue, OnePlace
<1>4. Types'
  BY <1>1, <1>3 DEF QueuesInv, Types, sq, cq
<1>5. SqQueue'
  BY <1>1, SqQueueStays DEF QueuesInv
<1>6. CqQueue'
  BY <1>1 DEF QueuesInv, Types, CqQueue, cq, io_uring_cq_ready
<1>7. OnePlace'
  <2>1. \A i \in Unused' : i \in Unused /\ i # 1
    BY <1>1 DEF Unused, cq, QueuesInv, Types
  <2>2. 1 \in Unused
    BY <1>1, <1>2 DEF Unused
  <2>3. \A i \in Unused' : posted[i] # posted[1]
    BY <2>1, <2>2 DEF QueuesInv, OnePlace
  <2>4. \A i \in 1..Len(queued) : queued[i] # posted[1]
    BY <2>2 DEF QueuesInv, OnePlace
  <2>5. \A i \in 1..Len(queued) : queued[i] \in pending' \ inflight
    BY <1>3, <2>4 DEF QueuesInv, OnePlace
  <2>6. \A i \in Unused' : posted[i] # LIBURING_UDATA_TIMEOUT => posted[i] \in pending' \ inflight
    BY <1>3, <2>1, <2>3 DEF QueuesInv, OnePlace
  <2>7. inflight \subseteq pending'
    BY <1>3 DEF QueuesInv, OnePlace
  <2>8. UNCHANGED <<queued, posted, inflight>>
    BY <1>1 DEF sq, cq
  <2>9. \A i, j \in Unused' : posted[i] = posted[j] => i = j
    BY <2>1 DEF QueuesInv, OnePlace
  <2>10. \A i \in 1..Len(queued), j \in Unused' : queued[i] # posted[j]
    BY <2>1 DEF QueuesInv, OnePlace
  <2>11. \A i, j \in 1..Len(queued) : queued[i] = queued[j] => i = j
    BY DEF QueuesInv, OnePlace
  <2> QED BY <2>5, <2>6, <2>7, <2>8, <2>9, <2>10, <2>11 DEF OnePlace
<1> QED BY <1>4, <1>5, <1>6, <1>7 DEF QueuesInv

(* Only what has been used is given back.                                   *)
LEMMA CqeSeenInv == ASSUME QueuesInv, io_uring_cqe_seen PROVE QueuesInv'
<1>1. posted # <<>> /\ reaper.at # "have"
  BY DEF io_uring_cqe_seen, QueuesInv, CqQueue
<1>2. reaper' \in [at : {"idle", "have", "used"}, slot : 0..(CqEntries - 1)]
      /\ reaper'.at = "idle"
  BY Sizes DEF io_uring_cqe_seen, IsSize
<1> QED BY <1>1, <1>2, AdvanceInv DEF io_uring_cqe_seen

-----------------------------------------------------------------------------
(* The queues, for any number of requests, any helpers, and queues of any      *)
(* size whose counters wrap at a multiple of it.                             *)
THEOREM QueuesInductive == UringSpec => []QueuesInv
<1>1. QueuesInv /\ [UringNext]_uringVars => QueuesInv'
  <2> SUFFICES ASSUME QueuesInv, [UringNext]_uringVars PROVE QueuesInv'
    OBVIOUS
  <2>1. ASSUME NEW r \in Requests, io_uring_get_sqe(r) PROVE QueuesInv'
    BY <2>1, GetSqeInv
  <2>2. CASE NullSqe \/ ServerExits
    BY <2>2, EndsInv
  <2>3. CASE FillEntry
    BY <2>3, FillEntryInv
  <2>4. ASSUME NEW n \in 0..Entries, io_uring_submit(n) PROVE QueuesInv'
    BY <2>4, SubmitInv
  <2>5. CASE SkipTimeout
    BY <2>5, SkipTimeoutInv
  <2>6. CASE io_uring_wait_cqe
    BY <2>6, WaitCqeInv
  <2>7. CASE handle
    BY <2>7, HandleInv
  <2>8. CASE io_uring_cqe_seen
    BY <2>8, CqeSeenInv
  <2>9. CASE DeliverTimeout
    BY <2>9, DeliverTimeoutInv
  <2>10. ASSUME NEW r \in Requests, Deliver(r) PROVE QueuesInv'
    BY <2>10, DeliverInv
  <2>11. CASE UNCHANGED uringVars
    BY <2>11, StutterInv
  <2> QED BY <2>1, <2>2, <2>3, <2>4, <2>5, <2>6, <2>7, <2>8, <2>9, <2>10, <2>11
          DEF UringNext, Submitting, Reaping
<1> QED BY <1>1, InitInv, PTL DEF UringSpec

(* Entries are their requests' alone, whatever the slots held before and      *)
(* however often the counters have wrapped.                                  *)
THEOREM EntriesIntact == UringSpec => []SqIntact
<1>1. QueuesInv => SqIntact
  <2> SUFFICES ASSUME QueuesInv PROVE SqIntact
    OBVIOUS
  <2>1. UringTypeOK
    BY DEF QueuesInv, Types, UringTypeOK, Counters
  <2>2. Len(queued) = io_uring_sq_ready /\ io_uring_sq_space_left >= 0
    BY Sizes DEF QueuesInv, Types, SqQueue, io_uring_sq_space_left, IsSize
  <2>3. \A i \in 1..Len(queued) :
          i < Len(queued) \/ submitter.at # "empty" =>
            sqes[Plus(sqHead, i - 1) % Entries] = Entry(HelperOf[queued[i]], queued[i])
    BY DEF QueuesInv, SqQueue, Slot
  <2> QED BY <2>1, <2>2, <2>3, NothingIsStale DEF SqIntact
<1> QED BY <1>1, QueuesInductive, PTL

(* A completion stays what it was posted as until it is given back, and none  *)
(* is used twice.                                                            *)
THEOREM CompletionsIntact == UringSpec => []CqIntact
<1>1. QueuesInv => CqIntact
  <2> SUFFICES ASSUME QueuesInv PROVE CqIntact
    OBVIOUS
  <2>1. Len(posted) = io_uring_cq_ready /\ io_uring_cq_ready <= CqEntries
    BY DEF QueuesInv, CqQueue
  <2>2. \A i \in 1..Len(posted) : cqes[Plus(cqHead, i - 1) % CqEntries] = posted[i]
    BY DEF QueuesInv, CqQueue, Slot
  <2>3. reaper.at # "idle" => posted # <<>> /\ reaper.slot = cqHead % CqEntries
    BY SlotEnds DEF QueuesInv, Types, CqQueue
  <2>4. CASE reaper.at = "used"
    <3>1. PICK rest : rest = Tail(posted)
      OBVIOUS
    <3>2. /\ rest \in Seq(Requests \union {LIBURING_UDATA_TIMEOUT})
          /\ DOMAIN rest = 1..(Len(posted) - 1) /\ Len(posted) \in Nat
          /\ \A i \in 1..(Len(posted) - 1) : rest[i] = posted[i + 1]
      BY <2>4, <3>1 DEF QueuesInv, Types, CqQueue
    <3>3. \A i \in DOMAIN rest : i + 1 \in Unused /\ i \in Nat
      BY <3>2 DEF Unused
    <3>4. IsInjective(rest)
      <4> SUFFICES ASSUME NEW i \in DOMAIN rest, NEW j \in DOMAIN rest, rest[i] = rest[j]
                   PROVE  i = j
        BY DEF IsInjective
      <4>1. i + 1 = j + 1
        BY <3>2, <3>3 DEF QueuesInv, OnePlace
      <4> QED BY <3>3, <4>1
    <3>5. ToSet(rest) \subseteq pending \union {LIBURING_UDATA_TIMEOUT}
      BY <3>2, <3>3 DEF ToSet, QueuesInv, OnePlace
    <3> QED BY <2>1, <2>2, <2>3, <2>4, <3>1, <3>4, <3>5 DEF CqIntact
  <2>5. CASE reaper.at # "used"
    <3>1. DOMAIN posted = Unused
      <4>1. DOMAIN posted = 1..Len(posted)
        BY DEF QueuesInv, Types
      <4>2. \A i \in 1..Len(posted) : i \in Unused
        BY <2>5 DEF Unused
      <4>3. \A i \in Unused : i \in 1..Len(posted)
        BY DEF Unused
      <4> QED BY <4>1, <4>2, <4>3
    <3>2. IsInjective(posted)
      BY <3>1 DEF IsInjective, QueuesInv, OnePlace
    <3>3. ToSet(posted) \subseteq pending \union {LIBURING_UDATA_TIMEOUT}
      BY <3>1 DEF ToSet, QueuesInv, OnePlace
    <3> QED BY <2>1, <2>2, <2>3, <2>5, <3>2, <3>3 DEF CqIntact
  <2> QED BY <2>4, <2>5
<1> QED BY <1>1, QueuesInductive, PTL

-----------------------------------------------------------------------------
(* LoggerRing, for a buffer of any size, messages of any size below it and   *)
(* any number of bytes logged.  IInv is inductive; what the consumer copies, *)
(* what commit asserts, and that the ring is the bounded queue of LogFifo    *)
(* follow from it.                                                          *)

USE RingAssumption DEF Cells

(* The ring is empty and nobody has started.                                *)
LEMMA InitIInv == Init => IInv
<1> SUFFICES ASSUME Init PROVE IInv
  OBVIOUS
<1>1. TypeOK
  BY DEF Init, TypeOK
<1>2. RingShape /\ Contents
  BY DEF Init, RingShape, Contents, Behind
<1>3. ProducerView /\ ConsumerView
  BY DEF Init, ProducerView, ConsumerView
<1> QED BY <1>1, <1>2, <1>3 DEF IInv

-----------------------------------------------------------------------------
(* The producer's steps.                                                    *)

(* A request is granted at once only if more than it is known to be free.   *)
LEMMA AllocateIInv ==
  ASSUME IInv, NEW n \in 1..MaxSize, Allocate(n)
  PROVE  IInv'
<1> USE DEF IInv, Allocate, producer, consumer
<1>1. TypeOK'
  BY DEF TypeOK
<1>2. RingShape' /\ Contents'
  BY DEF RingShape, Contents, Behind, Rest, Position
<1>3. ProducerView'
  BY DEF TypeOK, ProducerView, Behind
<1>4. ConsumerView'
  BY DEF ConsumerView, Behind, Rest
<1> QED BY <1>1, <1>2, <1>3, <1>4

(* The position read is good until the producer uses it: the consumer only    *)
(* moves on, and turns only while the producer is a round ahead.             *)
LEMMA ProbeIInv == ASSUME IInv, Probe PROVE IInv'
<1> USE DEF IInv, Probe, producer, consumer
<1>1. TypeOK'
  BY DEF TypeOK
<1>2. RingShape' /\ Contents'
  BY DEF RingShape, Contents, Behind, Rest, Position
<1>3. ProducerView'
  BY DEF TypeOK, ProducerView, Behind
<1>4. ConsumerView'
  BY DEF ConsumerView, Behind, Rest
<1> QED BY <1>1, <1>2, <1>3, <1>4

(* The data end moves only while the consumer is behind, so that no byte in   *)
(* the ring changes place.                                                   *)
LEMMA DecideBehindIInv == ASSUME IInv, DecideBehind PROVE IInv'
<1> USE DEF IInv, DecideBehind, producer, consumer
<1>1. Behind /\ Behind' /\ 0 <= cacheConsumerPos /\ cacheConsumerPos <= mConsumePos
  BY DEF ProducerView, Behind, TypeOK
<1>2. TypeOK'
  BY DEF TypeOK
<1>3. RingShape' /\ Contents'
  BY <1>1 DEF TypeOK, RingShape, Contents, Position
<1>4. ProducerView'
  BY <1>1 DEF TypeOK, ProducerView
<1>5. ConsumerView'
  BY <1>1 DEF ConsumerView
<1> QED BY <1>2, <1>3, <1>4, <1>5

(* The turn: the producer is a round ahead, every byte of the ring lies from  *)
(* the consumer up to the new data end, and the space before the consumer is  *)
(* free.                                                                     *)
LEMMA TurnIInv == ASSUME IInv, Turn PROVE IInv'
<1> USE DEF IInv, Turn, producer, consumer
<1>1. Behind /\ ~Behind' /\ 0 < cacheConsumerPos /\ cacheConsumerPos <= mConsumePos
      /\ mBufferDataEnd = mProducePos
  BY DEF ProducerView, Behind, TypeOK
<1>2. TypeOK'
  BY DEF TypeOK, Enough
<1>3. RingShape'
  BY <1>1 DEF TypeOK, RingShape, Rest, Behind
<1>4. Contents'
  BY <1>1 DEF TypeOK, RingShape, Contents, Position, Rest, Behind
<1>5. ProducerView'
  BY <1>1 DEF TypeOK, ProducerView, Enough
<1>6. ConsumerView'
  BY <1>1 DEF TypeOK, ConsumerView, Rest, Behind
<1> QED BY <1>2, <1>3, <1>4, <1>5, <1>6

(* If the consumer has turned since, the space up to where it was is free     *)
(* still.                                                                    *)
LEMMA DecideAheadIInv == ASSUME IInv, DecideAhead PROVE IInv'
<1> USE DEF IInv, DecideAhead, producer, consumer
<1>1. ~Behind => cacheConsumerPos <= mConsumePos
  BY DEF ProducerView, TypeOK
<1>2. TypeOK'
  BY DEF TypeOK, Enough
<1>3. RingShape' /\ Contents'
  BY <1>1 DEF TypeOK, RingShape, Contents, Position, Rest, Behind
<1>4. ProducerView'
  BY <1>1 DEF TypeOK, ProducerView, Enough, Behind
<1>5. ConsumerView'
  BY DEF ConsumerView, Behind, Rest
<1> QED BY <1>2, <1>3, <1>4, <1>5

(* The message goes to cells where no byte of the ring lies.                *)
LEMMA FillIInv == ASSUME IInv, Fill PROVE IInv'
<1> USE DEF IInv, Fill, producer, consumer
<1>1. nbytes < mFreeSpace /\ mProducePos + nbytes < Capacity
  BY DEF TypeOK, RingShape, ProducerView
<1>2. TypeOK'
  <2>1. \A k \in Cells : mProducePos <= k /\ k < mProducePos + nbytes
                           => written + (k - mProducePos) \in 0..MaxBytes
    BY DEF TypeOK, ProducerView
  <2>2. mBuffer' \in [Cells -> 0..MaxBytes]
    BY <2>1 DEF TypeOK
  <2> QED BY <2>2 DEF TypeOK
<1>3. RingShape'
  BY DEF RingShape, Behind, Rest
<1>4. Contents'
  <2> SUFFICES ASSUME NEW b \in read..(written - 1)
               PROVE  mBuffer'[Position(b)] = b
    BY DEF Contents, Position, Behind, Rest
  <2>1. Position(b) \in Cells
        /\ ~(mProducePos <= Position(b) /\ Position(b) < mProducePos + nbytes)
    BY <1>1 DEF TypeOK, RingShape, Position, Behind, Rest
  <2>2. mBuffer'[Position(b)] = mBuffer[Position(b)]
    BY <2>1
  <2> QED BY <2>2 DEF Contents
<1>5. ProducerView'
  <2>1. \A k \in 0..(nbytes - 1) : mBuffer'[mProducePos + k] = written + k
    BY <1>1 DEF TypeOK
  <2> QED BY <1>1, <2>1 DEF TypeOK, ProducerView
<1>6. ConsumerView'
  BY DEF ConsumerView, Behind, Rest
<1> QED BY <1>2, <1>3, <1>4, <1>5, <1>6

(* The message joins the ring, after the bytes that are there.              *)
LEMMA CommitIInv == ASSUME IInv, Commit PROVE IInv'
<1> USE DEF IInv, Commit, producer, consumer
<1>1. nbytes < mFreeSpace /\ mProducePos + nbytes < Capacity /\ (Behind <=> Behind')
  BY DEF TypeOK, RingShape, ProducerView, Behind
<1>2. TypeOK'
  BY <1>1 DEF TypeOK, ProducerView
<1>3. RingShape'
  BY <1>1 DEF TypeOK, RingShape, Behind, Rest
<1>4. Contents'
  <2> SUFFICES ASSUME NEW b \in read'..(written' - 1)
               PROVE  mBuffer'[Position(b)'] = b
    BY DEF Contents
  <2>1. Position(b)' = Position(b) /\ b \in Int
    BY <1>1 DEF TypeOK, Position, Rest
  <2>2. CASE b < written
    BY <2>1, <2>2 DEF Contents, TypeOK
  <2>3. CASE b >= written
    <3>1. Position(b) = mProducePos + (b - written) /\ b - written \in 0..(nbytes - 1)
      BY <2>3 DEF TypeOK, RingShape, Position, Behind, Rest
    <3>2. mBuffer[mProducePos + (b - written)] = written + (b - written)
      BY <3>1 DEF ProducerView
    <3> QED BY <2>1, <3>1, <3>2 DEF TypeOK
  <2> QED BY <2>1, <2>2, <2>3 DEF TypeOK
<1>5. ProducerView'
  BY DEF ProducerView
<1>6. ConsumerView'
  BY <1>1 DEF TypeOK, ConsumerView, Behind, Rest
<1> QED BY <1>2, <1>3, <1>4, <1>5, <1>6

-----------------------------------------------------------------------------
(* The consumer's steps.                                                    *)

LEMMA PeekIInv == ASSUME IInv, Peek PROVE IInv'
<1> USE DEF IInv, Peek, producer, consumer
<1>1. TypeOK'
  BY DEF TypeOK
<1>2. RingShape' /\ Contents'
  BY DEF RingShape, Contents, Behind, Rest, Position
<1>3. ProducerView'
  BY DEF ProducerView, Behind
<1>4. ConsumerView'
  BY DEF TypeOK, ConsumerView, RingShape, Behind, Rest
<1> QED BY <1>1, <1>2, <1>3, <1>4

(* The producer is still a round ahead, so the data end is that of the round  *)
(* the consumer is in.                                                       *)
LEMMA PeekTailIInv == ASSUME IInv, PeekTail PROVE IInv'
<1> USE DEF IInv, PeekTail, producer, consumer
<1>1. ~Behind
  BY DEF ConsumerView
<1>2. TypeOK'
  BY <1>1 DEF TypeOK, RingShape
<1>3. RingShape' /\ Contents'
  BY DEF RingShape, Contents, Behind, Rest, Position
<1>4. ProducerView'
  BY DEF ProducerView, Behind
<1>5. ConsumerView'
  BY <1>1 DEF TypeOK, ConsumerView, Behind, Rest
<1> QED BY <1>2, <1>3, <1>4, <1>5

(* The consumer turns: the bytes up to the producer are all there is.       *)
LEMMA PeekTurnIInv == ASSUME IInv, PeekTurn PROVE IInv'
<1> USE DEF IInv, PeekTurn, producer, consumer
<1>1. ~Behind /\ Behind' /\ cachedProducePos <= mProducePos /\ Rest = 0
  BY DEF ConsumerView, TypeOK, Behind, Rest
<1>2. TypeOK'
  BY DEF TypeOK
<1>3. RingShape'
  BY <1>1 DEF TypeOK, RingShape
<1>4. Contents'
  BY <1>1 DEF TypeOK, RingShape, Contents, Position
<1>5. ProducerView'
  BY <1>1 DEF TypeOK, ProducerView
<1>6. ConsumerView'
  BY <1>1 DEF TypeOK, ConsumerView
<1> QED BY <1>2, <1>3, <1>4, <1>5, <1>6

LEMMA PeekSameIInv == ASSUME IInv, PeekSame PROVE IInv'
<1> USE DEF IInv, PeekSame, producer, consumer
<1>1. cachedProducePos <= (IF Behind THEN mProducePos ELSE mBufferDataEnd)
  BY DEF ConsumerView, TypeOK
<1>2. TypeOK'
  BY DEF TypeOK
<1>3. RingShape' /\ Contents'
  BY DEF RingShape, Contents, Behind, Rest, Position
<1>4. ProducerView'
  BY DEF ProducerView, Behind
<1>5. ConsumerView'
  BY <1>1 DEF TypeOK, ConsumerView, Behind, Rest
<1> QED BY <1>2, <1>3, <1>4, <1>5

(* The bytes copied leave the ring; the others keep their places.           *)
LEMMA ConsumeIInv == ASSUME IInv, Consume PROVE IInv'
<1> USE DEF IInv, Consume, producer, consumer
<1>1. peeked <= (IF Behind THEN mProducePos - mConsumePos ELSE Rest)
  BY DEF ConsumerView
<1>2. (Behind <=> Behind') /\ read + peeked <= written
  BY <1>1 DEF TypeOK, Behind, RingShape, Rest
<1>3. TypeOK'
  BY <1>1, <1>2 DEF TypeOK, RingShape, Rest
<1>4. RingShape'
  BY <1>1, <1>2 DEF TypeOK, RingShape, Rest
<1>5. Contents'
  <2> SUFFICES ASSUME NEW b \in (read + peeked)..(written - 1)
               PROVE  mBuffer[Position(b)'] = b
    BY DEF Contents, Position, Behind, Rest
  <2>1. Position(b)' = Position(b)
    BY <1>1, <1>2 DEF TypeOK, Position, Rest
  <2> QED BY <2>1 DEF Contents, TypeOK
<1>6. ProducerView'
  BY <1>2 DEF TypeOK, ProducerView
<1>7. ConsumerView'
  BY DEF ConsumerView
<1> QED BY <1>3, <1>4, <1>5, <1>6, <1>7

LEMMA RefuseIInv == ASSUME IInv, Refuse PROVE IInv'
<1> USE DEF IInv, Refuse, producer, consumer
<1>1. TypeOK'
  BY DEF TypeOK
<1>2. RingShape' /\ Contents'
  BY DEF RingShape, Contents, Behind, Rest, Position
<1>3. ProducerView' /\ ConsumerView'
  BY DEF ProducerView, ConsumerView, Behind
<1> QED BY <1>1, <1>2, <1>3

-----------------------------------------------------------------------------
LEMMA StutterIInv == ASSUME IInv, UNCHANGED vars PROVE IInv'
<1> USE DEF IInv, vars, producer, consumer
<1>1. TypeOK' /\ RingShape' /\ Contents'
  BY DEF TypeOK, RingShape, Contents, Behind, Rest, Position
<1>2. ProducerView' /\ ConsumerView'
  BY DEF ProducerView, ConsumerView, Behind, Rest
<1> QED BY <1>1, <1>2

(* IInv is an invariant: the positions, what each thread remembers of the     *)
(* other's and the contents of the cells agree in every reachable state.     *)
THEOREM Inductive == Spec => []IInv
<1>1. Init => IInv
  BY InitIInv
<1>2. IInv /\ [Next]_vars => IInv'
  <2> SUFFICES ASSUME IInv, [Next]_vars PROVE IInv'
    OBVIOUS
  <2>1. CASE \E n \in 1..MaxSize : Allocate(n)
    BY <2>1, AllocateIInv
  <2>2. CASE Producer
    BY <2>2, ProbeIInv, DecideBehindIInv, TurnIInv, DecideAheadIInv, FillIInv, CommitIInv
    DEF Producer, update_and_allocate_buffer
  <2>3. CASE Consumer
    BY <2>3, PeekIInv, PeekTailIInv, PeekTurnIInv, PeekSameIInv, ConsumeIInv DEF Consumer
  <2>4. CASE Refuse
    BY <2>4, RefuseIInv
  <2>5. CASE UNCHANGED vars
    BY <2>5, StutterIInv
  <2> QED BY <2>1, <2>2, <2>3, <2>4, <2>5 DEF Next
<1> QED BY <1>1, <1>2, PTL DEF Spec

(* Positions stay within the buffer and counts within their bounds.         *)
THEOREM Typed == Spec => []TypeOK
<1>1. IInv => TypeOK
  BY DEF IInv
<1> QED BY <1>1, Inductive, PTL

(* What the IO thread copies is the next committed bytes, in order, whatever  *)
(* the producer does meanwhile.                                              *)
THEOREM ReadsWhatWasWritten == Spec => []ChunkIntact
<1>1. IInv => ChunkIntact
  <2> SUFFICES ASSUME IInv, pcC = "have"
               PROVE  /\ read + peeked <= written
                      /\ \A k \in 0..(peeked - 1) : mBuffer[mConsumePos + k] = read + k
    BY DEF ChunkIntact
  <2>1. peeked <= (IF Behind THEN mProducePos - mConsumePos ELSE Rest)
    BY DEF IInv, ConsumerView
  <2>2. read + peeked <= written
    BY <2>1 DEF IInv, TypeOK, RingShape, Rest
  <2>3. ASSUME NEW k \in 0..(peeked - 1)
        PROVE  mBuffer[mConsumePos + k] = read + k
    <3>1. read + k \in read..(written - 1)
      BY <2>2 DEF IInv, TypeOK
    <3>2. Position(read + k) = mConsumePos + k
      BY <2>1 DEF IInv, TypeOK, Position, Rest
    <3> QED BY <3>1, <3>2 DEF IInv, Contents
  <2> QED BY <2>2, <2>3
<1> QED BY <1>1, Inductive, PTL

(* The assertions of commit_buffer_with_size cannot fail.                   *)
THEOREM AssertionsHold == Spec => []CommitAsserts
<1>1. IInv => CommitAsserts
  BY DEF IInv, CommitAsserts, ProducerView, RingShape, TypeOK
<1> QED BY <1>1, Inductive, PTL

-----------------------------------------------------------------------------
(* The refinement.  n bytes, numbered on from a.                            *)
Bytes(a, n) == [i \in 1..n |-> a + i - 1]

LEMMA BytesType ==
  ASSUME NEW a \in Nat, NEW n \in Nat
  PROVE  /\ Bytes(a, n) \in Seq(Nat) /\ Len(Bytes(a, n)) = n
         /\ \A i \in 1..n : Bytes(a, n)[i] = a + i - 1
<1>1. Bytes(a, n) \in [1..n -> Nat]
  BY DEF Bytes
<1> QED BY <1>1 DEF Bytes

(* Bytes follow the bytes before them.                                      *)
LEMMA BytesAppend ==
  ASSUME NEW a \in Nat, NEW m \in Nat, NEW n \in Nat
  PROVE  Bytes(a, m) \o Bytes(a + m, n) = Bytes(a, m + n)
<1> DEFINE s == Bytes(a, m)
           t == Bytes(a + m, n)
           u == Bytes(a, m + n)
<1>1. s \in Seq(Nat) /\ Len(s) = m /\ \A i \in 1..m : s[i] = a + i - 1
  BY BytesType
<1>2. t \in Seq(Nat) /\ Len(t) = n /\ \A i \in 1..n : t[i] = (a + m) + i - 1
  <2>1. a + m \in Nat
    OBVIOUS
  <2> QED BY <2>1, BytesType
<1>3. u \in Seq(Nat) /\ Len(u) = m + n /\ \A i \in 1..(m + n) : u[i] = a + i - 1
  <2>1. m + n \in Nat
    OBVIOUS
  <2> QED BY <2>1, BytesType
<1> HIDE DEF s, t, u
<1>4. /\ s \o t \in Seq(Nat) /\ Len(s \o t) = m + n
      /\ \A i \in 1..(m + n) : (s \o t)[i] = IF i <= m THEN s[i] ELSE t[i - m]
  BY <1>1, <1>2, ConcatProperties
<1>5. ASSUME NEW i \in 1..(m + n)
      PROVE  (s \o t)[i] = u[i]
  <2>1. CASE i <= m
    BY <1>1, <1>3, <1>4, <2>1
  <2>2. CASE ~(i <= m)
    <3>1. i - m \in 1..n
      BY <2>2
    <3>2. t[i - m] = (a + m) + (i - m) - 1
      BY <1>2, <3>1
    <3>3. (s \o t)[i] = t[i - m]
      BY <1>4, <2>2
    <3>4. u[i] = a + i - 1
      BY <1>3
    <3> QED BY <3>2, <3>3, <3>4
  <2> QED BY <2>1, <2>2
<1>6. s \o t = u
  BY <1>3, <1>4, <1>5, SeqEqual
<1> QED BY <1>6 DEF s, t, u

(* Without the first m of them, the others.                                 *)
LEMMA BytesDrop ==
  ASSUME NEW a \in Nat, NEW n \in Nat, NEW m \in 0..n
  PROVE  SubSeq(Bytes(a, n), m + 1, n) = Bytes(a + m, n - m)
<1> DEFINE s == Bytes(a, n)
           t == SubSeq(s, m + 1, n)
           u == Bytes(a + m, n - m)
<1>1. \A i \in 1..n : s[i] = a + i - 1
  BY BytesType
<1>2. u \in Seq(Nat) /\ Len(u) = n - m /\ \A i \in 1..(n - m) : u[i] = (a + m) + i - 1
  <2>1. a + m \in Nat /\ n - m \in Nat
    OBVIOUS
  <2> QED BY <2>1, BytesType
<1> HIDE DEF s, u
<1>3. /\ t \in Seq(Nat) /\ Len(t) = n - m
      /\ \A i \in 1..(n - m) : t[i] = s[m + i]
  <2>1. \A i \in (m + 1)..n : s[i] \in Nat
    BY <1>1
  <2>2. /\ t \in Seq(Nat)
        /\ Len(t) = IF m + 1 <= n THEN n - (m + 1) + 1 ELSE 0
        /\ \A i \in 1..(n - (m + 1) + 1) : t[i] = s[(m + 1) + i - 1]
    BY <2>1, SubSeqProperties
  <2> HIDE DEF t
  <2> QED BY <2>2
<1> HIDE DEF t
<1>4. ASSUME NEW i \in 1..(n - m)
      PROVE  t[i] = u[i]
  BY <1>1, <1>2, <1>3
<1>5. t = u
  BY <1>2, <1>3, <1>4, SeqEqual
<1> QED BY <1>5 DEF s, t, u

(* What is queued is the bytes committed and not consumed.                  *)
QueuedIsBytes ==
  /\ written - read \in 0..(Capacity - 1)
  /\ Queued = Bytes(read, written - read)

LEMMA QueuedBytes == IInv => QueuedIsBytes
<1> SUFFICES ASSUME IInv PROVE QueuedIsBytes
  OBVIOUS
<1>1. written - read \in 0..(Capacity - 1)
  BY DEF IInv, TypeOK, RingShape, Behind, Rest
<1>2. \A i \in 1..(written - read) : mBuffer[Position(read + i - 1)] = read + i - 1
  BY DEF IInv, TypeOK, Contents
<1> QED BY <1>1, <1>2 DEF QueuedIsBytes, Queued, Bytes

LEMMA QueuedBytesNext == IInv' => QueuedIsBytes'
BY QueuedBytes, PTL

(* A commit appends its message.                                            *)
LEMMA CommitLogs ==
  ASSUME IInv, IInv', Commit
  PROVE  nbytes \in 1..MaxSize /\ Fifo!Log(nbytes)
<1> USE DEF Commit, consumer
<1>1. nbytes \in Nat /\ nbytes \in 1..MaxSize /\ written + nbytes <= MaxBytes
      /\ written \in Nat /\ read \in Nat /\ read' = read
  BY DEF IInv, TypeOK, ProducerView
<1>2. Queued = Bytes(read, written - read) /\ Len(Queued) = written - read
      /\ written - read \in Nat
  <2>1. Queued = Bytes(read, written - read) /\ written - read \in Nat
    BY QueuedBytes DEF QueuedIsBytes
  <2>2. Len(Bytes(read, written - read)) = written - read
    BY <1>1, <2>1, BytesType
  <2> QED BY <2>1, <2>2
<1>3. Queued' = Bytes(read, written + nbytes - read) /\ written + nbytes - read < Capacity
  BY <1>1, QueuedBytesNext DEF QueuedIsBytes, Bytes
<1>4. Queued' = Queued \o Bytes(written, nbytes)
  <2>1. Bytes(read, written - read) \o Bytes(read + (written - read), nbytes)
          = Bytes(read, (written - read) + nbytes)
    BY <1>1, <1>2, BytesAppend
  <2>2. read + (written - read) = written /\ (written - read) + nbytes = written + nbytes - read
    BY <1>1
  <2> QED BY <1>2, <1>3, <2>1, <2>2
<1> QED BY <1>1, <1>2, <1>3, <1>4 DEF Fifo!Log, Bytes

(* A consume takes the bytes that were copied, if there were any.           *)
LEMMA ConsumeTakes ==
  ASSUME IInv, IInv', Consume
  PROVE  \/ peeked \in 1..Len(Queued) /\ Fifo!Take(peeked)
         \/ UNCHANGED <<Queued, written>>
<1> USE DEF Consume, producer
<1>1. peeked \in Nat /\ written \in Nat /\ read \in Nat /\ written' = written
      /\ read' = read + peeked
  BY DEF IInv, TypeOK
<1>2. Queued = Bytes(read, written - read) /\ Len(Queued) = written - read
      /\ written - read \in Nat
  <2>1. Queued = Bytes(read, written - read) /\ written - read \in Nat
    BY QueuedBytes DEF QueuedIsBytes
  <2>2. Len(Bytes(read, written - read)) = written - read
    BY <1>1, <2>1, BytesType
  <2> QED BY <2>1, <2>2
<1>3. Queued' = Bytes(read + peeked, written - (read + peeked))
      /\ peeked \in 0..(written - read)
  BY <1>1, QueuedBytesNext DEF QueuedIsBytes, Bytes
<1>4. SubSeq(Queued, peeked + 1, Len(Queued)) = Queued'
  <2>1. SubSeq(Bytes(read, written - read), peeked + 1, written - read)
          = Bytes(read + peeked, (written - read) - peeked)
    BY <1>1, <1>2, <1>3, BytesDrop
  <2>2. (written - read) - peeked = written - (read + peeked)
    BY <1>1
  <2> QED BY <1>2, <1>3, <2>1, <2>2
<1>5. CASE peeked = 0
  BY <1>1, <1>2, <1>3, <1>5
<1>6. CASE peeked # 0
  BY <1>1, <1>2, <1>3, <1>4, <1>6 DEF Fifo!Take
<1> QED BY <1>5, <1>6

(* No other step changes what is queued: a byte may change place in the       *)
(* formula for its position, but not its value.                              *)
LEMMA OthersStutter ==
  ASSUME IInv, IInv', read' = read, written' = written
  PROVE  UNCHANGED <<Queued, written>>
BY QueuedBytes, QueuedBytesNext DEF QueuedIsBytes, Bytes

(* The ring implements the bounded queue of bytes, for every size of buffer   *)
(* and message.                                                              *)
THEOREM RingImplementsFifo == Spec => ImplementsFifo
<1>1. Init => Fifo!Init
  BY DEF Init, Fifo!Init, Queued
<1>2. ASSUME IInv, IInv', [Next]_vars
      PROVE  [Fifo!Next]_<<Queued, written>>
  <2>1. CASE Commit
    BY <1>2, <2>1, CommitLogs DEF Fifo!Next
  <2>2. CASE Consume
    BY <1>2, <2>2, ConsumeTakes DEF Fifo!Next
  <2>3. CASE ~Commit /\ ~Consume
    <3>1. read' = read /\ written' = written
      BY <1>2, <2>3 DEF Next, Producer, Consumer, update_and_allocate_buffer, vars, producer,
         consumer, Allocate, Probe, DecideBehind, Turn, DecideAhead, Fill, Peek, PeekTail,
         PeekTurn, PeekSame, Refuse
    <3> QED BY <1>2, <3>1, OthersStutter
  <2> QED BY <2>1, <2>2, <2>3
<1> QED BY <1>1, <1>2, Inductive, PTL DEF Spec, ImplementsFifo, Fifo!Spec
=============================================================================
