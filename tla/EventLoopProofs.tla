--------------------------- MODULE EventLoopProofs ---------------------------
(***************************************************************************)
(* Proofs about EventLoop, for any clients and files that they ask for, any *)
(* number of descriptors and any capacity of a pipe: that the server can      *)
(* always accept, that each descriptor it opens has one request that will     *)
(* close it, and that a client gets the whole of one answer.  IInv, which is   *)
(* inductive, says who owns what (Owned) and what each request finds when it   *)
(* is completed and handled (Told).                                          *)
(***************************************************************************)
EXTENDS EventLoop, FiniteSetTheorems, TLAPS

-----------------------------------------------------------------------------
(* The types.  A descriptor that an operation names was resolved when it was  *)
(* submitted, to whatever was open there.                                    *)

Things == Objects \cup {Closed, Other}
Codes == {"100", "200", "400", "404"}
Untold == [heads |-> <<>>, body |-> 0]
HeadTold == [heads |-> <<"200">>, body |-> 0]

Reads == [type : {"READ"}, sock : Fds, on : Things]
Writes == [type : {"WRITE"}, sock : Fds, on : Things, code : Codes]
Splices == [type : {"SPLICE"}, sock : Fds, owned : Fds \X Fds \X Fds,
            on : Things, to : Things, size : Nat]
Sends == [type : {"SPLICE_SEND"}, sock : Fds, owned : Fds \X Fds \X Fds,
          on : Things, to : Things, size : Nat]
Requests == {AcceptRequest} \cup Reads \cup Writes \cup Splices \cup Sends

Results(r) == IF r.type = "ACCEPT" THEN Fds \cup {-1} ELSE -1..PipeCap

QueueTypes ==
  /\ submitted \in SUBSET Requests
  /\ cq \in Seq([req : Requests, res : Int])
  /\ \A i \in 1..Len(cq) : cq[i].res \in Results(cq[i].req)

Types ==
  /\ QueueTypes
  /\ status \in {"running", "exited"}
  /\ fds \in [Fds -> Things]
  /\ piped \in [Clients -> 0..PipeCap]
  /\ client \in [Clients -> {"away", "backlog", "accepted"}]
  /\ asked \in [Clients -> Kinds \cup {"nothing"}]
  /\ gone \subseteq Clients
  /\ received \in [Clients -> [heads : Seq(Codes), body : Nat]]
  /\ mishaps \subseteq Mishaps

-----------------------------------------------------------------------------
(* Who owns what.                                                           *)

(* The sockets that have been accepted and not been handed to a request.     *)
Arrived == {cq[i].res : i \in {j \in 1..Len(cq) : cq[j].req.type = "ACCEPT"}} \ {-1}

(* No request is in flight twice.                                           *)
Distinct ==
  /\ \A i \in 1..Len(cq) : cq[i].req \notin submitted
  /\ \A i, j \in 1..Len(cq) : cq[i].req = cq[j].req => i = j

(* A completion that the loop has not handled.                              *)
Posted(q, n) == \E i \in 1..Len(cq) : cq[i].req = q /\ cq[i].res = n

(* The client that a request serves.                                        *)
Of(r) == IF r.type = "SPLICE_SEND" THEN r.to[2] ELSE r.on[2]

(* A request names what its numbers stand for in the table fs.              *)
Right(fs, r) ==
  /\ r.type # "ACCEPT" => Of(r) \in Clients /\ fs[r.sock] = Sock(Of(r))
  /\ r.type \in {"READ", "WRITE"} => r.on = Sock(Of(r))
  /\ r.type = "SPLICE" => r.on = File(Of(r)) /\ r.to = PipeIn(Of(r))
  /\ r.type = "SPLICE_SEND" => r.to = Sock(Of(r)) /\ r.on = PipeOut(Of(r))
  /\ r.type \in {"SPLICE", "SPLICE_SEND"} =>
       /\ fs[r.owned[1]] = PipeIn(Of(r)) /\ fs[r.owned[2]] = PipeOut(Of(r))
       /\ fs[r.owned[3]] = File(Of(r))

(* Each open descriptor is in the hands of one request of F, or is an arrived *)
(* socket.                                                                  *)
OwnedBy(fs, F, A) ==
  /\ \A r \in F : Right(fs, r)
  /\ \A r, s \in F : r = s \/ \A x \in Held(r) : x \notin Held(s)
  /\ \A f \in A : /\ f \in Fds /\ \E c \in Clients : fs[f] = Sock(c)
                  /\ \A r \in F : f \notin Held(r)
  /\ \A f \in Fds : fs[f] \in {Closed, Other} \/ f \in A \/ \E r \in F : f \in Held(r)

Owned ==
  mishaps \subseteq {"short splice"} => Distinct /\ OwnedBy(fds, InFlight, Arrived)

-----------------------------------------------------------------------------
(* What the clients have been told.                                         *)

Wants(c) == asked[c] # "nothing"
WantsFile(c, n) ==
  Wants(c) /\ asked[c] \in DOMAIN Size /\ asked[c] # "directory" /\ n = Size[asked[c]]

(* Before the kernel has done r, and after it has with a result that is none  *)
(* of an error.                                                             *)
Before(r) ==
  LET c == Of(r) IN
  /\ r.type = "READ" => received[c] = Untold
  /\ r.type = "WRITE" => /\ received[c] = Untold /\ Wants(c)
                         /\ [heads |-> <<r.code>>, body |-> 0] \in Answers(asked[c])
  /\ r.type = "SPLICE" => received[c] = HeadTold /\ WantsFile(c, r.size)
  /\ r.type = "SPLICE_SEND" => /\ received[c] = HeadTold /\ WantsFile(c, r.size)
                               /\ piped[c] = r.size

After(r, res) ==
  LET c == Of(r) IN
  /\ r.type = "READ" => /\ received[c] = Untold
                        /\ IF res = 0 THEN c \in gone ELSE Wants(c)
  /\ r.type = "WRITE" => Wants(c) /\ received[c] \in Answers(asked[c])
  /\ r.type = "SPLICE" => /\ received[c] = HeadTold /\ WantsFile(c, r.size)
                          /\ piped[c] = r.size
  /\ r.type = "SPLICE_SEND" => Wants(c) /\ received[c] \in Answers(asked[c])

(* One connection for each client; when it is over the client has its answer  *)
(* or has left.                                                             *)
Connections ==
  /\ \A c \in Clients, f, g \in Fds : fds[f] = Sock(c) /\ fds[g] = Sock(c) => f = g
  /\ \A c \in Clients : client[c] # "accepted" =>
       received[c] = Untold /\ \A f \in Fds : fds[f] # Sock(c)
  /\ \A c \in Clients : client[c] = "accepted" =>
       \/ \E f \in Fds : fds[f] = Sock(c)
       \/ c \in gone \/ (Wants(c) /\ received[c] \in Answers(asked[c]))

Told ==
  mishaps = {} =>
    /\ Connections
    /\ \A c \in Clients, f \in Arrived : fds[f] = Sock(c) => received[c] = Untold
    /\ \A r \in submitted : Before(r)
    /\ \A q \in InFlight, n \in Nat : Posted(q, n) => After(q, n)

IInv == Types /\ AcceptArmed /\ Owned /\ Told
-----------------------------------------------------------------------------
(* Facts about the objects and the requests.                                *)

(* The constants.                                                           *)
LEMMA Limits ==
  /\ PipeCap \in Nat \ {0} /\ MaxFd \in Nat /\ TakenFds \subseteq 0..MaxFd
  /\ IsFiniteSet(Clients) /\ \A k \in DOMAIN Size : Size[k] \in Nat
  BY ClientsAssumption, LimitsAssumption, SizeAssumption

(* Different descriptions are different, whoever they are for.              *)
LEMMA ObjectsDiffer ==
  ASSUME NEW c, NEW d
  PROVE  /\ Sock(c)[2] = c /\ File(c)[2] = c /\ PipeIn(c)[2] = c /\ PipeOut(c)[2] = c
         /\ Sock(c) = Sock(d) => c = d
         /\ Sock(c) # File(d) /\ Sock(c) # PipeIn(d) /\ Sock(c) # PipeOut(d)
         /\ File(c) # PipeIn(d) /\ File(c) # PipeOut(d) /\ PipeIn(c) # PipeOut(d)
  BY DEF Sock, File, PipeIn, PipeOut

(* What is closed, or was open before the loop began, is none of them.       *)
LEMMA NotAnObject ==
  ASSUME NEW c
  PROVE  \A x \in {Sock(c), File(c), PipeIn(c), PipeOut(c)} : x \notin {Closed, Other}
  BY DEF Sock, File, PipeIn, PipeOut, Closed, Other

(* The objects of a client.                                                 *)
LEMMA ObjectsOf ==
  ASSUME NEW c \in Clients
  PROVE  {Sock(c), File(c), PipeIn(c), PipeOut(c)} \subseteq Things /\ {Closed, Other} \subseteq Things
  BY DEF Sock, File, PipeIn, PipeOut, Things, Objects

(* The kinds of request, told by their types.                               *)
LEMMA Kind ==
  ASSUME NEW r \in Requests
  PROVE  /\ r.type \in {"ACCEPT", "READ", "WRITE", "SPLICE", "SPLICE_SEND"}
         /\ r.type = "ACCEPT" <=> r = AcceptRequest
         /\ r.type = "READ" => r \in Reads
         /\ r.type = "WRITE" => r \in Writes
         /\ r.type = "SPLICE" => r \in Splices
         /\ r.type = "SPLICE_SEND" => r \in Sends
  BY DEF Requests, Reads, Writes, Splices, Sends, AcceptRequest

(* The numbers that a request holds.                                        *)
LEMMA HeldIs ==
  ASSUME NEW r \in Requests
  PROVE  /\ r.type = "ACCEPT" => Held(r) = {}
         /\ r.type \in {"READ", "WRITE"} => Held(r) = {r.sock} /\ r.sock \in Fds
         /\ r.type \in {"SPLICE", "SPLICE_SEND"} =>
              /\ Held(r) = {r.sock, r.owned[1], r.owned[2], r.owned[3]}
              /\ r.owned[1] \in Fds /\ r.owned[2] \in Fds /\ r.owned[3] \in Fds /\ r.sock \in Fds
              /\ {r.owned[i] : i \in 1..3} = {r.owned[1], r.owned[2], r.owned[3]}
<1>1. {r.owned[i] : i \in 1..3} = {r.owned[1], r.owned[2], r.owned[3]}
  <2>1. 1..3 = {1, 2, 3}
    OBVIOUS
  <2> QED BY <2>1
<1>2. r.type = "ACCEPT" => Held(r) = {}
  BY DEF Held
<1>3. r.type \in {"READ", "WRITE"} => Held(r) = {r.sock} /\ r.sock \in Fds
  BY Kind DEF Held, Reads, Writes
<1>4. ASSUME r.type \in {"SPLICE", "SPLICE_SEND"}
      PROVE  /\ r.owned[1] \in Fds /\ r.owned[2] \in Fds /\ r.owned[3] \in Fds /\ r.sock \in Fds
             /\ Held(r) = {r.sock, r.owned[1], r.owned[2], r.owned[3]}
  <2>1. r.sock \in Fds /\ r.owned \in Fds \X Fds \X Fds
    BY <1>4, Kind DEF Splices, Sends
  <2>2. Held(r) = {r.sock} \cup {r.owned[i] : i \in 1..3}
    BY <1>4 DEF Held
  <2> QED BY <1>1, <2>1, <2>2
<1> QED BY <1>1, <1>2, <1>3, <1>4

(* A number that a request holds is open, and is no descriptor of old.       *)
LEMMA HeldIsOpen ==
  ASSUME NEW fs, NEW r \in Requests, Right(fs, r), NEW f \in Held(r)
  PROVE  f \in Fds /\ fs[f] \notin {Closed, Other}
<1>1. CASE r.type \in {"READ", "WRITE"}
  BY <1>1, HeldIs, NotAnObject DEF Right
<1>2. CASE r.type \in {"SPLICE", "SPLICE_SEND"}
  <2>1. f \in {r.sock, r.owned[1], r.owned[2], r.owned[3]} /\ f \in Fds
    BY <1>2, HeldIs
  <2>2. fs[f] \in {Sock(Of(r)), File(Of(r)), PipeIn(Of(r)), PipeOut(Of(r))}
    BY <1>2, <2>1 DEF Right
  <2> QED BY <2>1, <2>2, NotAnObject
<1> QED BY <1>1, <1>2, HeldIs, Kind

(* Whether a request is right is a matter of the numbers it holds.           *)
LEMMA RightStays ==
  ASSUME NEW fs, NEW gs, NEW r \in Requests, Right(fs, r), \A f \in Held(r) : gs[f] = fs[f]
  PROVE  Right(gs, r)
<1>1. CASE r.type \in {"READ", "WRITE"}
  BY <1>1, HeldIs DEF Right
<1>2. CASE r.type \in {"SPLICE", "SPLICE_SEND"}
  BY <1>2, HeldIs DEF Right
<1>3. CASE r.type = "ACCEPT"
  BY <1>3 DEF Right
<1> QED BY <1>1, <1>2, <1>3, Kind

(* A socket that a request holds is its client's.                           *)
LEMMA SockHeld ==
  ASSUME NEW fs, NEW r \in Requests, Right(fs, r), NEW f \in Held(r), NEW c, fs[f] = Sock(c)
  PROVE  c = Of(r)
<1>1. CASE r.type \in {"READ", "WRITE"}
  BY <1>1, HeldIs, ObjectsDiffer DEF Right
<1>2. CASE r.type \in {"SPLICE", "SPLICE_SEND"}
  <2>1. f \in {r.sock, r.owned[1], r.owned[2], r.owned[3]}
    BY <1>2, HeldIs
  <2>2. fs[f] \in {Sock(Of(r)), File(Of(r)), PipeIn(Of(r)), PipeOut(Of(r))}
    BY <1>2, <2>1 DEF Right
  <2> QED BY <2>2, ObjectsDiffer
<1> QED BY <1>1, <1>2, HeldIs, Kind

-----------------------------------------------------------------------------
(* Five things that happen to a table of descriptors and its owners.        *)

(* A connection is accepted.                                                *)
LEMMA Accepting ==
  ASSUME NEW fs \in [Fds -> Things], NEW F \in SUBSET Requests, OwnedBy(fs, F, {}),
         NEW c \in Clients, NEW sock \in Fds, fs[sock] = Closed,
         NEW gs, gs = [fs EXCEPT ![sock] = Sock(c)]
  PROVE  OwnedBy(gs, F, {sock})
<1>1. gs = [fs EXCEPT ![sock] = Sock(c)]
  OBVIOUS
<1>2. \A r \in F : sock \notin Held(r)
  BY HeldIsOpen DEF OwnedBy
<1>3. \A r \in F : Right(gs, r)
  <2> TAKE r \in F
  <2>1. \A f \in Held(r) : gs[f] = fs[f]
    BY <1>1, <1>2, HeldIsOpen DEF OwnedBy
  <2> QED BY <2>1, RightStays DEF OwnedBy
<1>4. gs[sock] = Sock(c) /\ \A f \in Fds \ {sock} : gs[f] = fs[f]
  BY <1>1
<1> QED BY <1>2, <1>3, <1>4 DEF OwnedBy

(* A request gives way to another for the same numbers.                     *)
LEMMA Replacing ==
  ASSUME NEW fs, NEW F \in SUBSET Requests, NEW A, OwnedBy(fs, F, A),
         NEW r \in F, NEW s \in Requests, Held(s) = Held(r), Right(fs, s)
  PROVE  OwnedBy(fs, (F \ {r}) \cup {s}, A)
<1>1. PICK G : G = (F \ {r}) \cup {s}
  OBVIOUS
<1>2. \A q \in G : Right(fs, q)
  BY <1>1 DEF OwnedBy
<1>3. \A p, q \in G : p = q \/ \A x \in Held(p) : x \notin Held(q)
  BY <1>1 DEF OwnedBy
<1>4. \A f \in A : /\ f \in Fds /\ \E c \in Clients : fs[f] = Sock(c)
                   /\ \A q \in G : f \notin Held(q)
  BY <1>1 DEF OwnedBy
<1>5. \A f \in Fds : fs[f] \in {Closed, Other} \/ f \in A \/ \E q \in G : f \in Held(q)
  BY <1>1 DEF OwnedBy
<1> QED BY <1>1, <1>2, <1>3, <1>4, <1>5 DEF OwnedBy

(* An arrived socket is handed to a request.                                *)
LEMMA HandingOver ==
  ASSUME NEW fs, NEW F \in SUBSET Requests, NEW f, OwnedBy(fs, F, {f}),
         NEW s \in Requests, Held(s) = {f}, Right(fs, s)
  PROVE  OwnedBy(fs, F \cup {s}, {})
<1>1. \A p, q \in F \cup {s} : p = q \/ \A x \in Held(p) : x \notin Held(q)
  BY DEF OwnedBy
<1>2. \A q \in F \cup {s} : Right(fs, q)
  BY DEF OwnedBy
<1>3. \A g \in Fds : fs[g] \in {Closed, Other} \/ \E q \in F \cup {s} : g \in Held(q)
  BY DEF OwnedBy
<1> QED BY <1>1, <1>2, <1>3 DEF OwnedBy

(* A request that is done closes what it holds.                             *)
LEMMA Closing ==
  ASSUME NEW fs \in [Fds -> Things], NEW F \in SUBSET Requests, NEW A, OwnedBy(fs, F, A),
         NEW r \in F, NEW gs, \A f \in Fds : gs[f] = IF f \in Held(r) THEN Closed ELSE fs[f]
  PROVE  OwnedBy(gs, F \ {r}, A)
<1>2. \A f \in Fds : gs[f] = IF f \in Held(r) THEN Closed ELSE fs[f]
  OBVIOUS
<1>3. \A q \in F \ {r} : Right(gs, q)
  <2> TAKE q \in F \ {r}
  <2>1. \A f \in Held(q) : f \in Fds /\ f \notin Held(r)
    BY HeldIsOpen DEF OwnedBy
  <2>2. \A f \in Held(q) : gs[f] = fs[f]
    BY <1>2, <2>1
  <2> QED BY <2>2, RightStays DEF OwnedBy
<1>4. \A f \in A : /\ f \in Fds /\ \E c \in Clients : gs[f] = Sock(c)
                   /\ \A q \in F \ {r} : f \notin Held(q)
  BY <1>2 DEF OwnedBy
<1>5. \A f \in Fds : gs[f] \in {Closed, Other} \/ f \in A \/ \E q \in F \ {r} : f \in Held(q)
  BY <1>2 DEF OwnedBy
<1>6. \A p, q \in F \ {r} : p = q \/ \A x \in Held(p) : x \notin Held(q)
  BY DEF OwnedBy
<1> QED BY <1>3, <1>4, <1>5, <1>6 DEF OwnedBy

(* A read gives way to a splice with a file and a pipe of its own.           *)
LEMMA Opening ==
  ASSUME NEW fs \in [Fds -> Things], NEW F \in SUBSET Requests, NEW A, OwnedBy(fs, F, A),
         NEW r \in F, r.type = "READ", NEW c, c = Of(r), NEW file \in Fds, NEW pipeOut \in Fds,
         NEW pipeIn \in Fds, file # pipeOut, file # pipeIn, pipeOut # pipeIn,
         fs[file] = Closed, fs[pipeOut] = Closed, fs[pipeIn] = Closed,
         NEW s \in Splices, s.sock = r.sock, s.owned = <<pipeIn, pipeOut, file>>,
         s.on = File(c), s.to = PipeIn(c), NEW gs,
         gs = [fs EXCEPT ![file] = File(c), ![pipeOut] = PipeOut(c), ![pipeIn] = PipeIn(c)]
  PROVE  OwnedBy(gs, (F \ {r}) \cup {s}, A)
<1>1. gs = [fs EXCEPT ![file] = File(c), ![pipeOut] = PipeOut(c), ![pipeIn] = PipeIn(c)]
  OBVIOUS
<1>2. PICK G : G = (F \ {r}) \cup {s}
  OBVIOUS
<1>3. PICK new : new = {file, pipeOut, pipeIn}
  OBVIOUS
<1>4. /\ gs[file] = File(c) /\ gs[pipeOut] = PipeOut(c) /\ gs[pipeIn] = PipeIn(c)
      /\ \A f \in Fds \ new : gs[f] = fs[f]
  BY <1>1, <1>3
<1>5. /\ s \in Requests /\ s.type = "SPLICE" /\ Held(s) = {r.sock, pipeIn, pipeOut, file}
      /\ Held(r) = {r.sock} /\ r.sock \in Fds /\ Of(s) = c
  <2>1. s \in Requests /\ s.type = "SPLICE"
    BY DEF Requests, Splices
  <2>2. Of(s) = c
    BY <2>1, ObjectsDiffer DEF Of
  <2> QED BY <2>1, <2>2, HeldIs
<1>6. /\ \A q \in F : \A x \in Held(q) : x \notin new
      /\ \A f \in A : f \notin new
  <2>1. \A q \in F : \A x \in Held(q) : x \notin new
    BY <1>3, HeldIsOpen DEF OwnedBy
  <2>2. \A f \in A : f \notin new
    BY <1>3, NotAnObject DEF OwnedBy
  <2> QED BY <2>1, <2>2
<1>7. \A q \in F : Right(gs, q)
  <2> TAKE q \in F
  <2>1. \A f \in Held(q) : gs[f] = fs[f]
    BY <1>4, <1>6, HeldIsOpen DEF OwnedBy
  <2> QED BY <2>1, RightStays DEF OwnedBy
<1>8. Right(gs, s)
  <2>1. Right(gs, r)
    BY <1>7
  <2>2. c \in Clients /\ gs[s.sock] = Sock(c)
    BY <2>1 DEF Right
  <2> QED BY <1>4, <1>5, <2>2 DEF Right
<1>9. \A q \in G : Right(gs, q)
  BY <1>2, <1>7, <1>8
<1>10. \A p, q \in G : p = q \/ \A x \in Held(p) : x \notin Held(q)
  <2>1. \A q \in F \ {r} : r.sock \notin Held(q)
    BY <1>5 DEF OwnedBy
  <2>2. \A q \in F \ {r} : \A x \in Held(s) : x \notin Held(q)
    BY <1>3, <1>5, <1>6, <2>1
  <2> QED BY <1>2, <2>2 DEF OwnedBy
<1>11. \A f \in A : /\ f \in Fds /\ \E d \in Clients : gs[f] = Sock(d)
                    /\ \A q \in G : f \notin Held(q)
  <2> TAKE f \in A
  <2>1. f \in Fds /\ gs[f] = fs[f]
    BY <1>4, <1>6 DEF OwnedBy
  <2>2. f # r.sock /\ f \notin Held(s)
    BY <1>3, <1>5, <1>6 DEF OwnedBy
  <2> QED BY <1>2, <2>1, <2>2 DEF OwnedBy
<1>12. \A f \in Fds : gs[f] \in {Closed, Other} \/ f \in A \/ \E q \in G : f \in Held(q)
  <2> TAKE f \in Fds
  <2>1. CASE f \in Held(s)
    BY <1>2, <2>1
  <2>2. CASE f \notin Held(s)
    <3>1. gs[f] = fs[f] /\ f \notin Held(r)
      BY <1>3, <1>4, <1>5, <2>2
    <3> QED BY <1>2, <3>1 DEF OwnedBy
  <2> QED BY <2>1, <2>2
<1>13. OwnedBy(gs, G, A)
  BY <1>9, <1>10, <1>11, <1>12 DEF OwnedBy
<1> QED BY <1>1, <1>2, <1>13

-----------------------------------------------------------------------------
(* What the two ends of the completion queue do to the requests in flight.   *)

Entry(e) == e \in [req : Requests, res : Int] /\ e.res \in Results(e.req)

(* The queue, element by element.                                           *)
LEMMA QueueIs ==
  ASSUME QueueTypes
  PROVE  /\ Len(cq) \in Nat /\ DOMAIN cq = 1..Len(cq)
         /\ \A i \in 1..Len(cq) : Entry(cq[i]) /\ cq[i].req \in Requests
         /\ InFlight = submitted \cup {cq[i].req : i \in 1..Len(cq)}
         /\ InFlight \in SUBSET Requests
<1>1. cq \in Seq([req : Requests, res : Int])
  BY DEF QueueTypes
<1>2. Len(cq) \in Nat /\ DOMAIN cq = 1..Len(cq)
  BY <1>1
<1>3. \A i \in 1..Len(cq) : cq[i] \in [req : Requests, res : Int]
  <2>1. PICK E : E = [req : Requests, res : Int]
    OBVIOUS
  <2>2. cq \in Seq(E)
    BY <1>1, <2>1
  <2>3. \A i \in 1..Len(cq) : cq[i] \in E
    BY <2>2
  <2> QED BY <2>1, <2>3
<1>4. \A i \in 1..Len(cq) : Entry(cq[i]) /\ cq[i].req \in Requests
  BY <1>3 DEF QueueTypes, Entry
<1>5. InFlight = submitted \cup {cq[i].req : i \in 1..Len(cq)}
  BY <1>2 DEF InFlight
<1> QED BY <1>2, <1>4, <1>5 DEF QueueTypes

(* A completion goes to the end of the queue, and its request stays in flight. *)
LEMMA Completing ==
  ASSUME QueueTypes, NEW r, NEW res \in Results(r), Complete(r, res)
  PROVE  /\ QueueTypes' /\ r \in Requests /\ r \in submitted /\ r \in InFlight
         /\ InFlight' = InFlight /\ submitted' = submitted \ {r}
         /\ Distinct => Distinct'
         /\ r.type # "ACCEPT" => Arrived' = Arrived
         /\ r.type = "ACCEPT" /\ Distinct => Arrived = {} /\ Arrived' = {res} \ {-1}
         /\ \A q, k : Posted(q, k)' =>
              (q = r /\ k = res) \/ (Posted(q, k) /\ (Distinct => q # r))
<1>1. r \in Requests /\ r \in submitted /\ submitted' = submitted \ {r}
  BY DEF Complete, QueueTypes
<1>2. PICK e : e = [req |-> r, res |-> res]
  OBVIOUS
<1>3. /\ e \in [req : Requests, res : Int] /\ e.req = r /\ e.res = res
  BY <1>1, <1>2, Limits DEF Results, Fds
<1>4. PICK n \in Nat :
        /\ n = Len(cq) /\ Len(cq') = n + 1 /\ cq' \in Seq([req : Requests, res : Int])
        /\ \A i \in 1..n : cq'[i] = cq[i]
        /\ cq'[n + 1] = e /\ DOMAIN cq' = 1..(n + 1) /\ DOMAIN cq = 1..n
  <2>1. PICK s \in Seq([req : Requests, res : Int]) : s = cq
    BY DEF QueueTypes
  <2>2. /\ Append(s, e) \in Seq([req : Requests, res : Int]) /\ Len(s) \in Nat
        /\ Len(Append(s, e)) = Len(s) + 1
        /\ \A i \in 1..Len(s) : Append(s, e)[i] = s[i]
        /\ Append(s, e)[Len(s) + 1] = e
        /\ DOMAIN Append(s, e) = 1..(Len(s) + 1) /\ DOMAIN s = 1..Len(s)
    BY <1>3, <2>1
  <2>3. cq' = Append(s, e)
    BY <1>2, <2>1 DEF Complete
  <2> QED BY <2>1, <2>2, <2>3
<1>5. \A i \in 1..(n + 1) : i \in 1..n \/ i = n + 1
  BY <1>4
<1>6. n + 1 \in 1..(n + 1) /\ \A i \in 1..n : i \in 1..(n + 1) /\ i # n + 1
  BY <1>4
<1>7. QueueTypes'
  BY <1>1, <1>3, <1>4, <1>5 DEF QueueTypes
<1>8. InFlight' = InFlight
  <2>1. {cq'[i].req : i \in DOMAIN cq'} = {cq[i].req : i \in DOMAIN cq} \cup {r}
    BY <1>3, <1>4, <1>5, <1>6
  <2> QED BY <1>1, <2>1 DEF InFlight
<1>9. Distinct => Distinct'
  BY <1>1, <1>3, <1>4, <1>5 DEF Distinct
<1>10. PICK old : old = {j \in 1..n : cq[j].req.type = "ACCEPT"}
  OBVIOUS
<1>11. Arrived = {cq[i].res : i \in old} \ {-1}
  BY <1>4, <1>10 DEF Arrived
<1>12. ASSUME r.type # "ACCEPT" PROVE Arrived' = Arrived
  <2>1. {j \in 1..(n + 1) : cq'[j].req.type = "ACCEPT"} = old
    BY <1>3, <1>4, <1>5, <1>6, <1>10, <1>12
  <2>2. Arrived' = {cq'[i].res : i \in old} \ {-1}
    BY <1>4, <2>1 DEF Arrived
  <2> QED BY <1>4, <1>10, <1>11, <2>2
<1>13. ASSUME r.type = "ACCEPT", Distinct PROVE Arrived = {} /\ Arrived' = {res} \ {-1}
  <2>1. r = AcceptRequest
    BY <1>1, <1>13, Kind
  <2>2. \A j \in 1..n : cq[j].req.type # "ACCEPT"
    BY <1>1, <1>4, <1>13, <2>1, QueueIs, Kind DEF Distinct
  <2>3. old = {} /\ {j \in 1..(n + 1) : cq'[j].req.type = "ACCEPT"} = {n + 1}
    BY <1>3, <1>4, <1>5, <1>6, <1>10, <1>13, <2>2
  <2>4. Arrived' = {cq'[i].res : i \in {n + 1}} \ {-1}
    BY <1>4, <2>3 DEF Arrived
  <2> QED BY <1>3, <1>4, <1>11, <2>3, <2>4
<1>14. ASSUME NEW q, NEW k, Posted(q, k)'
       PROVE  (q = r /\ k = res) \/ (Posted(q, k) /\ (Distinct => q # r))
  <2>1. PICK i \in 1..(n + 1) : cq'[i].req = q /\ cq'[i].res = k
    BY <1>4, <1>14 DEF Posted
  <2>2. CASE i = n + 1
    BY <1>3, <1>4, <2>1, <2>2
  <2>3. CASE i \in 1..n
    BY <1>1, <1>4, <2>1, <2>3 DEF Posted, Distinct
  <2> QED BY <1>5, <2>2, <2>3
<1>15. r \in InFlight
  BY <1>1 DEF InFlight
<1> QED BY <1>1, <1>7, <1>8, <1>9, <1>12, <1>13, <1>14, <1>15

(* The completion at the head of the queue.                                 *)
LEMMA HeadIs ==
  ASSUME QueueTypes, NEW type, Handle(type)
  PROVE  /\ Request \in Requests /\ Request.type = type
         /\ Completion.res \in Results(Request) /\ Completion.res >= 0
<1>1. cq # <<>> /\ Completion.res >= 0 /\ Request.type = type
  BY DEF Handle, Seen
<1>2. Len(cq) \in Nat /\ Len(cq) # 0 /\ Completion = cq[1]
  <2>1. PICK s \in Seq([req : Requests, res : Int]) : s = cq
    BY DEF QueueTypes
  <2>2. Len(s) \in Nat /\ Len(s) # 0 /\ Head(s) = s[1]
    BY <1>1, <2>1
  <2> QED BY <2>1, <2>2 DEF Completion
<1>3. Entry(Completion)
  BY <1>2, QueueIs
<1> QED BY <1>1, <1>3 DEF Entry, Request

(* The request at the head of the queue leaves, and others are submitted.    *)
LEMMA Handling ==
  ASSUME QueueTypes, NEW type, Handle(type), NEW R \in SUBSET Requests, Submit(R)
  PROVE  /\ QueueTypes' /\ Request \in Requests /\ Request \in InFlight /\ Request.type = type
         /\ Completion.res \in Results(Request) /\ Completion.res >= 0 /\ status = "running"
         /\ InFlight \ {Request} \subseteq InFlight' /\ InFlight' \subseteq InFlight \cup R
         /\ R \subseteq InFlight'
         /\ Distinct => /\ InFlight' = (InFlight \ {Request}) \cup R
                        /\ \A q, n : Posted(q, n)' => q # Request
         /\ Distinct /\ R \cap (InFlight \ {Request}) = {} => Distinct'
         /\ type # "ACCEPT" => Arrived' = Arrived
         /\ type = "ACCEPT" /\ Distinct => Arrived = {Completion.res} /\ Arrived' = {}
         /\ \A q, n : Posted(q, n)' => Posted(q, n)
         /\ Posted(Request, Completion.res)
         /\ Distinct => Request \notin submitted
<1>1. /\ status = "running" /\ cq # <<>> /\ Completion.res >= 0 /\ Request.type = type
      /\ cq' = Tail(cq) /\ submitted' = submitted \cup R
  BY DEF Handle, Seen, Submit
<1>2. PICK n \in Nat :
        /\ Len(cq) = n + 1 /\ Len(cq') = n /\ cq' \in Seq([req : Requests, res : Int])
        /\ \A i \in 1..n : cq'[i] = cq[i + 1]
        /\ cq[1] = Completion /\ DOMAIN cq = 1..(n + 1) /\ DOMAIN cq' = 1..n
  <2>1. PICK s \in Seq([req : Requests, res : Int]) : s = cq
    BY DEF QueueTypes
  <2>2. /\ Tail(s) \in Seq([req : Requests, res : Int]) /\ Len(s) \in Nat /\ Len(s) # 0
        /\ Len(Tail(s)) = Len(s) - 1
        /\ \A i \in 1..(Len(s) - 1) : Tail(s)[i] = s[i + 1]
        /\ Head(s) = s[1] /\ DOMAIN s = 1..Len(s) /\ DOMAIN Tail(s) = 1..(Len(s) - 1)
    BY <1>1, <2>1
  <2>3. PICK l \in Nat \ {0} : l = Len(s)
    BY <2>2
  <2>4. PICK n \in Nat : n = l - 1 /\ n + 1 = l
    <3>1. l - 1 \in Nat /\ (l - 1) + 1 = l
      OBVIOUS
    <3> QED BY <3>1
  <2> QED BY <1>1, <2>1, <2>2, <2>3, <2>4 DEF Completion
<1>3. PICK m \in Nat : m = n + 1
  OBVIOUS
<1>4. /\ 1 \in 1..m /\ \A i \in 1..n : i + 1 \in 1..m /\ i + 1 # 1
      /\ \A j \in 1..m : j = 1 \/ \E i \in 1..n : j = i + 1
      /\ \A i, j \in 1..n : i + 1 = j + 1 => i = j
  <2>1. ASSUME NEW j \in 1..m, j # 1 PROVE \E i \in 1..n : j = i + 1
    <3>1. j - 1 \in 1..n /\ j = (j - 1) + 1
      BY <1>3, <2>1
    <3> QED BY <3>1
  <2> QED BY <1>3, <2>1
<1>5. \A i \in 1..n : \E j \in 1..m : j # 1 /\ cq'[i] = cq[j]
  BY <1>2, <1>4
<1>6. \A i \in 1..m : cq[i].req \in Requests /\ cq[i].res \in Results(cq[i].req)
  BY <1>2, <1>3, QueueIs DEF Entry
<1>7. QueueTypes'
  BY <1>1, <1>2, <1>5, <1>6 DEF QueueTypes
<1>8. Request \in Requests /\ Completion.res \in Results(Request) /\ Request = cq[1].req
  BY <1>2, <1>4, <1>6 DEF Request
<1>9. PICK waiting : waiting = {cq'[i].req : i \in 1..n}
  OBVIOUS
<1>10. /\ InFlight = submitted \cup waiting \cup {Request}
       /\ InFlight' = submitted \cup R \cup waiting
  <2>1. {cq[i].req : i \in 1..m} = waiting \cup {Request}
    <3>1. ASSUME NEW j \in 1..m PROVE cq[j].req \in waiting \cup {Request}
      <4>1. CASE j = 1
        BY <1>8, <4>1
      <4>2. CASE \E i \in 1..n : j = i + 1
        <5>1. PICK i \in 1..n : j = i + 1
          BY <4>2
        <5> QED BY <1>2, <1>9, <5>1
      <4> QED BY <1>4, <4>1, <4>2
    <3>2. ASSUME NEW i \in 1..n PROVE cq'[i].req \in {cq[k].req : k \in 1..m}
      BY <1>5
    <3>3. Request \in {cq[i].req : i \in 1..m}
      BY <1>4, <1>8
    <3> QED BY <1>9, <3>1, <3>2, <3>3
  <2> QED BY <1>1, <1>2, <1>3, <1>9, <2>1 DEF InFlight
<1>11. Distinct => Request \notin waiting /\ Request \notin submitted
  BY <1>2, <1>3, <1>4, <1>8, <1>9 DEF Distinct
<1>12. Distinct => \A i \in 1..n : cq'[i].req # Request
  BY <1>9, <1>11
<1>13. ASSUME Distinct, R \cap (InFlight \ {Request}) = {} PROVE Distinct'
  <2>1. ASSUME NEW i \in 1..n PROVE cq'[i].req \notin submitted \cup R
    <3>1. cq'[i].req \in waiting /\ cq'[i].req # Request
      BY <1>9, <1>12, <1>13
    <3>2. cq'[i].req \notin submitted
      BY <1>2, <1>3, <1>5, <1>13 DEF Distinct
    <3> QED BY <1>10, <1>13, <3>1, <3>2
  <2>2. ASSUME NEW i \in 1..n, NEW j \in 1..n, cq'[i].req = cq'[j].req PROVE i = j
    <3>1. i + 1 \in 1..m /\ j + 1 \in 1..m /\ cq[i + 1].req = cq[j + 1].req
      BY <1>2, <1>4, <2>2
    <3>2. i + 1 = j + 1
      BY <1>2, <1>3, <1>13, <3>1 DEF Distinct
    <3> QED BY <1>4, <3>2
  <2> QED BY <1>1, <1>2, <2>1, <2>2 DEF Distinct
<1>14. PICK old : old = {j \in 1..m : cq[j].req.type = "ACCEPT"}
  OBVIOUS
<1>15. PICK new : new = {i \in 1..n : cq'[i].req.type = "ACCEPT"}
  OBVIOUS
<1>16. Arrived = {cq[i].res : i \in old} \ {-1} /\ Arrived' = {cq'[i].res : i \in new} \ {-1}
  BY <1>2, <1>3, <1>14, <1>15 DEF Arrived
<1>17. ASSUME type # "ACCEPT" PROVE Arrived' = Arrived
  <2>1. \A i \in new : i + 1 \in old /\ cq'[i].res = cq[i + 1].res
    BY <1>2, <1>4, <1>14, <1>15
  <2>2. \A j \in old : \E i \in new : cq'[i].res = cq[j].res
    <3> TAKE j \in old
    <3>1. j # 1 /\ j \in 1..m
      BY <1>1, <1>8, <1>14, <1>17
    <3>2. PICK i \in 1..n : j = i + 1
      BY <1>4, <3>1
    <3> QED BY <1>2, <1>14, <1>15, <3>2
  <2> QED BY <1>16, <2>1, <2>2
<1>18. ASSUME type = "ACCEPT", Distinct PROVE Arrived = {Completion.res} /\ Arrived' = {}
  <2>1. Request = AcceptRequest
    BY <1>1, <1>8, <1>18, Kind
  <2>2. \A i \in 1..n : cq'[i].req.type # "ACCEPT"
    <3> TAKE i \in 1..n
    <3>1. cq'[i].req \in Requests /\ cq'[i].req # AcceptRequest
      BY <1>5, <1>6, <1>12, <1>18, <2>1
    <3> QED BY <3>1, Kind
  <2>3. new = {}
    BY <1>15, <2>2
  <2>4. \A j \in 1..m : j # 1 => cq[j].req.type # "ACCEPT"
    <3> TAKE j \in 1..m
    <3> SUFFICES ASSUME j # 1 PROVE cq[j].req.type # "ACCEPT"
      OBVIOUS
    <3>1. PICK i \in 1..n : j = i + 1
      BY <1>4
    <3> QED BY <1>2, <2>2, <3>1
  <2>5. old = {1}
    BY <1>1, <1>4, <1>8, <1>14, <1>18, <2>4
  <2>6. Completion.res # -1
    BY <1>1
  <2> QED BY <1>2, <1>16, <2>3, <2>5, <2>6
<1>19. Request \in InFlight /\ InFlight \ {Request} \subseteq InFlight' /\ R \subseteq InFlight'
       /\ InFlight' \subseteq InFlight \cup R
       /\ (Distinct => InFlight' = (InFlight \ {Request}) \cup R)
  BY <1>10, <1>11
<1>20. ASSUME NEW q, NEW k, Posted(q, k)' PROVE Posted(q, k) /\ (Distinct => q # Request)
  <2>1. PICK i \in 1..n : cq'[i].req = q /\ cq'[i].res = k
    BY <1>2, <1>20 DEF Posted
  <2> QED BY <1>2, <1>3, <1>5, <1>12, <2>1 DEF Posted
<1>21. Posted(Request, Completion.res)
  BY <1>2, <1>3, <1>4, <1>8 DEF Posted
<1> QED BY <1>1, <1>7, <1>8, <1>11, <1>13, <1>17, <1>18, <1>19, <1>20, <1>21

-----------------------------------------------------------------------------
(* What an invariant state says of a request in flight.                     *)

(* While nothing has gone wrong a client has one socket, and one request or   *)
(* none; its connection is open.                                            *)
LEMMA OneOf ==
  ASSUME Types, Owned, mishaps = {}, Connections, NEW r \in InFlight, r.type # "ACCEPT"
  PROVE  /\ Of(r) \in Clients /\ r.sock \in Fds /\ fds[r.sock] = Sock(Of(r))
         /\ client[Of(r)] = "accepted"
         /\ \A q \in InFlight : q.type # "ACCEPT" /\ Of(q) = Of(r) => q = r
         /\ \A f \in Arrived : fds[f] # Sock(Of(r))
<1>1. OwnedBy(fds, InFlight, Arrived) /\ InFlight \in SUBSET Requests
  BY QueueIs DEF Owned, Types
<1>2. ASSUME NEW q \in InFlight, q.type # "ACCEPT"
      PROVE  Of(q) \in Clients /\ q.sock \in Fds /\ fds[q.sock] = Sock(Of(q)) /\ q.sock \in Held(q)
  <2>1. q.sock \in Fds /\ q.sock \in Held(q)
    BY <1>1, <1>2, HeldIs, Kind
  <2> QED BY <1>1, <1>2, <2>1 DEF OwnedBy, Right
<1>3. client[Of(r)] = "accepted"
  BY <1>2 DEF Connections
<1>4. ASSUME NEW q \in InFlight, q.type # "ACCEPT", Of(q) = Of(r) PROVE q = r
  <2>1. q.sock = r.sock
    BY <1>2, <1>4 DEF Connections
  <2> QED BY <1>1, <1>2, <1>4, <2>1 DEF OwnedBy
<1>5. ASSUME NEW f \in Arrived PROVE fds[f] # Sock(Of(r))
  <2>1. f \in Fds /\ f \notin Held(r)
    BY <1>1 DEF OwnedBy
  <2> QED BY <1>2, <2>1 DEF Connections
<1> QED BY <1>2, <1>3, <1>4, <1>5

(* What concerns one client stays while that client's part of the state does. *)
LEMMA BeforeStays ==
  ASSUME NEW q, Before(q), received'[Of(q)] = received[Of(q)], piped'[Of(q)] = piped[Of(q)],
         Wants(Of(q)) => asked'[Of(q)] = asked[Of(q)]
  PROVE  Before(q)'
  BY DEF Before, Wants, WantsFile, Answers, Code, IsFile, Of

(* Likewise once the kernel is done with the request.                        *)
LEMMA AfterStays ==
  ASSUME NEW q, NEW res, After(q, res), received'[Of(q)] = received[Of(q)],
         piped'[Of(q)] = piped[Of(q)], Wants(Of(q)) => asked'[Of(q)] = asked[Of(q)],
         gone \subseteq gone'
  PROVE  After(q, res)'
  BY DEF After, Wants, WantsFile, Answers, Code, IsFile, Of

(* Nothing that anybody has is taken back.                                  *)
LEMMA AcceptSaysNothing ==
  ASSUME NEW q, q.type = "ACCEPT", NEW res
  PROVE  Before(q) /\ After(q, res) /\ Before(q)' /\ After(q, res)'
  BY DEF Before, After

-----------------------------------------------------------------------------
(* Preservation.  First the steps of one kind together.                     *)

(* The clients connect, ask once and leave; the loop and the kernel rest.    *)
LEMMA ClientIInv ==
  ASSUME IInv, UNCHANGED <<status, fds, submitted, cq, piped, received, mishaps>>,
         client' \in [Clients -> {"away", "backlog", "accepted"}],
         \A x \in Clients : client'[x] = "accepted" <=> client[x] = "accepted",
         asked' \in [Clients -> Kinds \cup {"nothing"}],
         \A x \in Clients : Wants(x) => asked'[x] = asked[x],
         gone \subseteq gone', gone' \subseteq Clients
  PROVE  IInv'
<1>1. Types'
  BY DEF IInv, Types, QueueTypes
<1>2. InFlight' = InFlight /\ Arrived' = Arrived /\ (Distinct => Distinct')
  BY DEF InFlight, Arrived, Distinct
<1>3. AcceptArmed' /\ Owned'
  BY <1>2 DEF IInv, AcceptArmed, Owned
<1>4. Told'
  <2> SUFFICES ASSUME mishaps = {}
               PROVE  /\ Connections'
                      /\ \A c \in Clients, f \in Arrived : fds[f] = Sock(c) => received[c] = Untold
                      /\ \A r \in submitted : Before(r)'
                      /\ \A q \in InFlight, n \in Nat : Posted(q, n) => After(q, n)'
    <3>1. \A q, n : Posted(q, n)' <=> Posted(q, n)
      BY DEF Posted
    <3> QED BY <1>2, <3>1 DEF Told
  <2>1. Connections /\ OwnedBy(fds, InFlight, Arrived)
    BY DEF IInv, Told, Owned
  <2>2. ASSUME NEW x \in Clients, Wants(x) /\ received[x] \in Answers(asked[x])
        PROVE  (Wants(x) /\ received[x] \in Answers(asked[x]))'
    BY <2>2 DEF Wants, Answers, Code, IsFile
  <2>3. Connections'
    <3>1. \A c \in Clients : client'[c] = "accepted" =>
            \/ \E f \in Fds : fds[f] = Sock(c)
            \/ c \in gone' \/ (Wants(c) /\ received[c] \in Answers(asked[c]))'
      BY <2>1, <2>2 DEF Connections
    <3> QED BY <2>1, <3>1 DEF Connections
  <2>4. ASSUME NEW r \in InFlight, r.type # "ACCEPT" PROVE Of(r) \in Clients
    BY <2>1, <2>4, OneOf DEF IInv
  <2>5. ASSUME NEW r \in submitted PROVE Before(r)'
    <3>1. r \in InFlight /\ Before(r)
      BY DEF IInv, Told, InFlight
    <3> QED BY <2>4, <3>1, BeforeStays, AcceptSaysNothing
  <2>6. ASSUME NEW q \in InFlight, NEW n \in Nat, Posted(q, n) PROVE After(q, n)'
    <3>1. After(q, n)
      BY <2>6 DEF IInv, Told
    <3> QED BY <2>4, <3>1, AfterStays, AcceptSaysNothing
  <2> QED BY <2>3, <2>5, <2>6 DEF IInv, Told
<1> QED BY <1>1, <1>3, <1>4 DEF IInv

(* The kernel completes a request that is no accept, or fails it: only what   *)
(* its client has been sent and the client's pipe change.                    *)
LEMMA CompletedIInv ==
  ASSUME IInv, NEW r, NEW res \in Results(r), Complete(r, res), r.type # "ACCEPT" \/ res = -1,
         UNCHANGED <<status, fds, client, asked, gone>>,
         piped' \in [Clients -> 0..PipeCap],
         received' \in [Clients -> [heads : Seq(Codes), body : Nat]],
         mishaps \subseteq mishaps', mishaps' \subseteq mishaps \cup {"short splice"},
         mishaps' = {} =>
           /\ \A x \in Clients : r.type = "ACCEPT" \/ x # Of(r) =>
                piped'[x] = piped[x] /\ received'[x] = received[x]
           /\ Of(r) \in Clients /\ Before(r) /\ r.type # "ACCEPT" /\ res >= 0 => After(r, res)'
  PROVE  IInv'
<1>q. QueueTypes
  BY DEF IInv, Types
<1>1. /\ QueueTypes' /\ r \in Requests /\ r \in submitted /\ r \in InFlight
      /\ InFlight' = InFlight /\ submitted' = submitted \ {r}
      /\ Distinct => Distinct'
      /\ \A q, n : Posted(q, n)' => (q = r /\ n = res) \/ (Posted(q, n) /\ (Distinct => q # r))
  BY <1>q, Completing
<1>2. Distinct => Arrived' = Arrived
  <2>1. CASE r.type # "ACCEPT"
    BY <1>q, <2>1, Completing
  <2>2. CASE r.type = "ACCEPT" /\ res = -1
    BY <1>q, <2>2, Completing
  <2> QED BY <2>1, <2>2
<1>3. Types'
  <2>1. mishaps' \subseteq Mishaps
    BY DEF IInv, Types, Mishaps
  <2> QED BY <1>1, <2>1 DEF IInv, Types
<1>4. AcceptArmed'
  BY <1>1 DEF IInv, AcceptArmed
<1>5. Owned'
  BY <1>1, <1>2 DEF IInv, Owned
<1>6. Told'
  <2> SUFFICES ASSUME mishaps' = {} PROVE Told'
    BY DEF Told
  <2>1. mishaps = {} /\ Connections /\ Distinct /\ OwnedBy(fds, InFlight, Arrived)
    BY DEF IInv, Told, Owned
  <2>2. \A x \in Clients : r.type = "ACCEPT" \/ x # Of(r) =>
          piped'[x] = piped[x] /\ received'[x] = received[x]
    OBVIOUS
  <2>3. ASSUME NEW q \in InFlight, q # r, q.type # "ACCEPT"
        PROVE  Of(q) \in Clients /\ piped'[Of(q)] = piped[Of(q)] /\ received'[Of(q)] = received[Of(q)]
    <3>1. Of(q) \in Clients
      BY <2>1, <2>3, OneOf DEF IInv
    <3>2. r.type = "ACCEPT" \/ Of(q) # Of(r)
      BY <1>1, <2>1, <2>3, OneOf DEF IInv
    <3> QED BY <2>2, <3>1, <3>2
  <2>4. Connections'
    <3>1. ASSUME NEW c \in Clients, client[c] # "accepted" PROVE received'[c] = received[c]
      <4>1. r.type = "ACCEPT" \/ c # Of(r)
        BY <1>1, <2>1, <3>1, OneOf DEF IInv
      <4> QED BY <2>2, <4>1
    <3>2. ASSUME NEW c \in Clients, client[c] = "accepted"
          PROVE  \/ \E f \in Fds : fds[f] = Sock(c)
                 \/ c \in gone \/ (Wants(c) /\ received[c] \in Answers(asked[c]))'
      <4>1. CASE r.type = "ACCEPT" \/ c # Of(r)
        <5>1. received'[c] = received[c]
          BY <2>2, <4>1
        <5> QED BY <2>1, <3>2, <5>1 DEF Connections, Wants, Answers, Code, IsFile
      <4>2. CASE r.type # "ACCEPT" /\ c = Of(r)
        BY <1>1, <2>1, <4>2, OneOf DEF IInv
      <4> QED BY <4>1, <4>2
    <3> QED BY <2>1, <3>1, <3>2 DEF Connections
  <2>5. ASSUME NEW c \in Clients, NEW f \in Arrived, fds[f] = Sock(c) PROVE received'[c] = Untold
    <3>1. r.type = "ACCEPT" \/ c # Of(r)
      BY <1>1, <2>1, <2>5, OneOf DEF IInv
    <3>2. received[c] = Untold
      BY <2>1, <2>5 DEF IInv, Told
    <3> QED BY <2>2, <3>1, <3>2
  <2>6. ASSUME NEW q \in submitted' PROVE Before(q)'
    <3>1. q \in submitted /\ q # r /\ q \in InFlight
      BY <1>1, <2>6 DEF InFlight
    <3>2. Before(q)
      BY <2>1, <3>1 DEF IInv, Told
    <3> QED BY <2>3, <3>1, <3>2, BeforeStays, AcceptSaysNothing
  <2>7. ASSUME NEW q \in InFlight, NEW n \in Nat, Posted(q, n)' PROVE After(q, n)'
    <3>1. CASE q.type = "ACCEPT"
      BY <3>1, AcceptSaysNothing
    <3>2. CASE q.type # "ACCEPT" /\ q = r /\ n = res
      <4>1. Of(r) \in Clients /\ Before(r)
        BY <1>1, <2>1, <3>2, OneOf DEF IInv, Told
      <4> QED BY <3>2, <4>1
    <3>3. CASE q.type # "ACCEPT" /\ Posted(q, n) /\ q # r
      <4>1. After(q, n)
        BY <2>1, <3>3 DEF IInv, Told
      <4> QED BY <2>3, <3>3, <4>1, AfterStays
    <3> QED BY <1>1, <2>1, <2>7, <3>1, <3>2, <3>3
  <2>8. Arrived' = Arrived /\ InFlight' = InFlight /\ fds' = fds
    BY <1>1, <1>2, <2>1
  <2>9. \A c \in Clients, f \in Arrived' : fds'[f] = Sock(c) => received'[c] = Untold
    BY <2>5, <2>8
  <2>10. \A q \in InFlight', n \in Nat : Posted(q, n)' => After(q, n)'
    BY <2>7, <2>8
  <2> QED BY <2>4, <2>6, <2>9, <2>10 DEF Told
<1> QED BY <1>3, <1>4, <1>5, <1>6 DEF IInv


(* What is known of the request that is handled, when it is no accept.       *)
LEMMA Handed ==
  ASSUME IInv, NEW type, Handle(type), type # "ACCEPT", NEW R \in SUBSET Requests, Submit(R)
  PROVE  /\ Request \in Requests /\ Request \in InFlight /\ Request.type = type
         /\ Completion.res \in 0..PipeCap /\ InFlight \in SUBSET Requests
         /\ Completion.res > 0 => Completion.res # 0
         /\ mishaps \subseteq {"short splice"} =>
              Distinct /\ OwnedBy(fds, InFlight, Arrived) /\ Right(fds, Request)
         /\ mishaps = {} => After(Request, Completion.res)
<1>1. /\ Request \in Requests /\ Request \in InFlight /\ Request.type = type
      /\ Completion.res \in Results(Request) /\ Completion.res >= 0
      /\ Posted(Request, Completion.res)
  BY Handling DEF IInv, Types
<1>2. Completion.res \in 0..PipeCap /\ (Completion.res > 0 => Completion.res # 0)
  BY <1>1, Limits DEF Results
<1>3. ASSUME mishaps = {} PROVE After(Request, Completion.res)
  BY <1>1, <1>2, <1>3 DEF IInv, Told
<1>4. ASSUME mishaps \subseteq {"short splice"}
      PROVE  Distinct /\ OwnedBy(fds, InFlight, Arrived) /\ Right(fds, Request)
  BY <1>1, <1>4 DEF IInv, Owned, OwnedBy
<1>5. InFlight \in SUBSET Requests
  BY QueueIs DEF IInv, Types
<1> QED BY <1>1, <1>2, <1>3, <1>4, <1>5

(* The loop handles the completion of a request that is no accept: it submits *)
(* R, which takes over the descriptors or finds them closed.                 *)
LEMMA HandledIInv ==
  ASSUME IInv, NEW type, Handle(type), type # "ACCEPT", NEW R \in SUBSET Requests, Submit(R),
         UNCHANGED <<status, client, asked, gone, piped>>,
         fds' \in [Fds -> Things],
         received' \in [Clients -> [heads : Seq(Codes), body : Nat]],
         mishaps \subseteq mishaps', mishaps' \subseteq Mishaps,
         mishaps' \subseteq {"short splice"} =>
           /\ R \cap (InFlight \ {Request}) = {}
           /\ OwnedBy(fds', (InFlight \ {Request}) \cup R, Arrived),
         mishaps' = {} =>
           /\ \A x \in Clients : x # Of(Request) => received'[x] = received[x]
           /\ \A x \in Clients, f \in Fds : fds'[f] = Sock(x) => fds[f] = Sock(x)
           /\ \A x \in Clients, f \in Fds : x # Of(Request) /\ fds[f] = Sock(x) => fds'[f] = Sock(x)
           /\ \/ \E f \in Fds : fds'[f] = Sock(Of(Request))
              \/ Of(Request) \in gone
              \/ Wants(Of(Request)) /\ received'[Of(Request)] \in Answers(asked[Of(Request)])
           /\ \A q \in R : Before(q)'
  PROVE  IInv'
<1>q. QueueTypes
  BY DEF IInv, Types
<1>1. /\ QueueTypes' /\ Request \in Requests /\ Request \in InFlight /\ Request.type = type
      /\ InFlight \ {Request} \subseteq InFlight' /\ InFlight' \subseteq InFlight \cup R
      /\ Distinct => /\ InFlight' = (InFlight \ {Request}) \cup R
                     /\ \A q, n : Posted(q, n)' => q # Request
      /\ Distinct /\ R \cap (InFlight \ {Request}) = {} => Distinct'
      /\ Arrived' = Arrived
      /\ \A q, n : Posted(q, n)' => Posted(q, n)
      /\ Distinct => Request \notin submitted
  BY <1>q, Handling
<1>2. submitted' = submitted \cup R
  BY DEF Submit
<1>3. Types'
  BY <1>1 DEF IInv, Types
<1>4. AcceptArmed'
  <2>1. AcceptRequest \in Requests /\ AcceptRequest.type = "ACCEPT"
    BY DEF Requests, AcceptRequest
  <2> QED BY <1>1, <2>1 DEF IInv, AcceptArmed
<1>5. Owned'
  <2> SUFFICES ASSUME mishaps' \subseteq {"short splice"}
               PROVE  Distinct' /\ OwnedBy(fds', InFlight', Arrived')
    BY DEF Owned
  <2>1. Distinct
    BY DEF IInv, Owned
  <2> QED BY <1>1, <2>1
<1>6. Told'
  <2> SUFFICES ASSUME mishaps' = {} PROVE Told'
    BY DEF Told
  <2>1. mishaps = {} /\ Connections /\ Distinct /\ OwnedBy(fds, InFlight, Arrived)
    BY DEF IInv, Told, Owned
  <2>2. /\ \A x \in Clients : x # Of(Request) => received'[x] = received[x]
        /\ \A x \in Clients, f \in Fds : fds'[f] = Sock(x) => fds[f] = Sock(x)
        /\ \A x \in Clients, f \in Fds : x # Of(Request) /\ fds[f] = Sock(x) => fds'[f] = Sock(x)
        /\ \/ \E f \in Fds : fds'[f] = Sock(Of(Request))
           \/ Of(Request) \in gone
           \/ Wants(Of(Request)) /\ received'[Of(Request)] \in Answers(asked[Of(Request)])
        /\ \A q \in R : Before(q)'
    OBVIOUS
  <2>3. /\ Of(Request) \in Clients /\ client[Of(Request)] = "accepted"
        /\ \A q \in InFlight : q.type # "ACCEPT" /\ Of(q) = Of(Request) => q = Request
        /\ \A f \in Arrived : fds[f] # Sock(Of(Request))
    BY <1>1, <2>1, OneOf DEF IInv
  <2>4. ASSUME NEW q \in InFlight, q # Request, q.type # "ACCEPT"
        PROVE  Of(q) \in Clients /\ received'[Of(q)] = received[Of(q)]
    <3>1. Of(q) \in Clients
      BY <2>1, <2>4, OneOf DEF IInv
    <3> QED BY <2>2, <2>3, <2>4, <3>1
  <2>5. Connections'
    <3>1. ASSUME NEW c \in Clients, client[c] # "accepted"
          PROVE  received'[c] = Untold /\ \A f \in Fds : fds'[f] # Sock(c)
      BY <2>1, <2>2, <2>3, <3>1 DEF Connections
    <3>2. ASSUME NEW c \in Clients, client[c] = "accepted"
          PROVE  \/ \E f \in Fds : fds'[f] = Sock(c)
                 \/ c \in gone \/ (Wants(c) /\ received[c] \in Answers(asked[c]))'
      <4>1. CASE c # Of(Request)
        <5>1. received'[c] = received[c]
          BY <2>2, <4>1
        <5> QED BY <2>1, <2>2, <3>2, <4>1, <5>1 DEF Connections, Wants, Answers, Code, IsFile
      <4>2. CASE c = Of(Request)
        BY <2>2, <4>2 DEF Wants, Answers, Code, IsFile
      <4> QED BY <4>1, <4>2
    <3>3. \A c \in Clients, f, g \in Fds : fds'[f] = Sock(c) /\ fds'[g] = Sock(c) => f = g
      BY <2>1, <2>2 DEF Connections
    <3> QED BY <3>1, <3>2, <3>3 DEF Connections
  <2>6. \A c \in Clients, f \in Arrived' : fds'[f] = Sock(c) => received'[c] = Untold
    <3> SUFFICES ASSUME NEW c \in Clients, NEW f \in Arrived, fds'[f] = Sock(c)
                 PROVE  received'[c] = Untold
      BY <1>1
    <3>1. f \in Fds /\ fds[f] = Sock(c)
      BY <2>1, <2>2 DEF OwnedBy
    <3>2. received[c] = Untold /\ c # Of(Request)
      BY <2>1, <2>3, <3>1 DEF IInv, Told
    <3> QED BY <2>2, <3>2
  <2>7. ASSUME NEW q \in submitted' PROVE Before(q)'
    <3>1. CASE q \in R
      BY <2>2, <3>1
    <3>2. CASE q \in submitted /\ q \notin R
      <4>1. q \in InFlight /\ Before(q)
        BY <2>1, <3>2 DEF IInv, Told, InFlight
      <4>2. q # Request
        BY <1>1, <2>1, <3>2
      <4> QED BY <2>4, <4>1, <4>2, BeforeStays, AcceptSaysNothing
    <3> QED BY <1>2, <2>7, <3>1, <3>2
  <2>8. ASSUME NEW q \in InFlight', NEW n \in Nat, Posted(q, n)' PROVE After(q, n)'
    <3>1. q # Request /\ Posted(q, n)
      BY <1>1, <2>1, <2>8
    <3>2. q \in InFlight
      BY <3>1 DEF Posted, InFlight
    <3>3. After(q, n)
      BY <2>1, <3>1, <3>2 DEF IInv, Told
    <3> QED BY <2>4, <3>1, <3>2, <3>3, AfterStays, AcceptSaysNothing
  <2> QED BY <2>5, <2>6, <2>7, <2>8 DEF Told
<1> QED BY <1>3, <1>4, <1>5, <1>6 DEF IInv

-----------------------------------------------------------------------------
(* The steps of the loop.                                                   *)

(* A request that is done closes what it holds: its client has been answered  *)
(* or has left.                                                             *)
LEMMA ClosingIInv ==
  ASSUME IInv, NEW type, Handle(type), type # "ACCEPT", fds' = Without(Held(Request)),
         UNCHANGED <<status, submitted, piped, clients, received, mishaps>>,
         mishaps = {} =>
           \/ Of(Request) \in gone
           \/ Wants(Of(Request)) /\ received[Of(Request)] \in Answers(asked[Of(Request)])
  PROVE  IInv'
<1>1. Submit({}) /\ {} \in SUBSET Requests
  BY DEF Submit
<1>2. /\ Request \in Requests /\ Request \in InFlight /\ InFlight \in SUBSET Requests
      /\ mishaps \subseteq {"short splice"} =>
           Distinct /\ OwnedBy(fds, InFlight, Arrived) /\ Right(fds, Request)
  BY <1>1, Handed
<1>3. /\ fds \in [Fds -> Things] /\ Closed \in Things
      /\ received' \in [Clients -> [heads : Seq(Codes), body : Nat]] /\ mishaps' \subseteq Mishaps
  BY DEF IInv, Types, Things
<1>4. fds' = [f \in Fds |-> IF f \in Held(Request) THEN Closed ELSE fds[f]]
  BY DEF Without
<1>5. fds' \in [Fds -> Things]
  BY <1>3, <1>4
<1>6. ASSUME mishaps \subseteq {"short splice"}
      PROVE  /\ {} \cap (InFlight \ {Request}) = {}
             /\ OwnedBy(fds', (InFlight \ {Request}) \cup {}, Arrived)
  <2>1. OwnedBy(fds', InFlight \ {Request}, Arrived)
    <3>1. PICK gs : gs = fds'
      OBVIOUS
    <3>2. \A f \in Fds : gs[f] = IF f \in Held(Request) THEN Closed ELSE fds[f]
      BY <1>4, <3>1
    <3>3. OwnedBy(gs, InFlight \ {Request}, Arrived)
      BY <1>2, <1>3, <1>6, <3>2, Closing
    <3> QED BY <3>1, <3>3
  <2>2. (InFlight \ {Request}) \cup {} = InFlight \ {Request}
    OBVIOUS
  <2> QED BY <2>1, <2>2
<1>7. ASSUME mishaps = {}
      PROVE  /\ \A x \in Clients, f \in Fds : fds'[f] = Sock(x) => fds[f] = Sock(x)
             /\ \A x \in Clients, f \in Fds :
                  x # Of(Request) /\ fds[f] = Sock(x) => fds'[f] = Sock(x)
  <2>1. ASSUME NEW x \in Clients, NEW f \in Fds, fds'[f] = Sock(x) PROVE fds[f] = Sock(x)
    BY <1>4, <2>1, NotAnObject
  <2>2. ASSUME NEW x \in Clients, NEW f \in Fds, fds[f] = Sock(x), f \in Held(Request)
        PROVE  x = Of(Request)
    BY <1>2, <1>7, <2>2, SockHeld
  <2> QED BY <1>4, <2>1, <2>2
<1>8. IInv'
  <2>1. UNCHANGED <<status, client, asked, gone, piped, received, mishaps>>
    BY DEF clients
  <2>2. \A q \in {} : Before(q)'
    OBVIOUS
  <2>3. mishaps' = {} =>
           /\ \A x \in Clients : x # Of(Request) => received'[x] = received[x]
           /\ \A x \in Clients, f \in Fds : fds'[f] = Sock(x) => fds[f] = Sock(x)
           /\ \A x \in Clients, f \in Fds : x # Of(Request) /\ fds[f] = Sock(x) => fds'[f] = Sock(x)
           /\ \/ \E f \in Fds : fds'[f] = Sock(Of(Request))
              \/ Of(Request) \in gone
              \/ Wants(Of(Request)) /\ received'[Of(Request)] \in Answers(asked[Of(Request)])
           /\ \A q \in {} : Before(q)'
    BY <1>7, <2>1, <2>2
  <2> QED BY <1>1, <1>3, <1>5, <1>6, <2>1, <2>3, HandledIInv
<1> QED BY <1>8

(* The socket is read from and answered by a string.                        *)
LEMMA WritingIInv ==
  ASSUME IInv, Handle("READ"), Completion.res > 0, NEW R \in SUBSET Requests, Submit(R),
         UNCHANGED <<status, fds, piped, clients, received>>,
         mishaps \subseteq mishaps', mishaps' \subseteq Mishaps, NEW code \in Codes,
         mishaps' \subseteq {"short splice"} =>
           /\ R = {WriteRequest(Request.sock, code)}
           /\ [heads |-> <<code>>, body |-> 0] \in Answers(asked[Request.on[2]])
  PROVE  IInv'
<1>1. /\ Request \in Requests /\ Request \in InFlight /\ Request.type = "READ"
      /\ Completion.res # 0 /\ InFlight \in SUBSET Requests
      /\ mishaps \subseteq {"short splice"} =>
           Distinct /\ OwnedBy(fds, InFlight, Arrived) /\ Right(fds, Request)
      /\ mishaps = {} => After(Request, Completion.res)
  BY Handed
<1>2. UNCHANGED <<status, client, asked, gone, piped, received, fds>>
  BY DEF clients
<1>3. /\ fds' \in [Fds -> Things]
      /\ received' \in [Clients -> [heads : Seq(Codes), body : Nat]]
  BY <1>2 DEF IInv, Types
<1>4. ASSUME mishaps' \subseteq {"short splice"}
      PROVE  /\ R \cap (InFlight \ {Request}) = {}
             /\ OwnedBy(fds', (InFlight \ {Request}) \cup R, Arrived)
             /\ \E f \in Fds : fds[f] = Sock(Of(Request))
             /\ mishaps' = {} => \A q \in R : Before(q)'
  <2>1. PICK s : s = [type |-> "WRITE", sock |-> Request.sock, on |-> fds[Request.sock],
                      code |-> code]
    OBVIOUS
  <2>2. /\ R = {s} /\ s \in Requests /\ s.type = "WRITE" /\ s.sock = Request.sock
        /\ s.on = fds[Request.sock] /\ s.code = code
    BY <1>4, <2>1 DEF WriteRequest
  <2>3. OwnedBy(fds, InFlight, Arrived) /\ Right(fds, Request)
    BY <1>1, <1>4
  <2>4. /\ Of(Request) = Request.on[2] /\ fds[Request.sock] = Sock(Of(Request))
        /\ Of(Request) \in Clients
    BY <1>1, <2>3 DEF Right, Of
  <2>5. Of(s) = Of(Request)
    <3>1. s.on = Sock(Of(Request)) /\ s.type = "WRITE"
      BY <2>2, <2>4
    <3>2. PICK c : c = Of(Request)
      OBVIOUS
    <3>3. s.on[2] = c
      BY <3>1, <3>2, ObjectsDiffer
    <3> QED BY <3>1, <3>2, <3>3 DEF Of
  <2>6. Held(s) = Held(Request) /\ Held(s) = {Request.sock} /\ Request.sock \in Fds
    BY <1>1, <2>2, HeldIs
  <2>7. Right(fds, s)
    BY <2>2, <2>4, <2>5 DEF Right
  <2>8. OwnedBy(fds, (InFlight \ {Request}) \cup {s}, Arrived)
    BY <1>1, <2>2, <2>3, <2>6, <2>7, Replacing
  <2>9. R \cap (InFlight \ {Request}) = {}
    BY <1>1, <2>2, <2>3, <2>6 DEF OwnedBy
  <2>10. ASSUME mishaps' = {} PROVE Before(s)'
    <3>1. After(Request, Completion.res) /\ Completion.res # 0
      <4>1. mishaps = {}
        BY <2>10
      <4> QED BY <1>1, <4>1
    <3>2. received[Of(s)] = Untold /\ Wants(Of(s))
      BY <1>1, <2>5, <3>1 DEF After
    <3>3. [heads |-> <<s.code>>, body |-> 0] \in Answers(asked[Of(s)])
      BY <1>4, <2>2, <2>4, <2>5
    <3>4. Before(s)
      BY <2>2, <3>2, <3>3 DEF Before
    <3> QED BY <1>2, <3>4, BeforeStays
  <2> QED BY <1>2, <2>2, <2>4, <2>6, <2>8, <2>9, <2>10
<1>5. mishaps' = {} =>
           /\ \A x \in Clients : x # Of(Request) => received'[x] = received[x]
           /\ \A x \in Clients, f \in Fds : fds'[f] = Sock(x) => fds[f] = Sock(x)
           /\ \A x \in Clients, f \in Fds : x # Of(Request) /\ fds[f] = Sock(x) => fds'[f] = Sock(x)
           /\ \/ \E f \in Fds : fds'[f] = Sock(Of(Request))
              \/ Of(Request) \in gone
              \/ Wants(Of(Request)) /\ received'[Of(Request)] \in Answers(asked[Of(Request)])
           /\ \A q \in R : Before(q)'
  BY <1>2, <1>4
<1> QED BY <1>2, <1>3, <1>4, <1>5, HandledIInv

(* The server stops at the first completion that is an error, at a request   *)
(* without a path, and when it cannot wait.                                 *)
LEMMA StopsIInv ==
  ASSUME IInv, HandleError \/ CrashNoPath \/ WaitFails PROVE IInv'
<1>1. status' = "exited" /\ UNCHANGED <<fds, submitted, cq, piped, client, asked, gone, received, mishaps>>
  BY DEF HandleError, CrashNoPath, WaitFails, clients
<1>2. Types'
  BY <1>1 DEF IInv, Types, QueueTypes
<1>3. AcceptArmed'
  BY <1>1 DEF AcceptArmed
<1>4. InFlight' = InFlight /\ Arrived' = Arrived /\ (Distinct => Distinct')
  BY <1>1 DEF InFlight, Arrived, Distinct
<1>5. Owned'
  BY <1>1, <1>4 DEF IInv, Owned
<1>6. Told'
  <2> SUFFICES ASSUME mishaps = {} PROVE Told'
    BY <1>1 DEF Told
  <2>1. Connections' /\ \A q, n : Posted(q, n)' <=> Posted(q, n)
    BY <1>1 DEF IInv, Told, Connections, Posted, Wants, Answers, Code, IsFile
  <2>2. /\ \A q : Before(q) => Before(q)'
        /\ \A q, n : After(q, n) => After(q, n)'
    BY <1>1, BeforeStays, AfterStays
  <2>3. \A q \in InFlight', n \in Nat : Posted(q, n)' => After(q, n)'
    BY <1>4, <2>1, <2>2 DEF IInv, Told
  <2>4. \A q \in submitted' : Before(q)'
    BY <1>1, <2>2 DEF IInv, Told
  <2>5. \A c \in Clients, f \in Arrived' : fds'[f] = Sock(c) => received'[c] = Untold
    BY <1>1, <1>4 DEF IInv, Told
  <2> QED BY <2>1, <2>3, <2>4, <2>5 DEF Told
<1> QED BY <1>2, <1>3, <1>5, <1>6 DEF IInv

(* The socket that has arrived is handed to a read, and the accept submitted   *)
(* again.                                                                   *)
LEMMA HandleAcceptIInv ==
  ASSUME IInv, HandleAccept PROVE IInv'
<1>1. /\ Handle("ACCEPT") /\ Submit({AcceptRequest, ReadRequest(Completion.res)})
      /\ UNCHANGED <<status, fds, piped, client, asked, gone, received, mishaps>>
  BY DEF HandleAccept, clients
<1>2. PICK sock : sock = Completion.res
  OBVIOUS
<1>3. PICK s : s = [type |-> "READ", sock |-> sock, on |-> fds[sock]]
  OBVIOUS
<1>4. AcceptRequest \in Requests /\ AcceptRequest.type = "ACCEPT" /\ Held(AcceptRequest) = {}
  BY DEF Requests, AcceptRequest, Held
<1>5. PICK R : R = {AcceptRequest, s}
  OBVIOUS
<1>6. Submit(R)
  BY <1>1, <1>2, <1>3, <1>5 DEF ReadRequest
<1>q. QueueTypes /\ fds \in [Fds -> Things]
  BY DEF IInv, Types
<1>7. sock \in Fds
  <2>2. Completion.res \in Results(Request) /\ Request.type = "ACCEPT" /\ Completion.res >= 0
    BY <1>1, <1>q, HeadIs
  <2>3. Completion.res \in Fds \cup {-1} /\ Completion.res # -1
    BY <2>2 DEF Results
  <2> QED BY <1>2, <2>3
<1>8. /\ s \in Requests /\ s.type = "READ" /\ s.sock = sock /\ s.on = fds[sock]
      /\ Held(s) = {sock} /\ s # AcceptRequest
  <2>1. s \in Reads
    BY <1>3, <1>7, <1>q DEF Reads
  <2>2. s \in Requests /\ s.type = "READ" /\ s.sock = sock /\ s.on = fds[sock]
    BY <1>3, <2>1 DEF Requests
  <2> QED BY <1>4, <2>2, HeldIs
<1>9. R \in SUBSET Requests
  BY <1>4, <1>5, <1>8
<1>10. /\ QueueTypes' /\ Request \in Requests /\ Request \in InFlight /\ Request.type = "ACCEPT"
       /\ R \subseteq InFlight'
       /\ Distinct => /\ InFlight' = (InFlight \ {Request}) \cup R
                      /\ \A q, n : Posted(q, n)' => q # Request
       /\ Distinct /\ R \cap (InFlight \ {Request}) = {} => Distinct'
       /\ Distinct => Arrived = {sock} /\ Arrived' = {}
       /\ \A q, n : Posted(q, n)' => Posted(q, n)
       /\ InFlight \in SUBSET Requests
  BY <1>1, <1>2, <1>6, <1>9, <1>q, Handling, QueueIs
<1>11. Request = AcceptRequest
  BY <1>10, Kind
<1>12. Types'
  BY <1>1, <1>10 DEF IInv, Types
<1>13. AcceptArmed'
  BY <1>5, <1>10 DEF AcceptArmed
<1>14. ASSUME mishaps \subseteq {"short splice"}
       PROVE  /\ Distinct /\ InFlight' = InFlight \cup {s} /\ Distinct' /\ OwnedBy(fds, InFlight', {})
              /\ \E c \in Clients : fds[sock] = Sock(c) /\ Of(s) = c
  <2>1. Distinct /\ OwnedBy(fds, InFlight, {sock})
    BY <1>10, <1>14 DEF IInv, Owned
  <2>2. PICK c \in Clients : fds[sock] = Sock(c)
    BY <2>1 DEF OwnedBy
  <2>3. Of(s) = c
    BY <1>8, <2>2, ObjectsDiffer DEF Of
  <2>4. Right(fds, s)
    BY <1>8, <2>2, <2>3 DEF Right
  <2>5. InFlight' = InFlight \cup {s}
    BY <1>5, <1>10, <1>11, <2>1
  <2>6. s \notin InFlight
    BY <1>8, <2>1 DEF OwnedBy
  <2>7. R \cap (InFlight \ {Request}) = {}
    BY <1>5, <1>11, <2>6
  <2>8. OwnedBy(fds, InFlight \cup {s}, {})
    BY <1>8, <1>10, <2>1, <2>4, HandingOver
  <2> QED BY <1>10, <2>1, <2>2, <2>3, <2>5, <2>7, <2>8
<1>15. Owned'
  <2> SUFFICES ASSUME mishaps \subseteq {"short splice"} PROVE Owned'
    BY <1>1 DEF Owned
  <2>1. Distinct /\ Distinct' /\ OwnedBy(fds, InFlight', {})
    BY <1>14
  <2>2. Arrived' = {} /\ fds' = fds
    BY <1>1, <1>10, <2>1
  <2> QED BY <2>1, <2>2 DEF Owned
<1>16. Told'
  <2> SUFFICES ASSUME mishaps = {} PROVE Told'
    BY <1>1 DEF Told
  <2>1. Distinct /\ InFlight' = InFlight \cup {s}
    BY <1>14
  <2>2. PICK c \in Clients : fds[sock] = Sock(c) /\ Of(s) = c
    BY <1>14
  <2>3. Connections'
    BY <1>1 DEF IInv, Told, Connections, Wants, Answers, Code, IsFile
  <2>4. /\ \A q : Before(q) => Before(q)'
        /\ \A q, n : After(q, n) => After(q, n)'
    BY <1>1, BeforeStays, AfterStays
  <2>5. Before(s)
    <3>1. received[c] = Untold
      BY <1>10, <2>1, <2>2 DEF IInv, Told
    <3> QED BY <1>8, <2>2, <3>1 DEF Before
  <2>6. \A q \in submitted' : Before(q)'
    <3> TAKE q \in submitted'
    <3>1. q \in submitted \/ q = s \/ q = AcceptRequest
      BY <1>5, <1>6 DEF Submit
    <3> QED BY <1>4, <2>4, <2>5, <3>1, AcceptSaysNothing DEF IInv, Told
  <2>7. \A q \in InFlight', n \in Nat : Posted(q, n)' => After(q, n)'
    <3> SUFFICES ASSUME NEW q \in InFlight', NEW n \in Nat, Posted(q, n)' PROVE After(q, n)'
      OBVIOUS
    <3>1. Posted(q, n)
      BY <1>10
    <3>2. q \in InFlight
      BY <1>q, <3>1, QueueIs DEF Posted
    <3> QED BY <2>4, <3>1, <3>2 DEF IInv, Told
  <2>8. Arrived' = {}
    BY <1>10, <2>1
  <2> QED BY <2>3, <2>6, <2>7, <2>8 DEF Told
<1> QED BY <1>12, <1>13, <1>15, <1>16 DEF IInv

(* The requests that close: an empty read, a send and a write that are done.  *)
LEMMA ClosesIInv ==
  ASSUME IInv, HandleEmptyRead \/ HandleSend \/ HandleWrite PROVE IInv'
<1>1. Submit({}) /\ {} \in SUBSET Requests
  BY DEF HandleEmptyRead, HandleSend, HandleWrite, Submit
<1>2. CASE HandleEmptyRead
  <2>1. /\ Handle("READ") /\ Completion.res = 0 /\ fds' = Without({Request.sock})
        /\ UNCHANGED <<status, submitted, piped, clients, received, mishaps>>
    BY <1>2 DEF HandleEmptyRead
  <2>2. /\ Request \in Requests /\ Request.type = "READ"
        /\ mishaps = {} => After(Request, Completion.res)
    BY <1>1, <2>1, Handed
  <2>3. Held(Request) = {Request.sock}
    BY <2>2, HeldIs
  <2>4. mishaps = {} => Of(Request) \in gone
    BY <2>1, <2>2 DEF After
  <2> QED BY <2>1, <2>3, <2>4, ClosingIInv
<1>3. CASE HandleSend
  <2>1. /\ Handle("SPLICE_SEND")
        /\ fds' = Without({Request.sock} \cup {Request.owned[i] : i \in 1..3})
        /\ UNCHANGED <<status, submitted, piped, clients, received, mishaps>>
    BY <1>3 DEF HandleSend
  <2>2. /\ Request \in Requests /\ Request.type = "SPLICE_SEND"
        /\ mishaps = {} => After(Request, Completion.res)
    BY <1>1, <2>1, Handed
  <2>3. Held(Request) = {Request.sock} \cup {Request.owned[i] : i \in 1..3}
    BY <2>2 DEF Held
  <2>4. mishaps = {} =>
          Wants(Of(Request)) /\ received[Of(Request)] \in Answers(asked[Of(Request)])
    BY <2>2 DEF After
  <2> QED BY <2>1, <2>3, <2>4, ClosingIInv
<1>4. CASE HandleWrite
  <2>1. /\ Handle("WRITE") /\ fds' = Without({Request.sock})
        /\ UNCHANGED <<status, submitted, piped, clients, received, mishaps>>
    BY <1>4 DEF HandleWrite
  <2>2. /\ Request \in Requests /\ Request.type = "WRITE"
        /\ mishaps = {} => After(Request, Completion.res)
    BY <1>1, <2>1, Handed
  <2>3. Held(Request) = {Request.sock}
    BY <2>2, HeldIs
  <2>4. mishaps = {} =>
          Wants(Of(Request)) /\ received[Of(Request)] \in Answers(asked[Of(Request)])
    BY <2>2 DEF After
  <2> QED BY <2>1, <2>3, <2>4, ClosingIInv
<1> QED BY <1>2, <1>3, <1>4

(* The answers by a string.                                                 *)
LEMMA StringsIInv ==
  ASSUME IInv, AnswerString \/ CannotOpen PROVE IInv'
<1>t. /\ fds \in [Fds -> Things] /\ QueueTypes /\ mishaps \subseteq Mishaps
      /\ \A k : Code(k) \in Codes
  BY DEF IInv, Types, Code, Codes
<1>1. ASSUME NEW code \in Codes, Handle("READ") PROVE WriteRequest(Request.sock, code) \in Requests
  <2>1. Request.sock \in Fds
    BY <1>t, <1>1, HeadIs, Kind DEF Reads
  <2>2. fds[Request.sock] \in Things
    BY <1>t, <2>1
  <2> QED BY <2>1, <2>2 DEF WriteRequest, Writes, Requests
<1>2. CASE AnswerString
  <2>1. /\ Handle("READ") /\ Completion.res > 0 /\ ~IsFile(Asked)
        /\ Submit({WriteRequest(Request.sock, Code(Asked))})
        /\ UNCHANGED <<status, fds, piped, clients, received>> /\ mishaps' = mishaps
    BY <1>2 DEF AnswerString
  <2>2. PICK code \in Codes : code = Code(Asked)
    BY <1>t
  <2>3. PICK R \in SUBSET Requests : R = {WriteRequest(Request.sock, code)}
    BY <1>1, <2>1
  <2>4. [heads |-> <<code>>, body |-> 0] \in Answers(asked[Request.on[2]])
    BY <2>1, <2>2 DEF Answers, Asked
  <2>5. Submit(R)
    BY <2>1, <2>2, <2>3
  <2> QED BY <1>t, <2>1, <2>3, <2>4, <2>5, WritingIInv
<1>3. CASE CannotOpen
  <2>1. /\ Handle("READ") /\ Completion.res > 0 /\ IsFile(Asked)
        /\ Submit(NotFound(Asked) \cup {WriteRequest(Request.sock, Code("denied"))})
        /\ mishaps' = mishaps \cup NotFoundMishap(Asked)
        /\ UNCHANGED <<status, fds, piped, clients, received>>
    BY <1>3 DEF CannotOpen
  <2>2. PICK code \in Codes : code = "100"
    BY DEF Codes
  <2>3. Code("denied") = code
    BY <2>2 DEF Code
  <2>4. PICK R \in SUBSET Requests : R = NotFound(Asked) \cup {WriteRequest(Request.sock, code)}
    <3>1. "404" \in Codes
      BY DEF Codes
    <3> QED BY <1>1, <2>1, <3>1 DEF NotFound
  <2>5. Submit(R)
    BY <2>1, <2>3, <2>4
  <2>6. mishaps \subseteq mishaps' /\ mishaps' \subseteq Mishaps
    BY <1>t, <2>1 DEF NotFoundMishap, Mishaps
  <2>7. ASSUME mishaps' \subseteq {"short splice"}
        PROVE  /\ R = {WriteRequest(Request.sock, code)}
               /\ [heads |-> <<code>>, body |-> 0] \in Answers(asked[Request.on[2]])
    <3>1. Asked # "directory"
      BY <2>1, <2>7 DEF NotFoundMishap
    <3> QED BY <2>1, <2>2, <2>4, <3>1 DEF NotFound, Answers, Asked
  <2> QED BY <2>1, <2>4, <2>5, <2>6, <2>7, WritingIInv
<1> QED BY <1>2, <1>3

(* A client's file goes on from the file's end of the pipe to the other.     *)
LEMMA HandleSpliceIInv ==
  ASSUME IInv, HandleSplice PROVE IInv'
<1>1. /\ Handle("SPLICE") /\ Completion.res > 0 /\ Submit({SendRequest(Request)})
      /\ UNCHANGED <<status, fds, piped, client, asked, gone, received, mishaps>>
  BY DEF HandleSplice, clients
<1>t. /\ fds \in [Fds -> Things] /\ QueueTypes /\ mishaps \subseteq Mishaps
      /\ received \in [Clients -> [heads : Seq(Codes), body : Nat]]
  BY DEF IInv, Types
<1>2. PICK r : r = Request
  OBVIOUS
<1>3. r \in Requests /\ r.type = "SPLICE" /\ r \in Splices
  BY <1>1, <1>2, <1>t, HeadIs, Kind
<1>4. /\ r.sock \in Fds /\ r.owned \in Fds \X Fds \X Fds /\ r.owned[2] \in Fds /\ r.size \in Nat
      /\ fds[r.sock] \in Things /\ fds[r.owned[2]] \in Things
  BY <1>3, <1>t DEF Splices
<1>5. PICK s : s = [r EXCEPT !.type = "SPLICE_SEND", !.on = fds[r.owned[2]], !.to = fds[r.sock]]
  OBVIOUS
<1>6. SendRequest(Request) = s
  BY <1>2, <1>5 DEF SendRequest
<1>7. /\ s \in Requests /\ s.type = "SPLICE_SEND" /\ s.sock = r.sock /\ s.owned = r.owned
      /\ s.on = fds[r.owned[2]] /\ s.to = fds[r.sock] /\ s.size = r.size
  <2>1. PICK on, to \in Things : on = fds[r.owned[2]] /\ to = fds[r.sock]
    BY <1>4
  <2>2. s \in Sends
    BY <1>3, <1>5, <2>1 DEF Splices, Sends
  <2>3. /\ s.type = "SPLICE_SEND" /\ s.sock = r.sock /\ s.owned = r.owned
        /\ s.on = on /\ s.to = to /\ s.size = r.size
    BY <1>3, <1>5, <2>1 DEF Splices
  <2> QED BY <2>1, <2>2, <2>3 DEF Requests
<1>8. PICK R \in SUBSET Requests : R = {s}
  BY <1>7
<1>9. Submit(R)
  BY <1>1, <1>6, <1>8
<1>10. /\ r \in InFlight /\ InFlight \in SUBSET Requests
       /\ mishaps \subseteq {"short splice"} =>
            Distinct /\ OwnedBy(fds, InFlight, Arrived) /\ Right(fds, r)
       /\ mishaps = {} => After(r, Completion.res)
  BY <1>1, <1>2, <1>9, Handed
<1>11. Held(s) = Held(r) /\ r.sock \in Held(s)
  BY <1>3, <1>7 DEF Held
<1>12. ASSUME mishaps \subseteq {"short splice"}
       PROVE  /\ R \cap (InFlight \ {r}) = {}
              /\ OwnedBy(fds, (InFlight \ {r}) \cup R, Arrived)
              /\ Of(s) = Of(r) /\ fds[r.sock] = Sock(Of(r))
  <2>1. OwnedBy(fds, InFlight, Arrived) /\ Right(fds, r)
    BY <1>10, <1>12
  <2>2. PICK c : c = Of(r)
    OBVIOUS
  <2>3. /\ c \in Clients /\ fds[r.sock] = Sock(c) /\ fds[r.owned[1]] = PipeIn(c)
        /\ fds[r.owned[2]] = PipeOut(c) /\ fds[r.owned[3]] = File(c)
    BY <1>3, <2>1, <2>2 DEF Right
  <2>4. Of(s) = c
    BY <1>7, <2>3, ObjectsDiffer DEF Of
  <2>5. Right(fds, s)
    BY <1>7, <2>3, <2>4 DEF Right
  <2>6. OwnedBy(fds, (InFlight \ {r}) \cup {s}, Arrived)
    BY <1>7, <1>10, <1>11, <2>1, <2>5, Replacing
  <2>7. s \notin InFlight \ {r}
    BY <1>10, <1>11, <2>1 DEF OwnedBy
  <2> QED BY <1>8, <2>2, <2>3, <2>4, <2>6, <2>7
<1>13. ASSUME mishaps = {} PROVE Before(s)'
  <2>1. After(r, Completion.res) /\ Of(s) = Of(r)
    BY <1>10, <1>12, <1>13
  <2>2. /\ received[Of(s)] = HeadTold /\ WantsFile(Of(s), s.size) /\ piped[Of(s)] = s.size
    BY <1>3, <1>7, <2>1 DEF After
  <2>3. Before(s)
    BY <1>7, <2>2 DEF Before
  <2> QED BY <1>1, <2>3, BeforeStays
<1>14. mishaps' = {} =>
           /\ \A x \in Clients : x # Of(Request) => received'[x] = received[x]
           /\ \A x \in Clients, f \in Fds : fds'[f] = Sock(x) => fds[f] = Sock(x)
           /\ \A x \in Clients, f \in Fds : x # Of(Request) /\ fds[f] = Sock(x) => fds'[f] = Sock(x)
           /\ \/ \E f \in Fds : fds'[f] = Sock(Of(Request))
              \/ Of(Request) \in gone
              \/ Wants(Of(Request)) /\ received'[Of(Request)] \in Answers(asked[Of(Request)])
           /\ \A q \in R : Before(q)'
  BY <1>1, <1>2, <1>4, <1>8, <1>12, <1>13
<1>15. mishaps' \subseteq {"short splice"} =>
           /\ R \cap (InFlight \ {Request}) = {}
           /\ OwnedBy(fds', (InFlight \ {Request}) \cup R, Arrived)
  BY <1>1, <1>2, <1>12
<1>16. IInv'
  <2>1. /\ fds' \in [Fds -> Things] /\ mishaps \subseteq mishaps' /\ mishaps' \subseteq Mishaps
        /\ received' \in [Clients -> [heads : Seq(Codes), body : Nat]]
        /\ UNCHANGED <<status, client, asked, gone, piped>>
    BY <1>1, <1>t
  <2> QED BY <1>1, <1>9, <1>14, <1>15, <2>1, HandledIInv
<1> QED BY <1>16

(* What the loop does when a mishap has occurred is of no account but for the *)
(* types and the accept.                                                    *)
LEMMA MishapIInv ==
  ASSUME IInv, NEW type, Handle(type), type # "ACCEPT", NEW R \in SUBSET Requests, Submit(R),
         UNCHANGED <<status, piped, clients>>, fds' \in [Fds -> Things],
         received' \in [Clients -> [heads : Seq(Codes), body : Nat]],
         mishaps \subseteq mishaps', mishaps' \subseteq Mishaps, ~ mishaps' \subseteq {"short splice"}
  PROVE  IInv'
<1>1. mishaps' # {} /\ UNCHANGED <<status, client, asked, gone, piped>>
  BY DEF clients
<1> QED BY <1>1, HandledIInv

(* A splice of nothing.                                                     *)
LEMMA HandleEmptySpliceIInv ==
  ASSUME IInv, HandleEmptySplice PROVE IInv'
<1>t. /\ fds \in [Fds -> Things] /\ Closed \in Things
      /\ received \in [Clients -> [heads : Seq(Codes), body : Nat]] /\ mishaps \subseteq Mishaps
  BY DEF IInv, Types, Things
<1>1. /\ Handle("SPLICE") /\ Submit({}) /\ {} \in SUBSET Requests
      /\ UNCHANGED <<status, piped, clients, received>>
      /\ mishaps' = mishaps \cup {"empty file"}
  BY DEF HandleEmptySplice, Submit
<1>2. PICK F : fds' = Without(F)
  BY DEF HandleEmptySplice
<1>3. fds' \in [Fds -> Things]
  BY <1>t, <1>2 DEF Without
<1>4. mishaps \subseteq mishaps' /\ mishaps' \subseteq Mishaps /\ ~ mishaps' \subseteq {"short splice"}
  BY <1>t, <1>1 DEF Mishaps
<1> QED BY <1>t, <1>1, <1>3, <1>4, MishapIInv

(* What the two ways to go on with a file have in common.                    *)
LEMMA Getting ==
  ASSUME IInv, NEW header \in BOOLEAN, GetFile(header)
  PROVE  /\ Handle("READ") /\ Completion.res > 0 /\ IsFile(Asked)
         /\ UNCHANGED <<status, piped, clients>>
         /\ received' \in [Clients -> [heads : Seq(Codes), body : Nat]]
         /\ Request \in Reads /\ Request.sock \in Fds
         /\ NotFound(Asked) \in SUBSET Requests
         /\ header => fds[Request.sock] \in Sockets
              /\ received' = [received EXCEPT ![fds[Request.sock][2]].heads = Append(@, "200")]
<1>1. /\ Handle("READ") /\ Completion.res > 0 /\ IsFile(Asked)
      /\ UNCHANGED <<status, piped, clients>>
      /\ header => fds[Request.sock] \in Sockets
              /\ received' = [received EXCEPT ![fds[Request.sock][2]].heads = Append(@, "200")]
      /\ ~header => received' = received
  BY DEF GetFile
<1>t. /\ fds \in [Fds -> Things] /\ QueueTypes
      /\ received \in [Clients -> [heads : Seq(Codes), body : Nat]]
  BY DEF IInv, Types
<1>2. Request \in Reads /\ Request.sock \in Fds /\ fds[Request.sock] \in Things
  BY <1>1, <1>t, HeadIs, Kind DEF Reads
<1>3. NotFound(Asked) \in SUBSET Requests
  BY <1>2 DEF NotFound, WriteRequest, Writes, Requests, Codes
<1>4. received' \in [Clients -> [heads : Seq(Codes), body : Nat]]
  <2>1. CASE header
    <3>1. PICK d \in Clients : fds[Request.sock] = Sock(d)
      BY <1>1, <2>1 DEF Sockets
    <3>2. fds[Request.sock][2] = d
      BY <3>1, ObjectsDiffer
    <3>3. received' = [received EXCEPT ![d].heads = Append(@, "200")]
      BY <1>1, <2>1, <3>2
    <3>4. "200" \in Codes /\ received[d].heads \in Seq(Codes)
      BY <1>t DEF Codes
    <3>5. Append(received[d].heads, "200") \in Seq(Codes)
      BY <3>4
    <3> QED BY <1>t, <3>3, <3>5
  <2>2. CASE ~header
    BY <1>1, <1>t, <2>2
  <2> QED BY <2>1, <2>2
<1> QED BY <1>1, <1>2, <1>3, <1>4

(* No descriptors are left for the pipe.                                    *)
LEMMA NoPipeIInv ==
  ASSUME IInv, NEW c \in Clients, NEW header \in BOOLEAN, NoPipe(c, header) PROVE IInv'
<1>1. /\ GetFile(header) /\ Submit(NotFound(Asked))
      /\ mishaps' = mishaps \cup NotFoundMishap(Asked) \cup HeaderMishap(header) \cup {"no pipe"}
  BY DEF NoPipe
<1>2. PICK file : fds' = [Without(FreedBy(header)) EXCEPT ![file] = File(c)]
  BY DEF NoPipe
<1>t. fds \in [Fds -> Things] /\ mishaps \subseteq Mishaps /\ Closed \in Things
  BY DEF IInv, Types, Things
<1>3. fds' \in [Fds -> Things]
  <2>1. Without(FreedBy(header)) \in [Fds -> Things]
    BY <1>t DEF Without
  <2> QED BY <1>2, <2>1, ObjectsOf
<1>4. mishaps \subseteq mishaps' /\ mishaps' \subseteq Mishaps /\ ~ mishaps' \subseteq {"short splice"}
  BY <1>1, <1>t DEF Mishaps, NotFoundMishap, HeaderMishap
<1> QED BY <1>1, <1>3, <1>4, Getting, MishapIInv

(* A file and a pipe are opened, and the file spliced into the pipe.         *)
LEMMA AnswerFileIInv ==
  ASSUME IInv, NEW c \in Clients, NEW header \in BOOLEAN, AnswerFile(c, header) PROVE IInv'
<1>1. /\ GetFile(header) /\ c = Request.on[2]
      /\ mishaps' = mishaps \cup NotFoundMishap(Asked) \cup HeaderMishap(header)
  BY DEF AnswerFile
<1>2. PICK file, left, pipeOut, pipeIn :
        /\ file \in Lowest(Unused) /\ left = (Unused \cup FreedBy(header)) \ {file}
        /\ pipeOut \in Lowest(left) /\ pipeIn \in Lowest(left \ {pipeOut})
        /\ fds' = [Without(FreedBy(header)) EXCEPT
                     ![file] = File(c), ![pipeOut] = PipeOut(c), ![pipeIn] = PipeIn(c)]
        /\ Submit(NotFound(Asked) \cup
                  {[type |-> "SPLICE", sock |-> Request.sock,
                    owned |-> <<pipeIn, pipeOut, file>>,
                    on |-> File(c), to |-> PipeIn(c), size |-> StatSize(Asked)]})
  BY DEF AnswerFile
<1>t. /\ fds \in [Fds -> Things] /\ mishaps \subseteq Mishaps /\ Closed \in Things
      /\ received \in [Clients -> [heads : Seq(Codes), body : Nat]]
      /\ {Sock(c), File(c), PipeIn(c), PipeOut(c)} \subseteq Things
  BY ObjectsOf DEF IInv, Types, Things
<1>3. /\ Handle("READ") /\ Completion.res > 0 /\ IsFile(Asked)
      /\ UNCHANGED <<status, piped, client, asked, gone>>
      /\ received' \in [Clients -> [heads : Seq(Codes), body : Nat]]
      /\ Request \in Reads /\ Request.sock \in Fds
      /\ NotFound(Asked) \in SUBSET Requests
      /\ header => fds[Request.sock] \in Sockets
           /\ received' = [received EXCEPT ![fds[Request.sock][2]].heads = Append(@, "200")]
  BY <1>1, Getting DEF clients
<1>4. Unused \subseteq Fds /\ FreedBy(header) \subseteq Fds
  BY <1>3 DEF Unused, FreedBy
<1>5. /\ file \in Unused /\ file \in Fds /\ pipeOut \in left /\ pipeIn \in left /\ pipeOut # pipeIn
      /\ pipeOut \in Fds /\ pipeIn \in Fds /\ pipeOut # file /\ pipeIn # file
  BY <1>2, <1>4 DEF Lowest
<1>6. PICK n \in Nat : n = StatSize(Asked)
  BY <1>3, LimitsAssumption, SizeAssumption DEF IsFile, StatSize
<1>7. PICK s : s = [type |-> "SPLICE", sock |-> Request.sock,
                    owned |-> <<pipeIn, pipeOut, file>>,
                    on |-> File(c), to |-> PipeIn(c), size |-> n]
  OBVIOUS
<1>8. /\ s \in Splices /\ s \in Requests /\ s.type = "SPLICE" /\ s.sock = Request.sock
      /\ s.owned = <<pipeIn, pipeOut, file>> /\ s.on = File(c) /\ s.to = PipeIn(c) /\ s.size = n
  BY <1>3, <1>5, <1>7, <1>t DEF Splices, Requests
<1>9. PICK R \in SUBSET Requests : R = NotFound(Asked) \cup {s}
  BY <1>3, <1>8
<1>10. Submit(R)
  BY <1>2, <1>6, <1>7, <1>9
<1>11. PICK r : r = Request
  OBVIOUS
<1>12. /\ r \in InFlight /\ InFlight \in SUBSET Requests /\ r.type = "READ" /\ r \in Requests
       /\ mishaps \subseteq {"short splice"} =>
            Distinct /\ OwnedBy(fds, InFlight, Arrived) /\ Right(fds, r)
       /\ mishaps = {} => After(r, Completion.res)
       /\ Completion.res # 0
  BY <1>3, <1>9, <1>10, <1>11, Handed
<1>13. mishaps \subseteq mishaps' /\ mishaps' \subseteq Mishaps
  BY <1>1, <1>t DEF Mishaps, NotFoundMishap, HeaderMishap
<1>14. fds' \in [Fds -> Things]
  <2>1. Without(FreedBy(header)) \in [Fds -> Things]
    BY <1>t DEF Without
  <2> QED BY <1>2, <1>t, <2>1
<1>15. ASSUME mishaps' \subseteq {"short splice"}
       PROVE  /\ R \cap (InFlight \ {r}) = {} /\ R = {s}
              /\ OwnedBy(fds', (InFlight \ {r}) \cup R, Arrived)
              /\ header /\ Asked # "directory" /\ c = Of(r) /\ fds[r.sock] = Sock(c) /\ Of(s) = c
              /\ fds[file] = Closed /\ fds[pipeOut] = Closed /\ fds[pipeIn] = Closed
              /\ fds' = [fds EXCEPT ![file] = File(c), ![pipeOut] = PipeOut(c),
                                    ![pipeIn] = PipeIn(c)]
  <2>1. header /\ Asked # "directory"
    BY <1>1, <1>15 DEF NotFoundMishap, HeaderMishap
  <2>2. FreedBy(header) = {} /\ NotFound(Asked) = {}
    BY <2>1 DEF FreedBy, NotFound
  <2>3. Without({}) = fds
    BY <1>t DEF Without
  <2>4. fds' = [fds EXCEPT ![file] = File(c), ![pipeOut] = PipeOut(c), ![pipeIn] = PipeIn(c)]
    BY <1>2, <2>2, <2>3
  <2>5. fds[file] = Closed /\ fds[pipeOut] = Closed /\ fds[pipeIn] = Closed
    BY <1>2, <1>5, <2>2 DEF Unused
  <2>6. OwnedBy(fds, InFlight, Arrived) /\ Right(fds, r)
    BY <1>12, <1>13, <1>15
  <2>7. c = Of(r) /\ fds[r.sock] = Sock(c)
    BY <1>1, <1>11, <1>12, <2>6 DEF Right, Of
  <2>8. Of(s) = c
    BY <1>8, ObjectsDiffer DEF Of
  <2>9. PICK gs : gs = fds'
    OBVIOUS
  <2>10. OwnedBy(gs, (InFlight \ {r}) \cup {s}, Arrived)
    <3>1. gs = [fds EXCEPT ![file] = File(c), ![pipeOut] = PipeOut(c), ![pipeIn] = PipeIn(c)]
      BY <2>4, <2>9
    <3> QED BY <1>t, <1>5, <1>8, <1>11, <1>12, <2>5, <2>6, <2>7, <3>1, Opening
  <2>11. s \notin InFlight
    <3>1. file \in Held(s)
      BY <1>8, HeldIs
    <3> QED BY <1>12, <2>5, <2>6, <3>1, HeldIsOpen DEF OwnedBy
  <2>12. R = {s}
    BY <1>9, <2>2
  <2> QED BY <2>1, <2>4, <2>5, <2>7, <2>8, <2>9, <2>10, <2>11, <2>12
<1>16. ASSUME mishaps' = {}
       PROVE  /\ \A x \in Clients : x # Of(r) => received'[x] = received[x]
              /\ \A x \in Clients, f \in Fds : fds'[f] = Sock(x) => fds[f] = Sock(x)
              /\ \A x \in Clients, f \in Fds : fds[f] = Sock(x) => fds'[f] = Sock(x)
              /\ \E f \in Fds : fds'[f] = Sock(Of(r))
              /\ Before(s)'
  <2>1. /\ R = {s} /\ header /\ Asked # "directory" /\ c = Of(r) /\ fds[r.sock] = Sock(c)
        /\ Of(s) = c
        /\ fds[file] = Closed /\ fds[pipeOut] = Closed /\ fds[pipeIn] = Closed
        /\ fds' = [fds EXCEPT ![file] = File(c), ![pipeOut] = PipeOut(c), ![pipeIn] = PipeIn(c)]
    BY <1>15, <1>16
  <2>2. received' = [received EXCEPT ![c].heads = Append(@, "200")]
    <3>1. fds[Request.sock][2] = c
      BY <1>11, <2>1, ObjectsDiffer
    <3> QED BY <1>3, <2>1, <3>1
  <2>3. \A x \in Clients, f \in Fds : fds'[f] = Sock(x) => fds[f] = Sock(x)
    BY <1>5, <1>t, <2>1, ObjectsDiffer
  <2>4. \A x \in Clients, f \in Fds : fds[f] = Sock(x) => fds'[f] = Sock(x)
    BY <1>5, <1>t, <2>1, NotAnObject
  <2>5. \E f \in Fds : fds'[f] = Sock(Of(r))
    BY <1>3, <1>11, <2>1, <2>4
  <2>6. mishaps = {}
    BY <1>13, <1>16
  <2>7. received[c] = Untold /\ Wants(c)
    BY <1>12, <2>1, <2>6 DEF After
  <2>8. received'[c] = HeadTold
    <3>1. Append(<<>>, "200") = <<"200">>
      OBVIOUS
    <3> QED BY <1>t, <2>2, <2>7, <3>1 DEF Untold, HeadTold
  <2>9. WantsFile(c, n)'
    BY <1>1, <1>3, <1>6, <2>1, <2>7 DEF WantsFile, Wants, Asked, IsFile, StatSize
  <2>10. Before(s)'
    BY <1>8, <2>1, <2>8, <2>9 DEF Before, Of
  <2>11. \A x \in Clients : x # Of(r) => received'[x] = received[x]
    BY <1>t, <2>1, <2>2
  <2> QED BY <2>3, <2>4, <2>5, <2>10, <2>11
<1>17. mishaps' = {} =>
           /\ \A x \in Clients : x # Of(Request) => received'[x] = received[x]
           /\ \A x \in Clients, f \in Fds : fds'[f] = Sock(x) => fds[f] = Sock(x)
           /\ \A x \in Clients, f \in Fds : x # Of(Request) /\ fds[f] = Sock(x) => fds'[f] = Sock(x)
           /\ \/ \E f \in Fds : fds'[f] = Sock(Of(Request))
              \/ Of(Request) \in gone
              \/ Wants(Of(Request)) /\ received'[Of(Request)] \in Answers(asked[Of(Request)])
           /\ \A q \in R : Before(q)'
  BY <1>11, <1>15, <1>16
<1>18. mishaps' \subseteq {"short splice"} =>
           /\ R \cap (InFlight \ {Request}) = {}
           /\ OwnedBy(fds', (InFlight \ {Request}) \cup R, Arrived)
  BY <1>11, <1>15
<1> QED BY <1>3, <1>10, <1>13, <1>14, <1>17, <1>18, HandledIInv

-----------------------------------------------------------------------------
(* The steps of the kernel.                                                 *)

(* What is known of a request that the kernel is working on.                 *)
LEMMA AtWork ==
  ASSUME IInv, NEW r \in submitted
  PROVE  /\ r \in Requests /\ r \in InFlight
         /\ mishaps = {} => Right(fds, r) /\ Before(r)
<1>1. r \in Requests /\ r \in InFlight
  BY DEF IInv, Types, QueueTypes, InFlight
<1>2. ASSUME mishaps = {} PROVE Right(fds, r) /\ Before(r)
  BY <1>1, <1>2 DEF IInv, Owned, OwnedBy, Told
<1> QED BY <1>1, <1>2

(* A connection is accepted: its socket has arrived.                        *)
LEMMA CompleteAcceptIInv ==
  ASSUME IInv, NEW c \in Clients, CompleteAccept(c) PROVE IInv'
<1>1. PICK sock \in Lowest(Unused) :
        /\ Complete(AcceptRequest, sock) /\ fds' = [fds EXCEPT ![sock] = Sock(c)]
  BY DEF CompleteAccept
<1>2. /\ client[c] = "backlog" /\ client' = [client EXCEPT ![c] = "accepted"]
      /\ UNCHANGED <<status, piped, asked, gone, received, mishaps>>
  BY DEF CompleteAccept
<1>t. /\ fds \in [Fds -> Things] /\ QueueTypes /\ Sock(c) \in Things
      /\ client \in [Clients -> {"away", "backlog", "accepted"}]
  BY ObjectsOf DEF IInv, Types
<1>3. sock \in Fds /\ fds[sock] = Closed /\ sock # -1
  BY DEF Lowest, Unused, Fds
<1>4. AcceptRequest.type = "ACCEPT" /\ sock \in Results(AcceptRequest)
  BY <1>3 DEF AcceptRequest, Results
<1>5. /\ QueueTypes' /\ AcceptRequest \in InFlight /\ AcceptRequest \in submitted
      /\ InFlight' = InFlight /\ submitted' = submitted \ {AcceptRequest}
      /\ Distinct => Distinct' /\ Arrived = {} /\ Arrived' = {sock}
      /\ \A q, k : Posted(q, k)' => (q = AcceptRequest /\ k = sock) \/ Posted(q, k)
      /\ InFlight \in SUBSET Requests
  <2>1. {sock} \ {-1} = {sock}
    BY <1>3
  <2> QED BY <1>1, <1>4, <1>t, <2>1, Completing, QueueIs
<1>6. Types'
  <2>1. fds' \in [Fds -> Things] /\ client' \in [Clients -> {"away", "backlog", "accepted"}]
    BY <1>1, <1>2, <1>t
  <2> QED BY <1>2, <1>5, <2>1 DEF IInv, Types
<1>7. AcceptArmed'
  BY <1>5 DEF AcceptArmed
<1>8. Owned'
  <2> SUFFICES ASSUME mishaps \subseteq {"short splice"} PROVE Owned'
    BY <1>2 DEF Owned
  <2>1. Distinct /\ Distinct' /\ OwnedBy(fds, InFlight, {}) /\ Arrived' = {sock}
    BY <1>5 DEF IInv, Owned
  <2>2. PICK gs : gs = fds'
    OBVIOUS
  <2>3. OwnedBy(gs, InFlight, {sock})
    BY <1>1, <1>3, <1>5, <1>t, <2>1, <2>2, Accepting
  <2> QED BY <1>5, <2>1, <2>2, <2>3 DEF Owned
<1>9. Told'
  <2> SUFFICES ASSUME mishaps = {} PROVE Told'
    BY <1>2 DEF Told
  <2>1. Connections /\ Distinct /\ Arrived' = {sock}
    BY <1>5 DEF IInv, Owned, Told
  <2>2. received[c] = Untold /\ \A f \in Fds : fds[f] # Sock(c)
    BY <1>2, <2>1 DEF Connections
  <2>3. /\ \A x \in Clients, f \in Fds : fds'[f] = Sock(x) <=> (x = c /\ f = sock) \/ fds[f] = Sock(x)
        /\ fds'[sock] = Sock(c)
    BY <1>1, <1>3, <1>t, NotAnObject, ObjectsDiffer
  <2>4. \A x \in Clients : client'[x] = IF x = c THEN "accepted" ELSE client[x]
    BY <1>2, <1>t
  <2>5. Connections'
    <3>1. \A x \in Clients, f, g \in Fds : fds'[f] = Sock(x) /\ fds'[g] = Sock(x) => f = g
      BY <2>1, <2>2, <2>3 DEF Connections
    <3>2. ASSUME NEW x \in Clients, client'[x] # "accepted"
          PROVE  received'[x] = Untold /\ \A f \in Fds : fds'[f] # Sock(x)
      BY <1>2, <2>1, <2>3, <2>4, <3>2 DEF Connections
    <3>3. ASSUME NEW x \in Clients, client'[x] = "accepted"
          PROVE  \/ \E f \in Fds : fds'[f] = Sock(x)
                 \/ x \in gone' \/ (Wants(x) /\ received[x] \in Answers(asked[x]))'
      <4>1. CASE x = c
        BY <1>3, <2>3, <4>1
      <4>2. CASE x # c
        <5>1. \/ \E f \in Fds : fds[f] = Sock(x)
              \/ x \in gone \/ (Wants(x) /\ received[x] \in Answers(asked[x]))
          BY <2>1, <2>4, <3>3, <4>2 DEF Connections
        <5> QED BY <1>2, <2>3, <5>1 DEF Wants, Answers, Code, IsFile
      <4> QED BY <4>1, <4>2
    <3> QED BY <3>1, <3>2, <3>3 DEF Connections
  <2>6. \A x \in Clients, f \in Arrived' : fds'[f] = Sock(x) => received'[x] = Untold
    BY <1>2, <2>1, <2>2, <2>3, ObjectsDiffer
  <2>7. /\ \A q : Before(q) => Before(q)'
        /\ \A q, n : After(q, n) => After(q, n)'
    BY <1>2, BeforeStays, AfterStays
  <2>8. \A q \in submitted' : Before(q)'
    BY <1>5, <2>7 DEF IInv, Told
  <2>9. \A q \in InFlight', n \in Nat : Posted(q, n)' => After(q, n)'
    <3> SUFFICES ASSUME NEW q \in InFlight, NEW n \in Nat, Posted(q, n)' PROVE After(q, n)'
      BY <1>5
    <3>1. CASE q = AcceptRequest
      BY <1>4, <3>1, AcceptSaysNothing
    <3>2. CASE Posted(q, n)
      BY <2>7, <3>2 DEF IInv, Told
    <3> QED BY <1>5, <3>1, <3>2
  <2> QED BY <2>5, <2>6, <2>8, <2>9 DEF Told
<1> QED BY <1>6, <1>7, <1>8, <1>9 DEF IInv

(* A read has something to read, or the client has left.                    *)
LEMMA CompleteReadIInv ==
  ASSUME IInv, NEW r \in submitted, CompleteRead(r) PROVE IInv'
<1>1. /\ r.type = "READ" /\ UNCHANGED <<status, fds, piped, client, asked, gone, received, mishaps>>
  BY DEF CompleteRead, clients
<1>2. PICK res : /\ Complete(r, res)
                 /\ \/ res = 1 /\ asked[r.on[2]] # "nothing"
                    \/ res = 0 /\ r.on[2] \in gone
  BY DEF CompleteRead
<1>3. res \in Results(r)
  BY <1>1, <1>2, LimitsAssumption DEF Results
<1>4. ASSUME mishaps = {} PROVE After(r, res)'
  <2>1. Before(r) /\ Of(r) = r.on[2]
    BY <1>1, <1>4, AtWork DEF Of
  <2>2. After(r, res)
    BY <1>1, <1>2, <2>1 DEF After, Before, Wants
  <2> QED BY <1>1, <2>2, AfterStays
<1>t. /\ piped \in [Clients -> 0..PipeCap]
      /\ received \in [Clients -> [heads : Seq(Codes), body : Nat]]
  BY DEF IInv, Types
<1> QED BY <1>1, <1>2, <1>3, <1>4, <1>t, CompletedIInv

(* The string is written.                                                   *)
LEMMA CompleteWriteIInv ==
  ASSUME IInv, NEW r \in submitted, CompleteWrite(r) PROVE IInv'
<1>1. /\ r.type = "WRITE" /\ r.on \in Sockets /\ Complete(r, 1)
      /\ UNCHANGED <<status, fds, piped, client, asked, gone, mishaps>>
      /\ received' = [received EXCEPT ![r.on[2]].heads = Append(@, r.code)]
  BY DEF CompleteWrite, clients
<1>t. /\ piped \in [Clients -> 0..PipeCap]
      /\ received \in [Clients -> [heads : Seq(Codes), body : Nat]]
      /\ r \in Writes /\ r.code \in Codes
  <2>1. r \in Writes
    BY <1>1, AtWork, Kind
  <2> QED BY <2>1 DEF IInv, Types, Writes
<1>2. PICK c \in Clients : r.on[2] = c /\ Of(r) = c
  BY <1>1, ObjectsDiffer DEF Sockets, Of
<1>3. 1 \in Results(r)
  BY <1>1, LimitsAssumption DEF Results
<1>4. received' \in [Clients -> [heads : Seq(Codes), body : Nat]]
  <2>1. Append(received[c].heads, r.code) \in Seq(Codes)
    <3>1. received[c].heads \in Seq(Codes)
      BY <1>t
    <3> QED BY <1>t, <3>1
  <2> QED BY <1>1, <1>2, <1>t, <2>1
<1>5. \A x \in Clients : x # c => received'[x] = received[x]
  BY <1>1, <1>2, <1>t
<1>6. ASSUME mishaps = {} PROVE After(r, 1)'
  <2>1. received[c] = Untold /\ Wants(c) /\ [heads |-> <<r.code>>, body |-> 0] \in Answers(asked[c])
    BY <1>1, <1>2, <1>6, AtWork DEF Before
  <2>2. received'[c] = [heads |-> <<r.code>>, body |-> 0]
    <3>1. Append(<<>>, r.code) = <<r.code>>
      OBVIOUS
    <3>2. received'[c] = [received[c] EXCEPT !.heads = Append(@, r.code)]
      BY <1>1, <1>2, <1>t
    <3>3. received[c] = [heads |-> <<>>, body |-> 0]
      BY <2>1 DEF Untold
    <3> QED BY <3>1, <3>2, <3>3
  <2>3. (Wants(c) /\ received[c] \in Answers(asked[c]))'
    BY <1>1, <2>1, <2>2 DEF Wants, Answers, Code, IsFile
  <2> QED BY <1>1, <1>2, <2>3 DEF After, Of
<1> QED BY <1>1, <1>2, <1>3, <1>4, <1>5, <1>6, <1>t, CompletedIInv

(* The smaller of two numbers.                                              *)
LEMMA MinOfTwo ==
  ASSUME NEW a \in Nat, NEW b \in Nat
  PROVE  /\ Min({a, b}) \in {a, b} /\ Min({a, b}) <= a /\ Min({a, b}) <= b
<1>1. \E x \in {a, b} : \A y \in {a, b} : x <= y
  OBVIOUS
<1> QED BY <1>1 DEF Min

(* The file is spliced into the pipe.                                       *)
LEMMA CompleteSpliceIInv ==
  ASSUME IInv, NEW r \in submitted, CompleteSplice(r) PROVE IInv'
<1>1. PICK n : n = Min({r.size, PipeCap})
  OBVIOUS
<1>2. /\ r.type = "SPLICE" /\ Complete(r, n)
      /\ UNCHANGED <<status, fds, client, asked, gone, received>>
      /\ piped' = [piped EXCEPT ![r.to[2]] = n]
      /\ mishaps' = IF n < r.size THEN mishaps \cup {"short splice"} ELSE mishaps
  BY <1>1 DEF CompleteSplice, clients
<1>t. /\ piped \in [Clients -> 0..PipeCap]
      /\ received \in [Clients -> [heads : Seq(Codes), body : Nat]]
      /\ r \in Splices /\ r.size \in Nat /\ PipeCap \in Nat
  <2>1. r \in Splices
    BY <1>2, AtWork, Kind
  <2> QED BY <2>1, LimitsAssumption DEF IInv, Types, Splices
<1>3. n \in Nat /\ n <= PipeCap /\ n <= r.size
  BY <1>1, <1>t, MinOfTwo
<1>4. n \in 0..PipeCap /\ n \in Results(r)
  <2>1. n \in 0..PipeCap /\ n \in -1..PipeCap
    BY <1>3, <1>t
  <2> QED BY <1>2, <2>1 DEF Results
<1>5. piped' \in [Clients -> 0..PipeCap]
  BY <1>2, <1>4, <1>t
<1>6. ASSUME mishaps' = {}
      PROVE  /\ \A x \in Clients : x # Of(r) => piped'[x] = piped[x] /\ received'[x] = received[x]
             /\ After(r, n)'
  <2>1. mishaps = {} /\ ~(n < r.size)
    BY <1>2, <1>6
  <2>2. n = r.size
    BY <1>3, <1>t, <2>1
  <2>3. Right(fds, r) /\ Before(r)
    BY <2>1, AtWork
  <2>4. PICK c \in Clients : c = Of(r) /\ r.to = PipeIn(c) /\ r.to[2] = c
    BY <1>2, <2>3, ObjectsDiffer DEF Right
  <2>5. piped'[c] = r.size /\ \A x \in Clients : x # c => piped'[x] = piped[x]
    BY <1>2, <1>t, <2>2, <2>4
  <2>6. received[c] = HeadTold /\ WantsFile(c, r.size)
    BY <1>2, <2>3, <2>4 DEF Before
  <2>7. WantsFile(c, r.size)'
    BY <1>2, <2>6 DEF WantsFile, Wants
  <2>8. After(r, n)'
    BY <1>2, <2>4, <2>5, <2>6, <2>7 DEF After, Of
  <2> QED BY <1>2, <2>4, <2>5, <2>8
<1>7. mishaps \subseteq mishaps' /\ mishaps' \subseteq mishaps \cup {"short splice"}
  BY <1>2
<1>8. received' = received /\ r.type # "ACCEPT"
  BY <1>2
<1> QED BY <1>2, <1>4, <1>5, <1>6, <1>7, <1>8, <1>t, CompletedIInv

(* The pipe is spliced into the socket.                                     *)
LEMMA CompleteSendIInv ==
  ASSUME IInv, NEW r \in submitted, CompleteSend(r) PROVE IInv'
<1>1. PICK n : n = Min({r.size, piped[r.on[2]]})
  OBVIOUS
<1>2. /\ r.type = "SPLICE_SEND" /\ r.to \in Sockets /\ r.on \in PipeEnds /\ Complete(r, n)
      /\ UNCHANGED <<status, fds, client, asked, gone, mishaps>>
      /\ piped' = [piped EXCEPT ![r.on[2]] = @ - n]
      /\ received' = [received EXCEPT ![r.to[2]].body = @ + n]
  BY <1>1 DEF CompleteSend, clients
<1>t. /\ piped \in [Clients -> 0..PipeCap]
      /\ received \in [Clients -> [heads : Seq(Codes), body : Nat]]
      /\ r \in Sends /\ r.size \in Nat /\ PipeCap \in Nat
  <2>1. r \in Sends
    BY <1>2, AtWork, Kind
  <2> QED BY <2>1, LimitsAssumption DEF IInv, Types, Sends
<1>3. PICK c \in Clients, d \in Clients : r.to[2] = c /\ Of(r) = c /\ r.on = PipeOut(d) /\ r.on[2] = d
  BY <1>2, ObjectsDiffer DEF Sockets, PipeEnds, Of
<1>4. piped[d] \in Nat /\ piped[d] <= PipeCap
  BY <1>t
<1>5. n \in Nat /\ n <= r.size /\ n <= piped[d] /\ n \in {r.size, piped[d]}
  BY <1>1, <1>3, <1>4, <1>t, MinOfTwo
<1>6. n \in 0..PipeCap /\ n \in Results(r) /\ piped[d] - n \in 0..PipeCap
  BY <1>2, <1>4, <1>5, <1>t DEF Results
<1>7. piped' \in [Clients -> 0..PipeCap]
  BY <1>2, <1>3, <1>6, <1>t
<1>8. received' \in [Clients -> [heads : Seq(Codes), body : Nat]]
  <2>1. received[c].body + n \in Nat
    BY <1>5, <1>t
  <2> QED BY <1>2, <1>3, <1>t, <2>1
<1>9. ASSUME mishaps = {}
      PROVE  /\ \A x \in Clients : x # Of(r) => piped'[x] = piped[x] /\ received'[x] = received[x]
             /\ After(r, n)'
  <2>1. Right(fds, r) /\ Before(r)
    BY <1>9, AtWork
  <2>2. c = d
    <3>1. r.on = PipeOut(Of(r))
      BY <1>2, <2>1 DEF Right
    <3> QED BY <1>3, <3>1, ObjectsDiffer
  <2>3. received[c] = HeadTold /\ WantsFile(c, r.size) /\ piped[c] = r.size
    BY <1>2, <1>3, <2>1 DEF Before
  <2>4. n = r.size
    BY <1>5, <2>2, <2>3
  <2>5. received'[c] = [heads |-> <<"200">>, body |-> r.size]
    <3>1. 0 + r.size = r.size
      BY <1>t
    <3>2. received'[c] = [received[c] EXCEPT !.body = @ + r.size]
      BY <1>2, <1>3, <1>t, <2>4
    <3> QED BY <2>3, <3>1, <3>2 DEF HeadTold
  <2>6. (Wants(c) /\ received[c] \in Answers(asked[c]))'
    BY <1>2, <2>3, <2>5 DEF Wants, WantsFile, Answers, IsFile
  <2>7. After(r, n)'
    BY <1>2, <1>3, <2>6 DEF After, Of
  <2> QED BY <1>2, <1>3, <1>t, <2>2, <2>7
<1>10. r.type # "ACCEPT" /\ mishaps' = mishaps
  BY <1>2
<1> QED BY <1>2, <1>6, <1>7, <1>8, <1>9, <1>10, CompletedIInv

(* The request fails.                                                       *)
LEMMA CompleteErrorIInv ==
  ASSUME IInv, NEW r \in submitted, CompleteError(r) PROVE IInv'
<1>1. Complete(r, -1) /\ UNCHANGED <<status, fds, piped, client, asked, gone, received, mishaps>>
  BY DEF CompleteError, clients
<1>2. PICK res : res = -1
  OBVIOUS
<1>3. res \in Results(r) /\ ~(res >= 0)
  BY <1>2, LimitsAssumption DEF Results
<1>t. /\ piped \in [Clients -> 0..PipeCap]
      /\ received \in [Clients -> [heads : Seq(Codes), body : Nat]]
  BY DEF IInv, Types
<1> QED BY <1>1, <1>2, <1>3, <1>t, CompletedIInv

-----------------------------------------------------------------------------
(* All the steps.                                                           *)

(* The beginning.                                                           *)
LEMMA InitIInv ==
  ASSUME Init PROVE IInv
<1>1. PICK taken \in TakenFds : fds = [f \in Fds |-> IF f <= taken THEN Other ELSE Closed]
  BY DEF Init
<1>2. /\ fds \in [Fds -> Things] /\ \A f \in Fds : fds[f] \in {Closed, Other}
  BY <1>1 DEF Things
<1>3. /\ status = "running" /\ submitted = {AcceptRequest} /\ cq = <<>> /\ gone = {}
      /\ piped = [c \in Clients |-> 0] /\ client = [c \in Clients |-> "away"]
      /\ asked = [c \in Clients |-> "nothing"] /\ received = [c \in Clients |-> Untold]
      /\ mishaps = {}
  BY DEF Init, Untold
<1>4. AcceptRequest \in Requests /\ AcceptRequest.type = "ACCEPT" /\ Held(AcceptRequest) = {}
  BY DEF Requests, AcceptRequest, Held
<1>5. Len(cq) = 0 /\ DOMAIN cq = {} /\ 1..Len(cq) = {}
  BY <1>3
<1>6. QueueTypes
  <2>1. PICK E : E = [req : Requests, res : Int]
    OBVIOUS
  <2>2. cq \in Seq(E)
    BY <1>3
  <2> QED BY <1>3, <1>4, <1>5, <2>1, <2>2 DEF QueueTypes
<1>7. Types
  <2>1. Untold \in [heads : Seq(Codes), body : Nat]
    BY DEF Untold
  <2>2. piped \in [Clients -> 0..PipeCap]
    BY <1>3, LimitsAssumption
  <2> QED BY <1>2, <1>3, <1>6, <2>1, <2>2 DEF Types, Mishaps
<1>8. InFlight = {AcceptRequest} /\ Arrived = {} /\ Distinct /\ \A q, n : ~ Posted(q, n)
  BY <1>3, <1>5 DEF InFlight, Arrived, Distinct, Posted
<1>9. OwnedBy(fds, InFlight, Arrived)
  <2>1. Right(fds, AcceptRequest)
    BY <1>4 DEF Right
  <2> QED BY <1>2, <1>4, <1>8, <2>1 DEF OwnedBy
<1>10. Told
  <2>1. Connections
    <3>1. \A c \in Clients, f \in Fds : fds[f] # Sock(c)
      BY <1>2, NotAnObject
    <3> QED BY <1>3, <3>1 DEF Connections
  <2>2. \A q \in submitted : Before(q)
    BY <1>3, <1>4, AcceptSaysNothing
  <2> QED BY <1>8, <2>1, <2>2 DEF Told
<1> QED BY <1>7, <1>8, <1>9, <1>10 DEF IInv, AcceptArmed, Owned

(* The clients' steps.                                                      *)
LEMMA ClientsIInv ==
  ASSUME IInv, NEW c \in Clients, Connect(c) \/ Ask(c) \/ Leave(c) PROVE IInv'
<1>t. /\ client \in [Clients -> {"away", "backlog", "accepted"}]
      /\ asked \in [Clients -> Kinds \cup {"nothing"}] /\ gone \subseteq Clients
  BY DEF IInv, Types
<1>1. CASE Connect(c)
  <2>1. /\ client[c] = "away" /\ client' = [client EXCEPT ![c] = "backlog"]
        /\ UNCHANGED <<status, fds, submitted, cq, piped, asked, gone, received, mishaps>>
    BY <1>1 DEF Connect
  <2>2. client' \in [Clients -> {"away", "backlog", "accepted"}]
    BY <1>t, <2>1
  <2>3. \A x \in Clients : client'[x] = "accepted" <=> client[x] = "accepted"
    BY <1>t, <2>1
  <2> QED BY <1>t, <2>1, <2>2, <2>3, ClientIInv
<1>2. CASE Ask(c)
  <2>1. /\ asked[c] = "nothing"
        /\ UNCHANGED <<status, fds, submitted, cq, piped, client, gone, received, mishaps>>
    BY <1>2 DEF Ask
  <2>2. PICK k \in Kinds : asked' = [asked EXCEPT ![c] = k]
    BY <1>2 DEF Ask
  <2>3. asked' \in [Clients -> Kinds \cup {"nothing"}]
    BY <1>t, <2>2
  <2>4. \A x \in Clients : Wants(x) => asked'[x] = asked[x]
    BY <1>t, <2>1, <2>2 DEF Wants
  <2> QED BY <1>t, <2>1, <2>3, <2>4, ClientIInv
<1>3. CASE Leave(c)
  <2>1. /\ gone' = gone \cup {c}
        /\ UNCHANGED <<status, fds, submitted, cq, piped, client, asked, received, mishaps>>
    BY <1>3 DEF Leave
  <2> QED BY <1>t, <2>1, ClientIInv
<1> QED BY <1>1, <1>2, <1>3

(* Each step preserves the invariant.                                       *)
LEMMA NextIInv ==
  ASSUME IInv, [Next]_vars PROVE IInv'
<1>1. CASE UNCHANGED vars
  BY <1>1, ClientIInv DEF vars, IInv, Types
<1>2. CASE \E c \in Clients : Connect(c) \/ Ask(c) \/ Leave(c)
  BY <1>2, ClientsIInv
<1>3. CASE Kernel
  BY <1>3, CompleteAcceptIInv, CompleteReadIInv, CompleteWriteIInv, CompleteSpliceIInv,
     CompleteSendIInv, CompleteErrorIInv DEF Kernel, Answer
<1>4. CASE Loop \/ WaitFails
  BY <1>4, StopsIInv, HandleAcceptIInv, ClosesIInv, StringsIInv, AnswerFileIInv,
     NoPipeIInv, HandleEmptySpliceIInv, HandleSpliceIInv DEF Loop
<1> QED BY <1>1, <1>2, <1>3, <1>4 DEF Next

-----------------------------------------------------------------------------
(* What follows for the server.                                             *)

(* The inductive invariant holds in every state that the server reaches.     *)
THEOREM Inductive == Spec => []IInv
<1>1. Init => IInv
  BY InitIInv
<1>2. IInv /\ [Next]_vars => IInv'
  BY NextIInv
<1> QED BY <1>1, <1>2, PTL DEF Spec

(* LoopInv: every descriptor, request and result has its type, and as long as *)
(* the server runs an accept is in flight or waiting to be handled.           *)
THEOREM AlwaysAccepting == Spec => []LoopInv
<1>1. IInv => LoopInv
  <2> SUFFICES ASSUME IInv PROVE LoopInv
    OBVIOUS
  <2>1. QueueTypes /\ MaxFd \in Nat /\ PipeCap \in Nat
    BY LimitsAssumption DEF IInv, Types
  <2>2. \A r \in InFlight : r.type \in {"ACCEPT", "READ", "WRITE", "SPLICE", "SPLICE_SEND"}
    BY <2>1, QueueIs, Kind
  <2>3. ASSUME NEW i \in DOMAIN cq PROVE cq[i].res \in -1..(MaxFd + PipeCap)
    <3>1. cq[i].res \in Results(cq[i].req)
      BY <2>1, QueueIs DEF Entry
    <3>2. cq[i].res \in 1..MaxFd \/ cq[i].res = -1 \/ cq[i].res \in -1..PipeCap
      BY <3>1 DEF Results, Fds
    <3> QED BY <2>1, <3>2
  <2>4. TypeOK
    BY <2>2, <2>3 DEF IInv, Types, TypeOK, Things
  <2> QED BY <2>4 DEF IInv, LoopInv
<1> QED BY <1>1, Inductive, PTL

(* The number of elements of a set that has one, or none.                   *)
LEMMA Counting ==
  /\ Cardinality({}) = 0
  /\ \A S, x : x \in S /\ (\A y \in S : y = x) => Cardinality(S) = 1
<1>1. ASSUME NEW S, NEW x, x \in S, \A y \in S : y = x PROVE Cardinality(S) = 1
  <2>1. S = {x}
    BY <1>1
  <2> QED BY <2>1, FS_Singleton
<1> QED BY <1>1, FS_EmptySet

(* Who owns what, in numbers.                                               *)
LEMMA OwnedIsHeldOnce ==
  ASSUME QueueTypes, Distinct, OwnedBy(fds, InFlight, Arrived), NEW f \in Fds
  PROVE  Holders(f) = IF fds[f] \in {Closed, Other} THEN 0 ELSE 1
<1>1. PICK requests : requests = {r \in InFlight : f \in Held(r)}
  OBVIOUS
<1>2. PICK arrivals : arrivals = {i \in DOMAIN cq : cq[i].req.type = "ACCEPT" /\ cq[i].res = f}
  OBVIOUS
<1>3. Holders(f) = Cardinality(requests) + Cardinality(arrivals)
  BY <1>1, <1>2 DEF Holders
<1>4. f \in Arrived <=> arrivals # {}
  <2>1. f # -1
    BY DEF Fds
  <2> QED BY <1>2, <2>1, QueueIs DEF Arrived
<1>5. ASSUME NEW i \in arrivals PROVE \A j \in arrivals : j = i
  <2>1. \A j \in arrivals : j \in 1..Len(cq) /\ cq[j].req = AcceptRequest
    BY <1>2, QueueIs, Kind
  <2> QED BY <1>5, <2>1 DEF Distinct
<1>6. ASSUME NEW r \in requests PROVE \A s \in requests : s = r
  BY <1>1, <1>6 DEF OwnedBy
<1>7. CASE fds[f] \in {Closed, Other}
  <2>1. requests = {}
    BY <1>1, <1>7, HeldIsOpen, QueueIs DEF OwnedBy
  <2>2. arrivals = {}
    BY <1>4, <1>7, NotAnObject DEF OwnedBy
  <2> QED BY <1>3, <1>7, <2>1, <2>2, Counting
<1>8. CASE fds[f] \notin {Closed, Other} /\ f \in Arrived
  <2>1. requests = {}
    BY <1>1, <1>8 DEF OwnedBy
  <2>2. Cardinality(arrivals) = 1
    BY <1>4, <1>5, <1>8, Counting
  <2> QED BY <1>3, <1>8, <2>1, <2>2, Counting
<1>9. CASE fds[f] \notin {Closed, Other} /\ f \notin Arrived
  <2>1. requests # {}
    BY <1>1, <1>9 DEF OwnedBy
  <2>2. Cardinality(requests) = 1
    BY <1>6, <2>1, Counting
  <2>3. arrivals = {}
    BY <1>4, <1>9
  <2> QED BY <1>3, <1>9, <2>2, <2>3, Counting
<1> QED BY <1>7, <1>8, <1>9

(* DescriptorsOwned: unless one of the cases occurs that the loop does not     *)
(* provide for, every descriptor it has opened is held by exactly one request, *)
(* and no request holds a number that is closed or another object's.         *)
THEOREM NothingLeaks == Spec => []DescriptorsOwned
<1>1. IInv => DescriptorsOwned
  <2> SUFFICES ASSUME IInv, mishaps \subseteq {"short splice"} PROVE DescriptorsOwned
    BY DEF DescriptorsOwned
  <2>1. QueueTypes /\ Distinct /\ OwnedBy(fds, InFlight, Arrived)
    BY DEF IInv, Types, Owned
  <2>2. \A f \in Fds : Holders(f) = IF fds[f] \in {Closed, Other} THEN 0 ELSE 1
    BY <2>1, OwnedIsHeldOnce
  <2>3. ASSUME NEW r \in InFlight
        PROVE  /\ r.type \in {"READ", "WRITE"} => fds[r.sock] = r.on
               /\ r.type = "SPLICE" => fds[r.owned[1]] = r.to /\ fds[r.owned[3]] = r.on
               /\ r.type = "SPLICE_SEND" => fds[r.sock] = r.to /\ fds[r.owned[2]] = r.on
    BY <2>1 DEF OwnedBy, Right
  <2> QED BY <2>2, <2>3 DEF DescriptorsOwned
<1> QED BY <1>1, Inductive, PTL

(* AnswersComplete: unless one of those cases occurs, a client that has asked, *)
(* and has not left, has the whole of one answer when its connection ends.    *)
THEOREM AnsweredInFull == Spec => []AnswersComplete
<1>1. IInv => AnswersComplete
  BY DEF IInv, Told, Connections, Ended, AnswersComplete
<1> QED BY <1>1, Inductive, PTL
=============================================================================
