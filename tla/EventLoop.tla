----------------------------- MODULE EventLoop -----------------------------
(***************************************************************************)
(* The io_uring file server (async-server/server/EventLoop.cpp and           *)
(* io_uring_handle.cpp): one thread that handles completions one at a time,  *)
(* the kernel that completes the requests in flight in any order, and the    *)
(* clients.  Each client connects once and asks for one thing.               *)
(***************************************************************************)
EXTENDS Integers, Sequences, FiniteSets, FiniteSetsExt

CONSTANTS
  Clients,
  Kinds,      \* what a client may ask for
  Size,       \* the size of the file that a kind names
  PipeCap,    \* what a pipe holds
  MaxFd,      \* the descriptors that the process may have open
  TakenFds    \* how many of them it has open already: the listener, the ring...

ASSUME ClientsAssumption == IsFiniteSet(Clients)
ASSUME LimitsAssumption == PipeCap \in Nat \ {0} /\ MaxFd \in Nat
                           /\ TakenFds \subseteq 0..MaxFd
ASSUME SizeAssumption == \A k \in DOMAIN Size : Size[k] \in Nat

(* The open file descriptions, each named by what it is and for whom.       *)
Closed == <<"closed">>
Other == <<"other">>
Sock(c) == <<"socket", c>>
File(c) == <<"file", c>>
PipeIn(c) == <<"pipe_in", c>>
PipeOut(c) == <<"pipe_out", c>>
Sockets == {Sock(c) : c \in Clients}
PipeEnds == {PipeOut(c) : c \in Clients}
Objects == {"socket", "file", "pipe_in", "pipe_out"} \X Clients

Fds == 1..MaxFd

VARIABLES
  status,      \* running, or exited: by exit(1) or by a crash
  fds,         \* the descriptor table
  submitted,   \* the requests that the kernel is working on
  cq,          \* the completion queue: request and result
  piped,       \* the bytes in the pipe made for a client's file
  client,      \* where each client's connection is
  asked,       \* what each client has sent
  gone,        \* the clients that have closed or reset their end
  received,    \* what each client has been sent
  mishaps      \* which of the cases that the loop does not provide for have occurred

clients == <<client, asked, gone>>
vars == <<status, fds, submitted, cq, piped, client, asked, gone, received, mishaps>>

Mishaps == {"directory", "no header", "no pipe", "empty file", "short splice"}

-----------------------------------------------------------------------------
(* Descriptors: a new one is the lowest that is free.                       *)
Unused == {f \in Fds : fds[f] = Closed}
Lowest(F) == {f \in F : \A g \in F : f <= g}   \* empty if F is
Without(F) == [f \in Fds |-> IF f \in F THEN Closed ELSE fds[f]]

(* Requests.  The kernel resolves the descriptors that an operation names    *)
(* when it is submitted (on, to); the loop keeps the numbers.                *)
AcceptRequest == [type |-> "ACCEPT", on |-> Closed]
ReadRequest(sock) == [type |-> "READ", sock |-> sock, on |-> fds[sock]]
WriteRequest(sock, code) ==
  [type |-> "WRITE", sock |-> sock, on |-> fds[sock], code |-> code]
SendRequest(r) ==
  [r EXCEPT !.type = "SPLICE_SEND", !.on = fds[r.owned[2]], !.to = fds[r.sock]]

Completion == Head(cq)
Request == Completion.req
Seen == status = "running" /\ cq # <<>>
Submit(requests) == submitted' = submitted \cup requests

-----------------------------------------------------------------------------
Init ==
  /\ status = "running"
  /\ \E taken \in TakenFds : fds = [f \in Fds |-> IF f <= taken THEN Other ELSE Closed]
  /\ submitted = {AcceptRequest} /\ cq = <<>>
  /\ piped = [c \in Clients |-> 0]
  /\ client = [c \in Clients |-> "away"]
  /\ asked = [c \in Clients |-> "nothing"]
  /\ gone = {}
  /\ received = [c \in Clients |-> [heads |-> <<>>, body |-> 0]]
  /\ mishaps = {}

(* The clients.                                                             *)
Connect(c) ==
  /\ client[c] = "away"
  /\ client' = [client EXCEPT ![c] = "backlog"]
  /\ UNCHANGED <<status, fds, submitted, cq, piped, asked, gone, received, mishaps>>

Ask(c) ==
  /\ client[c] # "away" /\ asked[c] = "nothing" /\ c \notin gone
  /\ \E k \in Kinds : asked' = [asked EXCEPT ![c] = k]
  /\ UNCHANGED <<status, fds, submitted, cq, piped, client, gone, received, mishaps>>

Leave(c) ==
  /\ client[c] # "away" /\ c \notin gone
  /\ gone' = gone \cup {c}
  /\ UNCHANGED <<status, fds, submitted, cq, piped, client, asked, received, mishaps>>

-----------------------------------------------------------------------------
(* The kernel completes a request.                                          *)
Complete(r, res) ==
  /\ status = "running" /\ r \in submitted
  /\ submitted' = submitted \ {r}
  /\ cq' = Append(cq, [req |-> r, res |-> res])

CompleteAccept(c) ==
  /\ client[c] = "backlog"
  /\ \E sock \in Lowest(Unused) :
       /\ Complete(AcceptRequest, sock)
       /\ fds' = [fds EXCEPT ![sock] = Sock(c)]
  /\ client' = [client EXCEPT ![c] = "accepted"]
  /\ UNCHANGED <<status, piped, asked, gone, received, mishaps>>

(* 0 bytes when the client has left without a word.                         *)
CompleteRead(r) ==
  /\ r.type = "READ" /\ r.on \in Sockets
  /\ LET c == r.on[2] IN
     \/ asked[c] # "nothing" /\ Complete(r, 1)
     \/ asked[c] = "nothing" /\ c \in gone /\ Complete(r, 0)
  /\ UNCHANGED <<status, fds, piped, clients, received, mishaps>>

CompleteWrite(r) ==
  /\ r.type = "WRITE" /\ r.on \in Sockets
  /\ Complete(r, 1)
  /\ received' = [received EXCEPT ![r.on[2]].heads = Append(@, r.code)]
  /\ UNCHANGED <<status, fds, piped, clients, mishaps>>

(* A splice moves what fits: a pipe never takes more than its capacity.     *)
CompleteSplice(r) ==
  /\ r.type = "SPLICE" /\ asked[r.on[2]] # "directory"
  /\ LET n == Min({r.size, PipeCap}) IN
       /\ Complete(r, n)
       /\ piped' = [piped EXCEPT ![r.to[2]] = n]
       /\ mishaps' = IF n < r.size THEN mishaps \cup {"short splice"} ELSE mishaps
  /\ UNCHANGED <<status, fds, clients, received>>

CompleteSend(r) ==
  /\ r.type = "SPLICE_SEND" /\ r.to \in Sockets /\ r.on \in PipeEnds
  /\ LET n == Min({r.size, piped[r.on[2]]}) IN
       /\ Complete(r, n)
       /\ piped' = [piped EXCEPT ![r.on[2]] = @ - n]
       /\ received' = [received EXCEPT ![r.to[2]].body = @ + n]
  /\ UNCHANGED <<status, fds, clients, mishaps>>

(* The client that the operation talks to, if any.                          *)
Peer(r) ==
  CASE r.type \in {"READ", "WRITE"} -> {r.on}
    [] r.type = "SPLICE_SEND" -> {r.to}
    [] OTHER -> {}

CanFail(r) ==
  \/ \E o \in Peer(r) : o \notin {Sock(c) : c \in Clients \ gone}
  \/ r.type = "SPLICE_SEND" /\ r.on \notin PipeEnds
  \/ r.type = "ACCEPT" /\ Unused = {} /\ \E c \in Clients : client[c] = "backlog"
  \/ r.type = "SPLICE" /\ asked[r.on[2]] = "directory"

CompleteError(r) ==
  /\ CanFail(r)
  /\ Complete(r, -1)
  /\ UNCHANGED <<status, fds, piped, clients, received, mishaps>>

-----------------------------------------------------------------------------
(* The loop handles the completion at the head of the queue.                *)

(* Waiting for one may fail at any time.                                    *)
WaitFails ==
  /\ status = "running" /\ status' = "exited"
  /\ UNCHANGED <<fds, submitted, cq, piped, clients, received, mishaps>>

HandleError ==
  /\ Seen /\ Completion.res < 0
  /\ status' = "exited"
  /\ UNCHANGED <<fds, submitted, cq, piped, clients, received, mishaps>>

Handle(type) ==
  /\ Seen /\ Completion.res >= 0 /\ Request.type = type
  /\ cq' = Tail(cq)

(* Mutant of HandleAccept: the accept is not submitted again.               *)
HandleAcceptOnce ==
  /\ Handle("ACCEPT")
  /\ Submit({ReadRequest(Completion.res)})
  /\ UNCHANGED <<status, fds, piped, clients, received, mishaps>>

HandleAccept ==
  /\ Handle("ACCEPT")
  /\ Submit({AcceptRequest, ReadRequest(Completion.res)})
  /\ UNCHANGED <<status, fds, piped, clients, received, mishaps>>

HandleEmptyRead ==
  /\ Handle("READ") /\ Completion.res = 0
  /\ fds' = Without({Request.sock})
  /\ UNCHANGED <<status, submitted, piped, clients, received, mishaps>>

(* What send_static_string_content is called with, by what was asked.       *)
Code(k) == CASE k = "post" -> "400"
             [] k = "denied" -> "100"
             [] OTHER -> "404"

Asked == asked[Request.on[2]]
IsFile(k) == k \in DOMAIN Size \cup {"directory"}
StatSize(k) == IF k = "directory" THEN PipeCap ELSE Size[k]

(* handle_client_request for what is answered by a string: a malformed line, *)
(* another method, a path too short, no such file, or one not readable.      *)
AnswerString ==
  /\ Handle("READ") /\ Completion.res > 0 /\ ~IsFile(Asked) /\ Asked # "no_path"
  /\ Submit({WriteRequest(Request.sock, Code(Asked))})
  /\ UNCHANGED <<status, fds, piped, clients, received, mishaps>>

(* A line without a path after "get", or without a word: a null pointer is   *)
(* read, and the server crashes.                                            *)
CrashNoPath ==
  /\ Seen /\ Completion.res > 0 /\ Request.type = "READ" /\ Asked = "no_path"
  /\ status' = "exited"
  /\ UNCHANGED <<fds, submitted, cq, piped, clients, received, mishaps>>

(* For an empty path handle_http_404 has been called, and handle_get_method  *)
(* goes on with the directory itself.                                        *)
NotFound(k) == IF k = "directory" THEN {WriteRequest(Request.sock, "404")} ELSE {}
NotFoundMishap(k) == IF k = "directory" THEN {"directory"} ELSE {}
HeaderMishap(header) == IF header THEN {} ELSE {"no header"}

(* open() fails for want of a descriptor.                                   *)
CannotOpen ==
  /\ Handle("READ") /\ Completion.res > 0 /\ IsFile(Asked) /\ Unused = {}
  /\ Submit(NotFound(Asked) \cup {WriteRequest(Request.sock, Code("denied"))})
  /\ mishaps' = mishaps \cup NotFoundMishap(Asked)
  /\ UNCHANGED <<status, fds, piped, clients, received>>

(* The rest of handle_get_method.  The header is written at once; if that    *)
(* fails the socket is closed, and the function goes on as well.  Without a   *)
(* pipe add_splice_request submits nothing.                                  *)
GetFile(header) ==
  /\ Handle("READ") /\ Completion.res > 0 /\ IsFile(Asked)
  /\ LET peer == fds[Request.sock] IN
       IF header THEN /\ peer \in Sockets
                      /\ received' = [received EXCEPT ![peer[2]].heads = Append(@, "200")]
                 ELSE /\ peer \notin {Sock(d) : d \in Clients \ gone}
                      /\ UNCHANGED received
  /\ UNCHANGED <<status, piped, clients>>

FreedBy(header) == IF header THEN {} ELSE {Request.sock}

AnswerFile(c, header) ==
  /\ GetFile(header) /\ c = Request.on[2]
  /\ \E file \in Lowest(Unused) : \E left \in {(Unused \cup FreedBy(header)) \ {file}} :
     \E pipeOut \in Lowest(left) : \E pipeIn \in Lowest(left \ {pipeOut}) :
       /\ fds' = [Without(FreedBy(header)) EXCEPT
                    ![file] = File(c), ![pipeOut] = PipeOut(c), ![pipeIn] = PipeIn(c)]
       /\ Submit(NotFound(Asked) \cup
                 {[type |-> "SPLICE", sock |-> Request.sock,
                   owned |-> <<pipeIn, pipeOut, file>>,
                   on |-> File(c), to |-> PipeIn(c), size |-> StatSize(Asked)]})
  /\ mishaps' = mishaps \cup NotFoundMishap(Asked) \cup HeaderMishap(header)

NoPipe(c, header) ==
  /\ GetFile(header) /\ c = Request.on[2]
  /\ \E file \in Lowest(Unused) :
       /\ Cardinality((Unused \cup FreedBy(header)) \ {file}) < 2
       /\ fds' = [Without(FreedBy(header)) EXCEPT ![file] = File(c)]
  /\ Submit(NotFound(Asked))
  /\ mishaps' = mishaps \cup NotFoundMishap(Asked) \cup HeaderMishap(header) \cup {"no pipe"}

(* Nothing came out of the file: the socket is shut down but stays open, the *)
(* request is not freed, and the loop closes as many ints as the block has    *)
(* bytes: the three descriptors and whatever the memory after them holds.    *)
HandleEmptySplice ==
  /\ Handle("SPLICE") /\ Completion.res = 0
  /\ \E stray \in {{}} \cup {{f} : f \in Fds} :
       fds' = Without({Request.owned[i] : i \in 1..3} \cup stray)
  /\ mishaps' = mishaps \cup {"empty file"}
  /\ UNCHANGED <<status, submitted, piped, clients, received>>

(* Mutant of HandleSplice: the first splice is taken for the last.          *)
HandleSpliceDone ==
  /\ Handle("SPLICE") /\ Completion.res > 0
  /\ fds' = Without({Request.sock} \cup {Request.owned[i] : i \in 1..3})
  /\ UNCHANGED <<status, submitted, piped, clients, received, mishaps>>

HandleSplice ==
  /\ Handle("SPLICE") /\ Completion.res > 0
  /\ Submit({SendRequest(Request)})
  /\ UNCHANGED <<status, fds, piped, clients, received, mishaps>>

(* Mutant of HandleSend: the file, the last of the three, stays open.       *)
HandleSendTwo ==
  /\ Handle("SPLICE_SEND")
  /\ fds' = Without({Request.sock} \cup {Request.owned[i] : i \in 1..2})
  /\ UNCHANGED <<status, submitted, piped, clients, received, mishaps>>

HandleSend ==
  /\ Handle("SPLICE_SEND")
  /\ fds' = Without({Request.sock} \cup {Request.owned[i] : i \in 1..3})
  /\ UNCHANGED <<status, submitted, piped, clients, received, mishaps>>

(* Mutant of HandleWrite: the socket stays open.                            *)
HandleWriteOpen ==
  /\ Handle("WRITE")
  /\ UNCHANGED <<status, fds, submitted, piped, clients, received, mishaps>>

HandleWrite ==
  /\ Handle("WRITE")
  /\ fds' = Without({Request.sock})
  /\ UNCHANGED <<status, submitted, piped, clients, received, mishaps>>

-----------------------------------------------------------------------------
Loop ==
  \/ HandleError \/ HandleAccept \/ HandleEmptyRead \/ AnswerString \/ CrashNoPath \/ CannotOpen
  \/ \E c \in Clients, header \in BOOLEAN : AnswerFile(c, header) \/ NoPipe(c, header)
  \/ HandleEmptySplice \/ HandleSplice \/ HandleSend \/ HandleWrite

Answer(r) ==
  CompleteRead(r) \/ CompleteWrite(r) \/ CompleteSplice(r) \/ CompleteSend(r)

Kernel ==
  \/ \E c \in Clients : CompleteAccept(c)
  \/ \E r \in submitted : Answer(r) \/ CompleteError(r)

Next ==
  \/ \E c \in Clients : Connect(c) \/ Ask(c) \/ Leave(c)
  \/ Kernel \/ Loop \/ WaitFails

Spec == Init /\ [][Next]_vars

-----------------------------------------------------------------------------
(* The loop keeps running, and the kernel completes every request that it    *)
(* can complete: no operation waits for another one to be completed.         *)
FairSpec == Spec /\ WF_vars(Loop) /\ WF_vars(Kernel)

InFlight == submitted \cup {cq[i].req : i \in DOMAIN cq}

TypeOK ==
  /\ status \in {"running", "exited"}
  /\ fds \in [Fds -> Objects \cup {Closed, Other}]
  /\ \A r \in InFlight : r.type \in {"ACCEPT", "READ", "WRITE", "SPLICE", "SPLICE_SEND"}
  /\ \A i \in DOMAIN cq : cq[i].res \in -1..(MaxFd + PipeCap)
  /\ piped \in [Clients -> 0..PipeCap]
  /\ client \in [Clients -> {"away", "backlog", "accepted"}]
  /\ asked \in [Clients -> Kinds \cup {"nothing"}]
  /\ gone \subseteq Clients
  /\ mishaps \subseteq Mishaps

-----------------------------------------------------------------------------
(* What a request keeps descriptors of: the numbers it will close.          *)
Held(r) ==
  CASE r.type = "ACCEPT" -> {}
    [] r.type \in {"READ", "WRITE"} -> {r.sock}
    [] OTHER -> {r.sock} \cup {r.owned[i] : i \in 1..3}

Holders(f) ==
  Cardinality({r \in InFlight : f \in Held(r)})
    + Cardinality({i \in DOMAIN cq : cq[i].req.type = "ACCEPT" /\ cq[i].res = f})

(* The connection of c is over: no descriptor and no request in flight has   *)
(* its socket any more.                                                     *)
Ended(c) ==
  /\ client[c] = "accepted"
  /\ \A f \in Fds : fds[f] # Sock(c)
  /\ \A r \in submitted : Sock(c) \notin Peer(r) \cup {r.on}

Answers(k) ==
  IF IsFile(k) /\ k # "directory"
  THEN {[heads |-> <<"200">>, body |-> Size[k]], [heads |-> <<"100">>, body |-> 0]}
  ELSE {[heads |-> <<Code(k)>>, body |-> 0]}

(* As long as the loop runs it can accept: an accept is in flight or waiting *)
(* to be handled, whatever else happens.                                     *)
AcceptArmed == status = "running" => AcceptRequest \in InFlight

(* The type of the server's state, and the standing accept.                 *)
LoopInv == TypeOK /\ AcceptArmed

(* Every descriptor that the loop has opened is held by exactly one request, *)
(* the one that will close it, and a request holds no number that is closed  *)
(* or has become another object's: nothing leaks, nothing is closed twice.   *)
DescriptorsOwned ==
  mishaps \subseteq {"short splice"} =>
    /\ \A f \in Fds : Holders(f) = IF fds[f] \in {Closed, Other} THEN 0 ELSE 1
    /\ \A r \in InFlight :
         /\ r.type \in {"READ", "WRITE"} => fds[r.sock] = r.on
         /\ r.type = "SPLICE" => fds[r.owned[1]] = r.to /\ fds[r.owned[3]] = r.on
         /\ r.type = "SPLICE_SEND" => fds[r.sock] = r.to /\ fds[r.owned[2]] = r.on

(* A client that asked has the whole answer, and one answer, when its        *)
(* connection ends.                                                          *)
AnswersComplete ==
  mishaps = {} => \A c \in Clients :
    Ended(c) /\ asked[c] # "nothing" /\ c \notin gone => received[c] \in Answers(asked[c])

(* Every client that asks or leaves is served and its connection ended.      *)
Served ==
  \A c \in Clients :
    client[c] = "backlog" /\ (asked[c] # "nothing" \/ c \in gone)
      ~> Ended(c) \/ status = "exited" \/ mishaps \cap {"no pipe", "empty file"} # {}
=============================================================================
