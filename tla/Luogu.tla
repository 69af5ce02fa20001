-------------------------------- MODULE Luogu --------------------------------
(***************************************************************************)
(* The programs of luogu/: each reads an input, prints an output and ends.   *)
(* A property compares the output with the definition of what was asked.     *)
(***************************************************************************)
EXTENDS LuoguGraphs, LuoguNumbers

CONSTANTS
  N,            \* vertices of a graph, people of a choice
  Weights,      \* weights of edges
  MaxEdges,     \* edges of a graph
  Values,       \* numbers of a sequence
  MaxLength,    \* numbers of a sequence, digits of a numeral less two
  Digits,       \* octal digits
  Primes        \* moduli

ASSUME InputAssumption ==
  /\ N \in Nat \ {0} /\ MaxEdges \in Nat /\ MaxLength \in Nat \ {0}
  /\ Weights \subseteq Nat /\ Values \subseteq Nat /\ Digits \subseteq 0..7
  /\ \A p \in Primes : p \in Nat /\ p > 1 /\ \A d \in 2..(p - 1) : p % d # 0

VARIABLES program, input, output
vars == <<program, input, output>>

V == 1..N

Init == program = "none" /\ input = <<>> /\ output = <<>>

Runs(name, in, out) == program' = name /\ input' = in /\ output' = out

B3602 ==
  \E edges \in BoundedSeq(V \X V \X Weights, MaxEdges) :
    Runs("B3602", edges, Dijkstra(N, edges))

(* Every order in which the edges of a left vertex may be given.            *)
Lists == {s \in BoundedSeq(V, N) : \A i, j \in DOMAIN s : s[i] = s[j] => i = j}

B3605 ==
  \E a \in [V -> Lists] : Runs("B3605", a, Matching(N, N, a))

B3611 ==
  \E a \in [V -> SUBSET V] : Runs("B3611", a, Warshall(N, a))

(* Two graphs, the second with no more edges than the first or with more.    *)
B3613 ==
  \E g, h \in BoundedSeq((1..2) \X V, 2) : Runs("B3613", <<g, h>>, Adjacency(N, <<g, h>>, 3))

Queries(k) == {q \in (1..k) \X (1..k) : q[1] <= q[2]}

B3612 ==
  \E nums \in BoundedSeq(Values, MaxLength) : \E q, r \in Queries(Len(nums)) :
    Runs("B3612", [nums |-> nums, queries |-> <<q, r>>], RangeSums(nums, <<q, r>>))

(* The exercise asks for numbers that are not multiples of the modulus.     *)
B3645 ==
  \E p \in Primes : \E nums \in BoundedSeq({v \in Values : v % p # 0}, MaxLength) :
    \E q, r \in Queries(Len(nums)) :
      Runs("B3645", [nums |-> nums, queries |-> <<q, r>>, p |-> p],
           RangeProducts(nums, <<q, r>>, p))

B3617 ==
  \E s \in BoundedSeq(Digits, MaxLength + 2) \ {<<>>} : Runs("B3617", s, OctalToHex(s))

B3622 ==
  \E n \in 1..N : Runs("B3622", n, AllChoices([i \in 1..n |-> "?"], 1))

P3811 ==
  \E p \in Primes : \E a \in 1..(p - 1) :
    Runs("P3811", [a |-> a, p |-> p],
         [linear |-> linear(p - 1, p)[a], fermat |-> fastpower(a, p - 2, p),
          euclid |-> exgc(a, p)])

Next ==
  /\ program = "none"
  /\ B3602 \/ B3605 \/ B3611 \/ B3612 \/ B3613 \/ B3617 \/ B3622 \/ B3645 \/ P3811



-----------------------------------------------------------------------------
(* What was asked.                                                          *)

(* The weights of the simple paths from vertex 1 to v: with no negative edge  *)
(* a shortest path is one of them.                                          *)
Paths(v) ==
  UNION {{p \in [1..k -> V] : /\ p[1] = 1 /\ p[k] = v
                              /\ \A i, j \in 1..k : p[i] = p[j] => i = j} : k \in V}
RECURSIVE Costs(_, _)
Costs(edges, p) ==
  IF Len(p) = 1 THEN {0}
  ELSE {c + e[3] : c \in Costs(edges, Front(p)),
                   e \in {f \in Range(edges) : f[1] = p[Len(p) - 1] /\ f[2] = Last(p)}}
CostsTo(edges, v) == UNION {Costs(edges, p) : p \in Paths(v)}

(* Dijkstra prints the least cost of each vertex, -1 for one that cannot be   *)
(* reached: stale entries of the heap, zero weights, parallel edges and loops *)
(* included.                                                                *)
ShortestPaths ==
  program = "B3602" => \A v \in V :
    IF CostsTo(input, v) = {} THEN output[v] = -1
    ELSE output[v] \in CostsTo(input, v) /\ \A c \in CostsTo(input, v) : output[v] <= c

IsMatching(m, a) ==
  /\ \A e \in m : e[2] \in Range(a[e[1]])
  /\ \A e, f \in m : (e[1] = f[1] \/ e[2] = f[2]) => e = f

(* Kuhn's searches leave a matching of as many edges as it counts, and no     *)
(* matching has more.                                                       *)
MaximumMatching ==
  program = "B3605" =>
    LET kept == {<<output.vis[v], v>> : v \in {w \in V : output.vis[w] # 0}}
    IN /\ IsMatching(kept, input) /\ Cardinality(kept) = output.ret
       /\ \A m \in SUBSET {e \in V \X V : e[2] \in Range(input[e[1]])} :
            IsMatching(m, input) => Cardinality(m) <= output.ret

(* Warshall's result is the least transitive relation that contains the input *)
(* one: transitive, and with no pair that a walk of up to N steps lacks.      *)
RECURSIVE Walk(_, _, _)
Walk(a, i, k) == IF k = 1 THEN a[i] ELSE UNION {a[j] : j \in Walk(a, i, k - 1)}

TransitiveClosureOf ==
  program = "B3611" => \A i \in V : output[i] = UNION {Walk(input, i, k) : k \in V}

(* Every graph gets, on line i, the targets of its own edges out of i, sorted *)
(* and as often as given, whatever an earlier graph left in the array.       *)
OwnEdgesSorted ==
  program = "B3613" => \A g \in 1..2 : \A i \in V :
    LET line == output[g][i]
        Times(s, x) == Cardinality({j \in DOMAIN s : s[j] = x})
    IN /\ \A j \in 1..(Len(line) - 1) : line[j] <= line[j + 1]
       /\ \A v \in V : Times(line, v) = Times(input[g], <<i, v>>)

SumOf(nums, q) == FoldLeft(+, 0, SubSeq(nums, q[1], q[2]))
ProductOf(nums, q) == FoldLeft(LAMBDA x, y : x * y, 1, SubSeq(nums, q[1], q[2]))

(* A query is answered from two prefixes with the sum, or the product modulo  *)
(* p, of the range, its first and last number included.                     *)
RangesAnswered ==
  /\ program = "B3612" => \A q \in 1..2 : output[q] = SumOf(input.nums, input.queries[q])
  /\ program = "B3645" =>
       LET answer(q) == ProductOf(input.nums, input.queries[q]) % input.p
       IN output = answer(1) ^^ answer(2)

Value(base, s) == FoldLeft(LAMBDA v, d : base * v + d, 0, s)

(* The hexadecimal numeral has the value of the octal one and does not begin  *)
(* with a zero, for every length modulo four.                               *)
SameValue ==
  program = "B3617" => /\ Value(16, output) = Value(8, input)
                       /\ Range(output) \subseteq 0..15
                       /\ output # <<>> => output[1] # 0

(* The lines printed count in binary, N for 0 and Y for 1.                   *)
CountsInBinary ==
  program = "B3622" =>
    /\ Len(output) = 2^input
    /\ \A q \in DOMAIN output, i \in 1..input :
         (output[q][i] = "Y") = (((q - 1) \div 2^(input - i)) % 2 = 1)

(* The programs on numbers and strings.                                     *)
NumbersAnswered == RangesAnswered /\ SameValue /\ CountsInBinary

(* The three ways give the inverse: a times it is 1 modulo the prime, and the *)
(* Euclidean pair is Bezout's.                                              *)
InversesAgree ==
  program = "P3811" =>
    /\ (input.a * output.linear) % input.p = 1
    /\ output.fermat = output.linear
    /\ output.euclid[1] % input.p = output.linear
    /\ input.a * output.euclid[1] + input.p * output.euclid[2] = 1
=============================================================================
