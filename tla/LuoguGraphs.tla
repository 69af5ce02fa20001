---------------------------- MODULE LuoguGraphs ----------------------------
(***************************************************************************)
(* The graph exercises of luogu/: shortest paths (B3602), bipartite matching *)
(* (B3605, and P3386 with other names), transitive closure (B3611) and       *)
(* sorted adjacency lists (B3613), each as what it prints for its input.     *)
(* Vertices are 1..n and arrays start at 1.                                  *)
(***************************************************************************)
EXTENDS Integers, Sequences, FiniteSets, SequencesExt

UpTo(n) == [i \in 1..n |-> i]

-----------------------------------------------------------------------------
(* B3602: Dijkstra.  An edge is <<u, v, w>>, an entry of pq <<ndis, node>>;   *)
(* an entry is pushed with a smaller distance every time, so pq is a set.    *)

Infinity == 1000000   \* 0x3f3f3f3f3f3f3f3f

Before(a, b) == a[1] < b[1] \/ (a[1] = b[1] /\ a[2] < b[2])

(* The edges out of the node just settled.                                  *)
Relax(edges, node, ndis, ret, queued) ==
  FoldLeft(LAMBDA q, e :
             IF e[1] = node /\ ret[e[2]] = -1 /\ ndis + e[3] < q.dis[e[2]]
             THEN [dis |-> [q.dis EXCEPT ![e[2]] = ndis + e[3]],
                   pq  |-> q.pq \cup {<<ndis + e[3], e[2]>>}]
             ELSE q,
           queued, edges)

RECURSIVE Settle(_, _, _)
Settle(edges, queued, ret) ==
  IF queued.pq = {} THEN ret
  ELSE LET top  == CHOOSE a \in queued.pq : \A b \in queued.pq : a = b \/ Before(a, b)
           rest == [queued EXCEPT !.pq = @ \ {top}]
           done == [ret EXCEPT ![top[2]] = top[1]]
       IN IF ret[top[2]] # -1 THEN Settle(edges, rest, ret)
          ELSE Settle(edges, Relax(edges, top[2], top[1], done, rest), done)

Dijkstra(n, edges) ==
  Settle(edges,
         [dis |-> [v \in 1..n |-> IF v = 1 THEN 0 ELSE Infinity], pq |-> {<<0, 1>>}],
         [v \in 1..n |-> -1])

-----------------------------------------------------------------------------
(* B3605: Kuhn's matching.  a[u] lists the right vertices of u; p is the set  *)
(* visited in this search, vis[v] the left vertex v is matched with, or 0.   *)

RECURSIVE Dfs(_, _, _, _, _)
Dfs(a, u, i, p, vis) ==
  IF i > Len(a[u]) THEN [found |-> FALSE, p |-> p, vis |-> vis]
  ELSE LET v    == a[u][i]
           seen == p \cup {v}
           r    == IF vis[v] = 0 THEN [found |-> TRUE, p |-> seen, vis |-> vis]
                                 ELSE Dfs(a, vis[v], 1, seen, vis)
       IN IF v \in p THEN Dfs(a, u, i + 1, p, vis)
          ELSE IF r.found THEN [r EXCEPT !.vis = [@ EXCEPT ![v] = u]]
          ELSE Dfs(a, u, i + 1, r.p, r.vis)

(* One search from every left vertex in turn: the number that succeed.      *)
Matching(l, r, a) ==
  FoldLeft(LAMBDA m, u :
             LET d == Dfs(a, u, 1, {}, m.vis)
             IN [ret |-> IF d.found THEN m.ret + 1 ELSE m.ret, vis |-> d.vis],
           [ret |-> 0, vis |-> [v \in 1..r |-> 0]], UpTo(l))

-----------------------------------------------------------------------------
(* Mutant: the loops over rows and over intermediate vertices are swapped.   *)
WarshallSwapped(n, a) ==
  FoldLeft(LAMBDA b, i :
             FoldLeft(LAMBDA c, k : IF k \in c[i] THEN [c EXCEPT ![i] = @ \cup c[k]] ELSE c,
                      b, UpTo(n)),
           a, UpTo(n))

(* B3611: Warshall on rows.  Row k does not change in its own round, so the   *)
(* rows of a round can be taken together.                                   *)
Warshall(n, a) ==
  FoldLeft(LAMBDA b, k : [i \in 1..n |-> IF k \in b[i] THEN b[i] \cup b[k] ELSE b[i]],
           a, UpTo(n))

-----------------------------------------------------------------------------
(* B3613: several graphs, one after the other in the same array e.          *)

(* The end of the run of edges out of vertex i that starts at k.            *)
RunEnd(e, m, i, k) ==
  CHOOSE q \in k..(m + 1) :
    /\ q > m \/ e[q][1] # i
    /\ \A j \in k..(q - 1) : e[j][1] = i

Sweep(e, n, m) ==
  FoldLeft(LAMBDA s, i :
             LET q == RunEnd(e, m, i, s.k)
             IN [k |-> q, lines |-> Append(s.lines, [j \in 1..(q - s.k) |-> e[s.k + j - 1][2]])],
           [k |-> 1, lines |-> <<>>], UpTo(n)).lines

(* The edges read overwrite the first m cells, and those are sorted.        *)
Fill(e, edges) == SortSeq(edges, Before) \o SubSeq(e, Len(edges) + 1, Len(e))

Adjacency(n, graphs, sz) ==
  FoldLeft(LAMBDA s, edges :
             LET e == Fill(s.e, edges)
             IN [e |-> e, out |-> Append(s.out, Sweep(e, n, Len(edges)))],
           [e |-> [k \in 1..sz |-> <<0, 0>>], out |-> <<>>], graphs).out
=============================================================================
