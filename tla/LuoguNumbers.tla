---------------------------- MODULE LuoguNumbers ----------------------------
(***************************************************************************)
(* The exercises of luogu/ on numbers and strings: range sums (B3612),       *)
(* octal to hexadecimal (B3617), all choices in order (B3622), range products *)
(* (B3645) and modular inverses (P3811), each as what it computes.           *)
(***************************************************************************)
EXTENDS Integers, Sequences, SequencesExt, Bitwise

-----------------------------------------------------------------------------
(* P3811: three ways to an inverse.                                         *)

RECURSIVE exgc(_, _)
exgc(a, b) ==
  IF b = 0 THEN <<1, 0>>
  ELSE LET xy == exgc(b, a % b)
       IN <<xy[2], xy[1] - (a \div b) * xy[2]>>

(* Mutant: the base is squared before it is used.                           *)
RECURSIVE SquaringFirst(_, _, _, _)
SquaringFirst(a, p, ret, mod) ==
  IF p = 0 THEN ret
  ELSE LET b == (a * a) % mod
       IN SquaringFirst(b, p \div 2, IF p % 2 = 1 THEN (ret * b) % mod ELSE ret, mod)

RECURSIVE Squaring(_, _, _, _)
Squaring(a, p, ret, mod) ==
  IF p = 0 THEN ret
  ELSE Squaring((a * a) % mod, p \div 2, IF p % 2 = 1 THEN (ret * a) % mod ELSE ret, mod)

fastpower(a, p, mod) == Squaring(a % mod, p, 1, mod)

(* inv, for i below p; the array is zero where nothing is stored.           *)
linear(n, p) ==
  LET inv[i \in 0..n] == IF i < 2 THEN i ELSE ((p - p \div i) * inv[p % i]) % p
  IN inv

-----------------------------------------------------------------------------
(* B3612 and B3645: prefixes, then a query <<l, r>> from two of them.       *)

Sums(nums) ==
  LET pre[i \in 0..Len(nums)] == IF i = 0 THEN 0 ELSE pre[i - 1] + nums[i]
  IN pre

RangeSums(nums, queries) ==
  LET pre == Sums(nums)
  IN [q \in DOMAIN queries |-> pre[queries[q][2]] - pre[queries[q][1] - 1]]

Products(nums, p) ==
  LET num[i \in 0..Len(nums)] == IF i = 0 THEN 1 ELSE (nums[i] * num[i - 1]) % p
  IN num

(* The answers of all queries, combined by exclusive or.                    *)
RangeProducts(nums, queries, p) ==
  LET num == Products(nums, p)
      inv == linear(p - 1, p)
  IN FoldLeft(LAMBDA ret, q : ret ^^ ((num[q[2]] * inv[num[q[1] - 1]]) % p), 0, queries)

-----------------------------------------------------------------------------
(* B3617: four octal digits at a time make three hexadecimal ones.          *)

Group(s, i) ==
  FoldLeft(LAMBDA v, d : 8 * v + d, 0, SubSeq(s, (IF i < 4 THEN 0 ELSE i - 4) + 1, i))

ThreeDigits(v) == [k \in 1..3 |-> (v \div 16^(3 - k)) % 16]

StripZeros(ret) ==
  LET i == SelectInSeq(ret, LAMBDA d : d # 0)
  IN IF i = 0 THEN <<>> ELSE SubSeq(ret, i, Len(ret))

OctalToHex(s) ==
  LET n == Len(s)
  IN StripZeros(FlattenSeq([g \in 1..(n \div 4 + 1) |->
                              ThreeDigits(Group(s, (n % 4) + 4 * (g - 1)))]))

-----------------------------------------------------------------------------
(* B3622: every choice of N or Y for n people, in the order printed.        *)
RECURSIVE AllChoices(_, _)
AllChoices(a, i) ==
  IF i > Len(a) THEN <<a>>
  ELSE AllChoices([a EXCEPT ![i] = "N"], i + 1) \o AllChoices([a EXCEPT ![i] = "Y"], i + 1)
=============================================================================
