-------------------------- MODULE SelectorsProofs ---------------------------
(***************************************************************************)
(* The selectors for any number of servers, any weights and any sequence   *)
(* of lists: who is selected, and how often.                               *)
(***************************************************************************)
EXTENDS Selectors, FiniteSetTheorems, SequenceTheorems, WellFoundedInduction, TLAPS

-----------------------------------------------------------------------------
(* Induction *)

\* A set that has 0 and the successor of each of its numbers has them all.
LEMMA Induction ==
  ASSUME NEW S, 0 \in S, \A n \in Nat : n \in S => n + 1 \in S
  PROVE  Nat \subseteq S
<1> DEFINE T == Nat \ S
<1> SUFFICES ASSUME T # {} PROVE FALSE
  BY Zenon
<1>1. PICK x \in T : \A y \in T : ~(<<y, x>> \in OpToRel(<, Nat))
  <2>1. T \subseteq Nat
    BY Zenon
  <2> HIDE DEF T
  <2> QED
    BY <2>1, WFMin, NatLessThanWellFounded, Zenon
<1>2. x \in Nat /\ x # 0 /\ x \notin S
  BY Zenon
<1>3. x - 1 \in Nat /\ x - 1 < x /\ (x - 1) + 1 = x
  BY <1>2
<1>4. <<x - 1, x>> \in OpToRel(<, Nat)
  BY <1>2, <1>3, Zenon DEF OpToRel
<1>5. x - 1 \notin T
  BY <1>1, <1>4, Zenon
<1>6. x - 1 \in S
  BY <1>3, <1>5, Zenon
<1> QED
  BY <1>2, <1>3, <1>6, Zenon

\* The same up to N.
LEMMA InductionTo ==
  ASSUME NEW N \in Nat, NEW S, 0 \in S, \A n \in 1..N : n - 1 \in S => n \in S
  PROVE  0..N \subseteq S
<1> DEFINE U == {n \in Nat : n <= N => n \in S}
<1>1. 0 \in U
  BY Zenon
<1>2. ASSUME NEW n \in Nat, n \in U PROVE n + 1 \in U
  <2>1. SUFFICES ASSUME n + 1 <= N PROVE n + 1 \in S
    OBVIOUS
  <2>2. n \in S /\ n + 1 \in 1..N /\ (n + 1) - 1 = n
    BY <1>2, <2>1
  <2> QED
    BY <2>2, Zenon
<1>3. Nat \subseteq U
  <2> HIDE DEF U
  <2> QED
    BY <1>1, <1>2, Induction, Zenon
<1> QED
  BY <1>3

\* A function on 0..N whose values follow each from the one before.
Follows(g, N, V, v, F) == g \in [0..N -> V] /\ g[0] = v /\ \A n \in 1..N : g[n] = F[n][g[n - 1]]

LEMMA RecursiveExists ==
  ASSUME NEW N \in Nat, NEW V, NEW v \in V, NEW F \in [1..N -> [V -> V]]
  PROVE  \E g : Follows(g, N, V, v, F)
<1> DEFINE Upto(k) == \E g \in [0..k -> V] : g[0] = v /\ \A n \in 1..k : g[n] = F[n][g[n - 1]]
           S == {k \in 0..N : Upto(k)}
<1>1. 0 \in S
  <2>1. [n \in 0..0 |-> v] \in [0..0 -> V] /\ [n \in 0..0 |-> v][0] = v
    OBVIOUS
  <2>2. \A n \in 1..0 : FALSE
    OBVIOUS
  <2>3. Upto(0)
    BY <2>1, <2>2, Zenon
  <2> QED
    BY <2>3
<1>2. ASSUME NEW k \in 1..N, k - 1 \in S PROVE k \in S
  <2>1. PICK g \in [0..(k - 1) -> V] : g[0] = v /\ \A n \in 1..(k - 1) : g[n] = F[n][g[n - 1]]
    BY <1>2, Zenon
  <2> DEFINE h == [n \in 0..k |-> IF n = k THEN F[k][g[k - 1]] ELSE g[n]]
  <2>2. h \in [0..k -> V]
    <3>1. g[k - 1] \in V /\ F[k] \in [V -> V]
      BY <2>1
    <3>2. F[k][g[k - 1]] \in V
      BY <3>1, Zenon
    <3>3. \A n \in 0..k : n # k => g[n] \in V
      BY <2>1
    <3> QED
      BY <3>2, <3>3, Zenon
  <2>3. h[0] = v
    BY <2>1
  <2>4. ASSUME NEW n \in 1..k PROVE h[n] = F[n][h[n - 1]]
    <3>1. h[n - 1] = g[n - 1]
      OBVIOUS
    <3>2. CASE n = k
      BY <3>1, <3>2
    <3>3. CASE n # k
      <4>1. n \in 1..(k - 1) /\ h[n] = g[n]
        BY <3>3
      <4> HIDE DEF h
      <4> QED
        BY <2>1, <3>1, <4>1, Zenon
    <3> QED
      BY <3>2, <3>3, Zenon
  <2> HIDE DEF h
  <2>5. Upto(k)
    BY <2>2, <2>3, <2>4, Zenon
  <2> QED
    BY <2>5
<1>3. 0..N \subseteq S
  <2> HIDE DEF S
  <2> QED
    BY <1>1, <1>2, InductionTo, Zenon
<1>4. N \in S
  BY <1>3
<1> QED
  BY <1>4, Zenon DEF Follows

-----------------------------------------------------------------------------
(* Sums *)

\* q is a list of the servers in S, each once, and f gives each a number.
Lists1(q, S) ==
  /\ Len(q) \in Nat /\ \A n \in 1..Len(q) : q[n] \in S
  /\ \A s \in S : \E n \in 1..Len(q) : q[n] = s
  /\ \A m, n \in 1..Len(q) : q[m] = q[n] => m = n

\* g has the partial sums of f along q.
Partial(g, q, f) ==
  /\ g \in [0..Len(q) -> Int] /\ g[0] = 0 /\ \A n \in 1..Len(q) : g[n] = g[n - 1] + f[q[n]]
  /\ SumAlong(q, f) = g[Len(q)]

LEMMA PartialSums ==
  ASSUME NEW q, NEW S, Lists1(q, S), NEW f, \A s \in S : f[s] \in Int
  PROVE  \E g : Partial(g, q, f)
<1> DEFINE N == Len(q)
           F == [n \in 1..N |-> [x \in Int |-> x + f[q[n]]]]
           Sums(g) == [n \in 0..N |-> IF n = 0 THEN 0 ELSE g[n - 1] + f[q[n]]]
<1>0. N \in Nat /\ \A n \in 1..N : f[q[n]] \in Int
  BY Zenon DEF Lists1
<1>1. F \in [1..N -> [Int -> Int]]
  BY <1>0
<1>2. \E g : Follows(g, N, Int, 0, F)
  <2>1. 0 \in Int
    OBVIOUS
  <2> HIDE DEF F, N
  <2> QED
    BY <1>0, <1>1, <2>1, RecursiveExists, Zenon
<1>3. PICK g : g \in [0..N -> Int] /\ g[0] = 0 /\ \A n \in 1..N : g[n] = F[n][g[n - 1]]
  BY <1>2, Zenon DEF Follows
<1>4. ASSUME NEW n \in 1..N PROVE g[n - 1] \in Int /\ g[n] = g[n - 1] + f[q[n]]
  <2>1. n - 1 \in 0..N
    BY <1>0
  <2>2. g[n - 1] \in Int
    BY <1>3, <2>1, Zenon
  <2>3. F[n][g[n - 1]] = g[n - 1] + f[q[n]]
    BY <2>2, Zenon
  <2>4. g[n] = F[n][g[n - 1]]
    BY <1>3, Zenon
  <2> QED
    BY <2>2, <2>3, <2>4, Zenon
<1>5. g = Sums(g)
  <2>1. ASSUME NEW n \in 0..N PROVE g[n] = IF n = 0 THEN 0 ELSE g[n - 1] + f[q[n]]
    <3>1. n # 0 => n \in 1..N
      BY <1>0
    <3> QED
      BY <1>3, <1>4, <3>1, Zenon
  <2>2. DOMAIN g = 0..N /\ g = [n \in 0..N |-> g[n]]
    BY <1>3, Zenon
  <2> QED
    BY <2>1, <2>2, Zenon
<1> DEFINE h == CHOOSE x : x = Sums(x)
<1>6. h = Sums(h)
  BY <1>5, Zenon
<1>7. SumAlong(q, f) = h[N]
  BY Zenon DEF SumAlong
<1> HIDE DEF h
<1>8. h[0] = 0 /\ \A n \in 1..N : h[n] = h[n - 1] + f[q[n]]
  BY <1>0, <1>6
<1>9. DOMAIN h = 0..N
  BY <1>6, Zenon
<1>10. \A n \in 0..N : h[n] = g[n]
  <2> DEFINE E == {n \in 0..N : h[n] = g[n]}
  <2>1. 0 \in E
    BY <1>0, <1>3, <1>8
  <2>2. ASSUME NEW n \in 1..N, n - 1 \in E PROVE n \in E
    BY <1>0, <1>4, <1>8, <2>2
  <2>3. 0..N \subseteq E
    <3> HIDE DEF E, N
    <3> QED
      BY <1>0, <2>1, <2>2, InductionTo, Zenon
  <2> QED
    BY <2>3, Zenon
<1>11. N \in 0..N
  BY <1>0
<1>12. SumAlong(q, f) = g[N]
  BY <1>7, <1>10, <1>11, Zenon
<1> HIDE DEF F
<1>13. Partial(g, q, f)
  BY <1>3, <1>4, <1>12, Zenon DEF Partial
<1> QED
  BY <1>13, Zenon

\* The sum of two functions.
IsSum(S, f, g, h) == \A s \in S : f[s] \in Int /\ g[s] \in Int /\ h[s] = f[s] + g[s]

LEMMA SumsAdd ==
  ASSUME NEW q, NEW S, Lists1(q, S), NEW f, NEW g, NEW h, IsSum(S, f, g, h)
  PROVE  SumAlong(q, h) = SumAlong(q, f) + SumAlong(q, g)
<1> \A s \in S : f[s] \in Int /\ g[s] \in Int /\ h[s] = f[s] + g[s]
  BY Zenon DEF IsSum
<1>0. Len(q) \in Nat /\ (\A n \in 1..Len(q) : q[n] \in S) /\ \A s \in S : h[s] \in Int
  BY DEF Lists1
<1>1. PICK a : Partial(a, q, f)
  BY PartialSums, Zenon
<1>2. PICK b : Partial(b, q, g)
  BY PartialSums, Zenon
<1>3. PICK c : Partial(c, q, h)
  BY <1>0, PartialSums, Zenon
<1> DEFINE E == {n \in 0..Len(q) : c[n] = a[n] + b[n]}
<1>4. 0 \in E
  BY <1>0, <1>1, <1>2, <1>3 DEF Partial
<1>5. ASSUME NEW n \in 1..Len(q), n - 1 \in E PROVE n \in E
  <2>1. n - 1 \in 0..Len(q) /\ n \in 0..Len(q) /\ q[n] \in S /\ c[n - 1] = a[n - 1] + b[n - 1]
    BY <1>0, <1>5
  <2>2. a[n - 1] \in Int /\ b[n - 1] \in Int /\ f[q[n]] \in Int /\ g[q[n]] \in Int /\ h[q[n]] = f[q[n]] + g[q[n]]
    BY <1>1, <1>2, <2>1, Zenon DEF Partial
  <2>3. a[n] = a[n - 1] + f[q[n]] /\ b[n] = b[n - 1] + g[q[n]] /\ c[n] = c[n - 1] + h[q[n]]
    BY <1>1, <1>2, <1>3, Zenon DEF Partial
  <2>4. \A u, v, x, y \in Int : (u + v) + (x + y) = (u + x) + (v + y)
    BY ONLY TRUE
  <2>5. (a[n - 1] + b[n - 1]) + (f[q[n]] + g[q[n]]) = (a[n - 1] + f[q[n]]) + (b[n - 1] + g[q[n]])
    BY ONLY <2>2
  <2>6. c[n] = a[n] + b[n]
    BY <2>1, <2>2, <2>3, <2>5, Zenon
  <2> QED
    BY <2>1, <2>6, Zenon
<1>6. 0..Len(q) \subseteq E
  <2> HIDE DEF E
  <2> QED
    BY <1>0, <1>4, <1>5, InductionTo, Zenon
<1>7. Len(q) \in E
  BY <1>0, <1>6
<1> QED
  BY <1>1, <1>2, <1>3, <1>7, Zenon DEF Partial

LEMMA SumType ==
  ASSUME NEW q, NEW S, Lists1(q, S), NEW f, \A s \in S : f[s] \in Int
  PROVE  SumAlong(q, f) \in Int
<1>1. PICK a : Partial(a, q, f)
  BY PartialSums, Zenon
<1>2. Len(q) \in 0..Len(q)
  BY DEF Lists1
<1> QED
  BY <1>1, <1>2, Zenon DEF Partial

\* A sum of multiples.
IsMultiple(S, k, f, h) == \A s \in S : f[s] \in Int /\ h[s] = k * f[s]

LEMMA SumsScale ==
  ASSUME NEW q, NEW S, Lists1(q, S), NEW f, NEW h, NEW k \in Int, IsMultiple(S, k, f, h)
  PROVE  SumAlong(q, h) = k * SumAlong(q, f)
<1> \A s \in S : f[s] \in Int /\ h[s] = k * f[s]
  BY Zenon DEF IsMultiple
<1>0. Len(q) \in Nat /\ (\A n \in 1..Len(q) : q[n] \in S) /\ \A s \in S : h[s] \in Int
  BY DEF Lists1
<1>1. PICK a : Partial(a, q, f)
  BY PartialSums, Zenon
<1>2. PICK b : Partial(b, q, h)
  BY <1>0, PartialSums, Zenon
<1> DEFINE E == {n \in 0..Len(q) : b[n] = k * a[n]}
<1>3. 0 \in E
  <2>1. k * 0 = 0
    OBVIOUS
  <2> QED
    BY <1>0, <1>1, <1>2, <2>1 DEF Partial
<1>4. ASSUME NEW n \in 1..Len(q), n - 1 \in E PROVE n \in E
  <2>1. n - 1 \in 0..Len(q) /\ n \in 0..Len(q) /\ q[n] \in S /\ b[n - 1] = k * a[n - 1]
    BY <1>0, <1>4
  <2>2. a[n - 1] \in Int /\ f[q[n]] \in Int /\ h[q[n]] = k * f[q[n]]
    BY <1>1, <2>1, Zenon DEF Partial
  <2>3. a[n] = a[n - 1] + f[q[n]] /\ b[n] = b[n - 1] + h[q[n]]
    BY <1>1, <1>2, Zenon DEF Partial
  <2>4. \A x, y \in Int : k * x + k * y = k * (x + y)
    OBVIOUS
  <2>5. k * a[n - 1] + k * f[q[n]] = k * (a[n - 1] + f[q[n]])
    BY <2>2, <2>4, Zenon
  <2>6. b[n] = k * a[n]
    BY <2>1, <2>2, <2>3, <2>5, Zenon
  <2> QED
    BY <2>1, <2>6, Zenon
<1>5. 0..Len(q) \subseteq E
  <2> HIDE DEF E
  <2> QED
    BY <1>0, <1>3, <1>4, InductionTo, Zenon
<1>6. Len(q) \in E
  BY <1>0, <1>5
<1> QED
  BY <1>1, <1>2, <1>6, Zenon DEF Partial

\* A sum of numbers that are not negative.
LEMMA SumsNat ==
  ASSUME NEW q, NEW S, Lists1(q, S), NEW f, \A s \in S : f[s] \in Nat
  PROVE  SumAlong(q, f) \in Nat
<1>0. Len(q) \in Nat /\ (\A n \in 1..Len(q) : q[n] \in S) /\ \A s \in S : f[s] \in Int
  BY DEF Lists1
<1>1. PICK a : Partial(a, q, f)
  BY <1>0, PartialSums, Zenon
<1> DEFINE E == {n \in 0..Len(q) : a[n] \in Nat}
<1>2. 0 \in E
  BY <1>0, <1>1 DEF Partial
<1>3. ASSUME NEW n \in 1..Len(q), n - 1 \in E PROVE n \in E
  <2>1. n \in 0..Len(q) /\ q[n] \in S /\ a[n - 1] \in Nat
    BY <1>0, <1>3
  <2>2. f[q[n]] \in Nat /\ a[n] = a[n - 1] + f[q[n]]
    BY <1>1, <2>1, Zenon DEF Partial
  <2>3. a[n] \in Nat
    BY ONLY <2>1, <2>2
  <2> QED
    BY <2>1, <2>3, Zenon
<1>4. 0..Len(q) \subseteq E
  <2> HIDE DEF E
  <2> QED
    BY <1>0, <1>2, <1>3, InductionTo, Zenon
<1>5. Len(q) \in E
  BY <1>0, <1>4
<1> QED
  BY <1>1, <1>5, Zenon DEF Partial

\* The sum of what is zero except at x.
LEMMA SumsPoint ==
  ASSUME NEW q, NEW S, Lists1(q, S), NEW x \in S, NEW d \in Int, NEW f,
         \A s \in S : f[s] = IF s = x THEN d ELSE 0
  PROVE  SumAlong(q, f) = d
<1>0. /\ Len(q) \in Nat /\ (\A n \in 1..Len(q) : q[n] \in S) /\ (\A s \in S : f[s] \in Int)
      /\ \A m, n \in 1..Len(q) : q[m] = q[n] => m = n
  BY DEF Lists1
<1>1. PICK a : Partial(a, q, f)
  BY <1>0, PartialSums, Zenon
<1>2. PICK k \in 1..Len(q) : q[k] = x
  BY Zenon DEF Lists1
<1> DEFINE E == {n \in 0..Len(q) : a[n] = IF n < k THEN 0 ELSE d}
<1>3. 0 \in E
  BY <1>0, <1>1 DEF Partial
<1>4. ASSUME NEW n \in 1..Len(q), n - 1 \in E PROVE n \in E
  <2>1. n \in 0..Len(q) /\ q[n] \in S /\ a[n - 1] = IF n - 1 < k THEN 0 ELSE d
    BY <1>0, <1>4
  <2>2. a[n] = a[n - 1] + f[q[n]]
    BY <1>1, Zenon DEF Partial
  <2>3. f[q[n]] = IF n = k THEN d ELSE 0
    BY <1>0, <1>2, <2>1, Zenon
  <2>4. a[n] = IF n < k THEN 0 ELSE d
    BY <2>1, <2>2, <2>3
  <2> QED
    BY <2>1, <2>4, Zenon
<1>5. 0..Len(q) \subseteq E
  <2> HIDE DEF E
  <2> QED
    BY <1>0, <1>3, <1>4, InductionTo, Zenon
<1>6. a[Len(q)] = d
  BY <1>0, <1>5
<1> QED
  BY <1>1, <1>6, Zenon DEF Partial

\* What one server gains, the sum gains.
LEMMA SumsGain ==
  ASSUME NEW q, NEW S, Lists1(q, S), NEW x \in S, NEW d \in Int, NEW f, NEW h,
         \A s \in S : f[s] \in Int /\ h[s] = IF s = x THEN f[s] + d ELSE f[s]
  PROVE  SumAlong(q, h) = SumAlong(q, f) + d
<1> DEFINE g == [s \in S |-> IF s = x THEN d ELSE 0]
<1>1. \A s \in S : g[s] = IF s = x THEN d ELSE 0
  BY Zenon
<1> HIDE DEF g
<1>2. \A s \in S : g[s] \in Int /\ h[s] = f[s] + g[s]
  BY <1>1
<1>3. SumAlong(q, g) = d
  BY <1>1, SumsPoint
<1>4. SumAlong(q, h) = SumAlong(q, f) + SumAlong(q, g)
  <2>1. IsSum(S, f, g, h)
    BY <1>2, Zenon DEF IsSum
  <2> QED
    BY <2>1, SumsAdd
<1> QED
  BY <1>3, <1>4, Zenon

\* Sums keep an order.
LEMMA SumsOrder ==
  ASSUME NEW q, NEW S, Lists1(q, S), NEW f, NEW g,
         \A s \in S : f[s] \in Int /\ g[s] \in Int /\ f[s] <= g[s]
  PROVE  SumAlong(q, f) <= SumAlong(q, g)
<1> DEFINE h == [s \in S |-> g[s] - f[s]]
<1>1. \A s \in S : h[s] \in Nat /\ g[s] = f[s] + h[s]
  OBVIOUS
<1> HIDE DEF h
<1>2. \A s \in S : f[s] \in Int /\ h[s] \in Int /\ g[s] = f[s] + h[s]
  BY <1>1
<1>3. SumAlong(q, g) = SumAlong(q, f) + SumAlong(q, h)
  <2>1. IsSum(S, f, h, g)
    BY <1>2, Zenon DEF IsSum
  <2> QED
    BY <2>1, SumsAdd
<1>4. SumAlong(q, h) \in Nat
  BY <1>1, SumsNat, Zenon
<1>5. SumAlong(q, f) \in Int
  BY SumType, Zenon
<1> QED
  BY ONLY <1>3, <1>4, <1>5

\* A term is no more than the sum when none is negative.
LEMMA SumsTerm ==
  ASSUME NEW q, NEW S, Lists1(q, S), NEW x \in S, NEW f, \A s \in S : f[s] \in Nat
  PROVE  f[x] <= SumAlong(q, f)
<1> DEFINE g == [s \in S |-> IF s = x THEN f[x] ELSE 0]
<1>1. /\ \A s \in S : g[s] = IF s = x THEN f[x] ELSE 0
      /\ \A s \in S : g[s] \in Int /\ f[s] \in Int /\ g[s] <= f[s]
  OBVIOUS
<1> HIDE DEF g
<1>2. f[x] \in Int
  BY <1>1, Zenon
<1>3. SumAlong(q, g) = f[x]
  BY <1>1, <1>2, SumsPoint
<1>4. SumAlong(q, g) <= SumAlong(q, f)
  BY <1>1, SumsOrder, Zenon
<1> QED
  BY <1>3, <1>4, Zenon

\* A sum of zeros.
LEMMA SumsZero ==
  ASSUME NEW q, NEW S, Lists1(q, S), NEW f, \A s \in S : f[s] = 0
  PROVE  SumAlong(q, f) = 0
<1>1. \A s \in S : f[s] \in Int /\ f[s] = 0 * f[s]
  OBVIOUS
<1>2. SumAlong(q, f) = 0 * SumAlong(q, f)
  <2>1. IsMultiple(S, 0, f, f) /\ 0 \in Int
    BY <1>1 DEF IsMultiple
  <2> QED
    BY <2>1, SumsScale
<1>3. SumAlong(q, f) \in Int
  BY <1>1, SumType, Zenon
<1>4. \A x \in Int : 0 * x = 0
  OBVIOUS
<1> QED
  BY <1>2, <1>3, <1>4, Zenon

\* A positive sum has a positive term.
LEMMA SumsPositive ==
  ASSUME NEW q, NEW S, Lists1(q, S), NEW f, \A s \in S : f[s] \in Int, SumAlong(q, f) > 0
  PROVE  \E s \in S : f[s] > 0
<1> SUFFICES ASSUME \A s \in S : ~(f[s] > 0) PROVE FALSE
  BY Zenon
<1> DEFINE z == [s \in S |-> 0]
<1>1. \A s \in S : z[s] = 0 /\ z[s] \in Int /\ f[s] <= z[s]
  OBVIOUS
<1> HIDE DEF z
<1>2. SumAlong(q, f) <= SumAlong(q, z)
  BY <1>1, SumsOrder, Zenon
<1>3. SumAlong(q, z) = 0
  BY <1>1, SumsZero, Zenon
<1>4. SumAlong(q, f) \in Int
  BY SumType, Zenon
<1> QED
  BY <1>2, <1>3, <1>4

-----------------------------------------------------------------------------
(* Sums over some of the servers *)

Only0(S, f, A) == [s \in S |-> IF s \in A THEN f[s] ELSE 0]
Part(q, S, f, A) == SumAlong(q, Only0(S, f, A))
Ones(S) == [s \in S |-> 1]
Size(q, S, A) == Part(q, S, Ones(S), A)

LEMMA PartType ==
  ASSUME NEW q, NEW S, Lists1(q, S), NEW f, \A s \in S : f[s] \in Int, NEW A
  PROVE  Part(q, S, f, A) \in Int
<1> DEFINE g == Only0(S, f, A)
<1>1. \A s \in S : g[s] \in Int
  BY DEF Only0
<1> HIDE DEF g
<1>2. SumAlong(q, g) \in Int
  BY <1>1, SumType, Zenon
<1> QED
  BY <1>2, Zenon DEF Part, g

LEMMA PartAdd ==
  ASSUME NEW q, NEW S, Lists1(q, S), NEW f, NEW g, NEW h, NEW A, IsSum(S, f, g, h)
  PROVE  Part(q, S, h, A) = Part(q, S, f, A) + Part(q, S, g, A)
<1> \A s \in S : f[s] \in Int /\ g[s] \in Int /\ h[s] = f[s] + g[s]
  BY Zenon DEF IsSum
<1> DEFINE f1 == Only0(S, f, A)
           g1 == Only0(S, g, A)
           h1 == Only0(S, h, A)
<1>1. \A s \in S : f1[s] \in Int /\ g1[s] \in Int /\ h1[s] = f1[s] + g1[s]
  BY DEF Only0
<1> HIDE DEF f1, g1, h1
<1>2. SumAlong(q, h1) = SumAlong(q, f1) + SumAlong(q, g1)
  <2>1. IsSum(S, f1, g1, h1)
    BY <1>1, Zenon DEF IsSum
  <2> QED
    BY <2>1, SumsAdd
<1> QED
  BY <1>2, Zenon DEF Part, f1, g1, h1

\* One server more.
LEMMA PartWith ==
  ASSUME NEW q, NEW S, Lists1(q, S), NEW f, \A s \in S : f[s] \in Int, NEW A, NEW x \in S \ A
  PROVE  Part(q, S, f, A \cup {x}) = Part(q, S, f, A) + f[x]
<1> DEFINE g == Only0(S, f, A)
           h == Only0(S, f, A \cup {x})
<1>1. \A s \in S : g[s] \in Int /\ h[s] = IF s = x THEN g[s] + f[x] ELSE g[s]
  BY DEF Only0
<1> HIDE DEF g, h
<1>2. SumAlong(q, h) = SumAlong(q, g) + f[x]
  BY <1>1, SumsGain
<1> QED
  BY <1>2, Zenon DEF Part, g, h

\* One server gains d.
LEMMA PartGain ==
  ASSUME NEW q, NEW S, Lists1(q, S), NEW f, NEW h, NEW A, NEW x \in S, NEW d \in Int,
         \A s \in S : f[s] \in Int /\ h[s] = IF s = x THEN f[s] + d ELSE f[s]
  PROVE  Part(q, S, h, A) = IF x \in A THEN Part(q, S, f, A) + d ELSE Part(q, S, f, A)
<1> DEFINE g1 == Only0(S, f, A)
           h1 == Only0(S, h, A)
<1>1. CASE x \in A
  <2>1. \A s \in S : g1[s] \in Int /\ h1[s] = IF s = x THEN g1[s] + d ELSE g1[s]
    BY <1>1 DEF Only0
  <2> HIDE DEF g1, h1
  <2>2. SumAlong(q, h1) = SumAlong(q, g1) + d
    BY <2>1, SumsGain
  <2> QED
    BY <1>1, <2>2, Zenon DEF Part, g1, h1
<1>2. CASE x \notin A
  <2>1. h1 = g1
    BY <1>2, Zenon DEF Only0
  <2> QED
    BY <1>2, <2>1, Zenon DEF Part
<1> QED
  BY <1>1, <1>2, Zenon

\* All servers together.
LEMMA PartAll ==
  ASSUME NEW q, NEW S, Lists1(q, S), NEW f, \A s \in S : f[s] \in Int
  PROVE  Part(q, S, f, S) = SumAlong(q, f)
<1> DEFINE g == Only0(S, f, S)
<1>1. \A s \in S : f[s] \in Int /\ g[s] \in Int /\ f[s] <= g[s] /\ g[s] <= f[s]
  BY DEF Only0
<1> HIDE DEF g
<1>2. SumAlong(q, f) <= SumAlong(q, g) /\ SumAlong(q, g) <= SumAlong(q, f)
  BY <1>1, SumsOrder, Zenon
<1>3. SumAlong(q, f) \in Int /\ SumAlong(q, g) \in Int
  BY <1>1, SumType, Zenon
<1>4. SumAlong(q, f) = SumAlong(q, g)
  BY ONLY <1>2, <1>3
<1> QED
  BY <1>4, Zenon DEF Part, g

\* Some of what is not negative.
LEMMA PartMost ==
  ASSUME NEW q, NEW S, Lists1(q, S), NEW f, \A s \in S : f[s] \in Nat, NEW A
  PROVE  Part(q, S, f, A) \in Nat /\ Part(q, S, f, A) <= SumAlong(q, f)
<1> DEFINE g == Only0(S, f, A)
<1>1. \A s \in S : g[s] \in Int /\ f[s] \in Int /\ g[s] <= f[s] /\ g[s] \in Nat
  BY DEF Only0
<1> HIDE DEF g
<1>2. SumAlong(q, g) <= SumAlong(q, f) /\ SumAlong(q, g) \in Nat
  BY <1>1, SumsOrder, SumsNat, Zenon
<1> QED
  BY <1>2, Zenon DEF Part, g

\* A sum is at most the number of its terms times the greatest.
LEMMA PartBound ==
  ASSUME NEW q, NEW S, Lists1(q, S), NEW f, \A s \in S : f[s] \in Int, NEW A,
         NEW m \in Int, \A s \in S : f[s] <= m
  PROVE  Part(q, S, f, A) <= m * Size(q, S, A)
<1> DEFINE g == Only0(S, f, A)
           o == Only0(S, Ones(S), A)
           h == [s \in S |-> m * o[s]]
<1>1. \A s \in S : o[s] \in Int /\ h[s] = m * o[s]
  BY DEF Only0, Ones
<1>2. \A s \in S : g[s] \in Int /\ h[s] \in Int /\ g[s] <= h[s]
  <2>1. m * 1 = m /\ m * 0 = 0
    OBVIOUS
  <2>2. \A s \in S : h[s] = IF s \in A THEN m ELSE 0
    BY <2>1, Zenon DEF Only0, Ones
  <2>3. \A s \in S : g[s] = IF s \in A THEN f[s] ELSE 0
    BY Zenon DEF Only0
  <2> HIDE DEF g, h
  <2> QED
    BY <2>2, <2>3
<1> HIDE DEF g, h, o
<1>3. SumAlong(q, h) = m * SumAlong(q, o)
  <2>1. IsMultiple(S, m, o, h)
    BY <1>1, Zenon DEF IsMultiple
  <2> QED
    BY <2>1, SumsScale
<1>4. SumAlong(q, g) <= SumAlong(q, h)
  BY <1>2, SumsOrder, Zenon
<1> QED
  BY <1>3, <1>4, Zenon DEF Part, Size, g, o

LEMMA OnesType == ASSUME NEW S PROVE \A s \in S : Ones(S)[s] = 1 /\ Ones(S)[s] \in Nat /\ Ones(S)[s] \in Int
BY DEF Ones

\* There are as many servers as the list is long.
LEMMA SizeAll ==
  ASSUME NEW q, NEW S, Lists1(q, S)
  PROVE  SumAlong(q, Ones(S)) = Len(q)
<1>0. Len(q) \in Nat /\ (\A n \in 1..Len(q) : q[n] \in S)
  BY Zenon DEF Lists1
<1>1. PICK a : Partial(a, q, Ones(S))
  BY OnesType, PartialSums, Zenon
<1> DEFINE E == {n \in 0..Len(q) : a[n] = n}
<1>2. 0 \in E
  BY <1>0, <1>1 DEF Partial
<1>3. ASSUME NEW n \in 1..Len(q), n - 1 \in E PROVE n \in E
  <2>1. n \in 0..Len(q) /\ q[n] \in S /\ a[n - 1] = n - 1
    BY <1>0, <1>3
  <2>2. a[n] = a[n - 1] + Ones(S)[q[n]] /\ Ones(S)[q[n]] = 1
    BY <1>1, <2>1, OnesType, Zenon DEF Partial
  <2> QED
    BY <2>1, <2>2
<1>4. 0..Len(q) \subseteq E
  <2> HIDE DEF E
  <2> QED
    BY <1>0, <1>2, <1>3, InductionTo, Zenon
<1>5. Len(q) \in E
  BY <1>0, <1>4
<1> QED
  BY <1>1, <1>5, Zenon DEF Partial

LEMMA PartOne ==
  ASSUME NEW q, NEW S, Lists1(q, S), NEW f, \A s \in S : f[s] \in Int, NEW x \in S
  PROVE  Part(q, S, f, {x}) = f[x]
<1> DEFINE g == Only0(S, f, {x})
<1>1. \A s \in S : g[s] = IF s = x THEN f[x] ELSE 0
  BY Zenon DEF Only0
<1> HIDE DEF g
<1>2. SumAlong(q, g) = f[x]
  BY <1>1, SumsPoint
<1> QED
  BY <1>2, Zenon DEF Part, g

LEMMA Sizes ==
  ASSUME NEW q, NEW S, Lists1(q, S), NEW A
  PROVE  /\ Size(q, S, A) \in 0..Len(q)
         /\ \A x \in S \ A : Size(q, S, A \cup {x}) = Size(q, S, A) + 1
         /\ \A x \in S : Size(q, S, {x}) = 1
<1>1. Size(q, S, A) \in Nat /\ Size(q, S, A) <= Len(q)
  BY OnesType, PartMost, SizeAll DEF Size
<1>2. ASSUME NEW x \in S \ A PROVE Size(q, S, A \cup {x}) = Size(q, S, A) + 1
  BY OnesType, PartWith DEF Size
<1>3. ASSUME NEW x \in S PROVE Size(q, S, {x}) = 1
  BY OnesType, PartOne DEF Size
<1>4. Len(q) \in Nat
  BY Zenon DEF Lists1
<1> QED
  BY <1>1, <1>2, <1>3, <1>4

-----------------------------------------------------------------------------
(* What the servers can be short of *)

LEMMA ShortValues ==
  ASSUME NEW n \in Nat, NEW T \in Nat
  PROVE  /\ \A j \in 0..n : Short(n, T)[j] \in Nat
         /\ Short(n, T)[0] = 0
         /\ \A j \in 1..n : Short(n, T)[j] = ((n - j) * (Short(n, T)[j - 1] + T)) \div (n - j + 1)
<1> DEFINE Next1(j, x) == ((n - j) * (x + T)) \div (n - j + 1)
           F == [j \in 1..n |-> [x \in Nat |-> Next1(j, x)]]
           Values(c) == [j \in 0..n |-> IF j = 0 THEN 0 ELSE Next1(j, c[j - 1])]
           h == CHOOSE x : x = Values(x)
<1>0. ASSUME NEW j \in 1..n, NEW x \in Nat PROVE Next1(j, x) \in Nat
  <2>1. (n - j) \in Nat /\ x + T \in Nat /\ n - j + 1 \in Nat /\ n - j + 1 > 0
    OBVIOUS
  <2>2. \A a, b, d \in Nat : d > 0 => (a * b) \div d \in Nat
    BY ONLY TRUE
  <2> QED
    BY <2>1, <2>2, Zenon
<1>1. Short(n, T) = h
  BY Zenon DEF Short
<1> HIDE DEF Next1
<1>2. F \in [1..n -> [Nat -> Nat]]
  BY <1>0, Zenon
<1>3. \E g : Follows(g, n, Nat, 0, F)
  <2>1. 0 \in Nat
    BY Zenon
  <2> HIDE DEF F
  <2> QED
    BY <1>2, <2>1, RecursiveExists, Zenon
<1>4. PICK g : g \in [0..n -> Nat] /\ g[0] = 0 /\ \A j \in 1..n : g[j] = F[j][g[j - 1]]
  BY <1>3, Zenon DEF Follows
<1>5. ASSUME NEW j \in 1..n PROVE g[j] = Next1(j, g[j - 1])
  <2>1. j - 1 \in 0..n
    OBVIOUS
  <2>2. g[j - 1] \in Nat
    BY <1>4, <2>1, Zenon
  <2>3. F[j][g[j - 1]] = Next1(j, g[j - 1])
    BY <2>2, Zenon
  <2> QED
    BY <1>4, <2>3, Zenon
<1>6. g = Values(g)
  BY <1>4, <1>5
<1>7. h = Values(h)
  BY <1>6, Zenon
<1> HIDE DEF h
<1>8. h[0] = 0 /\ \A j \in 1..n : h[j] = Next1(j, h[j - 1])
  BY <1>7
<1>9. \A j \in 0..n : h[j] \in Nat
  <2> DEFINE E == {j \in 0..n : h[j] \in Nat}
  <2>1. 0 \in E
    BY <1>8
  <2>2. ASSUME NEW j \in 1..n, j - 1 \in E PROVE j \in E
    <3>1. h[j - 1] \in Nat /\ j \in 0..n
      BY <2>2
    <3>2. h[j] \in Nat
      BY <1>0, <1>8, <3>1, Zenon
    <3> QED
      BY <3>1, <3>2, Zenon
  <2>3. 0..n \subseteq E
    <3> HIDE DEF E
    <3> QED
      BY <2>1, <2>2, InductionTo, Zenon
  <2> QED
    BY <2>3, Zenon
<1> QED
  BY <1>1, <1>8, <1>9, Zenon DEF Next1

\* By how much k of the servers can be short: all of them by nothing.
Bound(q, T, k) == Short(Len(q), T)[Len(q) - k]

LEMMA Bounds ==
  ASSUME NEW q, Len(q) \in Nat, NEW T \in Nat, NEW k \in 0..Len(q)
  PROVE  /\ Bound(q, T, k) \in Nat
         /\ k < Len(q) => Bound(q, T, k) = (k * (Bound(q, T, k + 1) + T)) \div (k + 1)
<1> DEFINE n == Len(q)
<1>1. n - k \in 0..n
  OBVIOUS
<1>2. Bound(q, T, k) \in Nat
  BY <1>1, ShortValues, Zenon DEF Bound
<1>3. ASSUME k < n PROVE Bound(q, T, k) = (k * (Bound(q, T, k + 1) + T)) \div (k + 1)
  <2>1. n - k \in 1..n /\ n - (n - k) = k /\ n - (n - k) + 1 = k + 1 /\ (n - k) - 1 = n - (k + 1)
    BY <1>3
  <2>2. Short(n, T)[n - k] = ((n - (n - k)) * (Short(n, T)[(n - k) - 1] + T)) \div (n - (n - k) + 1)
    BY <2>1, ShortValues, Zenon
  <2>3. Short(n, T)[n - k] = (k * (Short(n, T)[n - (k + 1)] + T)) \div (k + 1)
    BY <2>1, <2>2, Zenon
  <2> QED
    BY <2>3, Zenon DEF Bound
<1> QED
  BY <1>2, <1>3, Zenon

\* One call of nextWeighted: everyone gains their weight, b has the most then and
\* pays the total.
Turn(q, S, cur, w, G, b, new) ==
  /\ Lists1(q, S) /\ b \in S
  /\ \A s \in S : cur[s] \in Int /\ w[s] \in Int
  /\ \A s \in S : G[s] = cur[s] + w[s] /\ G[s] <= G[b]
  /\ \A s \in S : new[s] = IF s = b THEN G[s] - SumAlong(q, w) ELSE G[s]

\* What A is short of after the turn.
LEMMA TurnParts ==
  ASSUME NEW q, NEW S, NEW cur, NEW w, NEW G, NEW b, NEW new, Turn(q, S, cur, w, G, b, new), NEW A
  PROVE  /\ Part(q, S, G, A) = Part(q, S, cur, A) + Part(q, S, w, A)
         /\ Part(q, S, new, A) = IF b \in A THEN Part(q, S, G, A) - SumAlong(q, w) ELSE Part(q, S, G, A)
<1> DEFINE T == SumAlong(q, w)
<1>1. Lists1(q, S) /\ b \in S /\ \A s \in S : w[s] \in Int
  BY Zenon DEF Turn
<1>2. T \in Int
  BY <1>1, SumType, Zenon
<1>3. IsSum(S, cur, w, G)
  BY Zenon DEF Turn, IsSum
<1>4. Part(q, S, G, A) = Part(q, S, cur, A) + Part(q, S, w, A)
  BY <1>1, <1>3, PartAdd
<1>5. \A s \in S : G[s] \in Int /\ new[s] = IF s = b THEN G[s] + (0 - T) ELSE G[s]
  BY <1>2 DEF Turn
<1>6. 0 - T \in Int
  BY <1>2
<1>7. Part(q, S, new, A) = IF b \in A THEN Part(q, S, G, A) + (0 - T) ELSE Part(q, S, G, A)
  <2> HIDE DEF T
  <2> QED
    BY <1>1, <1>5, <1>6, PartGain
<1>8. Part(q, S, G, A) \in Int
  BY <1>1, <1>5, PartType, Zenon
<1> QED
  BY <1>2, <1>4, <1>7, <1>8

\* k of them are short of k / (k + 1) of what k + 1 are short of, if the one that
\* is left out has the most.
LEMMA Averages ==
  ASSUME NEW k \in Nat, NEW p \in Int, NEW m \in Int, NEW c \in Int, p <= m * k, p + m <= c
  PROVE  p <= (k * c) \div (k + 1)
<1>1. p * (k + 1) <= k * c
  <2>1. p * (k + 1) = p * k + p
    OBVIOUS
  <2>2. (p + m) * k <= c * k
    OBVIOUS
  <2>3. (p + m) * k = p * k + m * k /\ c * k = k * c
    OBVIOUS
  <2>4. p * k \in Int /\ m * k \in Int /\ k * c \in Int
    OBVIOUS
  <2> QED
    BY <2>1, <2>2, <2>3, <2>4
<1>2. k * c \in Int /\ k + 1 \in Nat /\ k + 1 > 0
  OBVIOUS
<1>3. \A x, y \in Int : \A d \in Nat : d > 0 /\ x * d <= y => x <= y \div d
  BY ONLY TRUE
<1> QED
  BY <1>1, <1>2, <1>3, Zenon

\* No set of servers gets shorter than Short.
Shortfall(q, S, cur, T) == \A A \in SUBSET S : Part(q, S, cur, A) <= Bound(q, T, Size(q, S, A))

LEMMA ShortfallKept ==
  ASSUME NEW q, NEW S, NEW cur, NEW w, NEW G, NEW b, NEW new, Turn(q, S, cur, w, G, b, new),
         \A s \in S : w[s] \in Nat, Shortfall(q, S, cur, SumAlong(q, w))
  PROVE  Shortfall(q, S, new, SumAlong(q, w))
<1> DEFINE T == SumAlong(q, w)
<1> SUFFICES ASSUME NEW A \in SUBSET S PROVE Part(q, S, new, A) <= Bound(q, T, Size(q, S, A))
  BY Zenon DEF Shortfall
<1> DEFINE k == Size(q, S, A)
           old == Part(q, S, cur, A)
           gain == Part(q, S, w, A)
           got == Part(q, S, G, A)
<1>01. Lists1(q, S) /\ b \in S /\ \A s \in S : cur[s] \in Int /\ w[s] \in Int
  BY Zenon DEF Turn
<1>02. \A s \in S : G[s] \in Int /\ G[s] <= G[b]
  BY DEF Turn
<1>03. Len(q) \in Nat
  BY <1>01, Zenon DEF Lists1
<1>0. /\ Lists1(q, S) /\ b \in S /\ Len(q) \in Nat /\ \A s \in S : cur[s] \in Int /\ w[s] \in Int
      /\ \A s \in S : G[s] \in Int /\ G[s] <= G[b]
  BY <1>01, <1>02, <1>03, Zenon
<1>1. T \in Nat /\ k \in 0..Len(q)
  BY <1>0, SumsNat, Sizes, Zenon
<1>2. gain \in Nat /\ gain <= T
  BY <1>0, PartMost, Zenon
<1>3. old \in Int /\ got \in Int /\ Bound(q, T, k) \in Nat /\ old <= Bound(q, T, k)
  BY <1>0, <1>1, PartType, Bounds, Zenon DEF Shortfall
<1>4. got = old + gain /\ Part(q, S, new, A) = IF b \in A THEN got - T ELSE got
  BY TurnParts
<1>5. CASE b \in A
  <2> HIDE DEF T, k, old, gain, got
  <2>1. Part(q, S, new, A) <= Bound(q, T, k)
    BY <1>1, <1>2, <1>3, <1>4, <1>5
  <2> QED
    BY <2>1, Zenon DEF T, k
<1>6. CASE b \notin A
  <2> DEFINE B == A \cup {b}
             c == Bound(q, T, k + 1)
  <2>0. B \in SUBSET S
    BY <1>0, Zenon
  <2>1. Size(q, S, B) = k + 1 /\ k + 1 \in 0..Len(q)
    BY <1>0, <1>6, Sizes
  <2>2. k \in Nat /\ k < Len(q) /\ k + 1 \in 0..Len(q)
    BY <1>0, <1>1, <2>1
  <2>3. Bound(q, T, k) = (k * (c + T)) \div (k + 1) /\ c \in Nat
    <3> HIDE DEF T, k
    <3> QED
      BY <1>0, <1>1, <2>2, Bounds, Zenon
  <2>4. Part(q, S, G, B) = got + G[b]
    <3>1. b \in S \ A
      BY <1>0, <1>6, Zenon
    <3> QED
      BY <1>0, <3>1, PartWith
  <2>5. Part(q, S, G, B) = Part(q, S, cur, B) + Part(q, S, w, B)
    BY TurnParts
  <2>6. Part(q, S, cur, B) \in Int /\ Part(q, S, cur, B) <= c
    BY <1>0, <2>0, <2>1, PartType, Zenon DEF Shortfall
  <2>7. Part(q, S, w, B) \in Nat /\ Part(q, S, w, B) <= T
    BY <1>0, PartMost, Zenon
  <2>8. got <= G[b] * k
    BY <1>0, PartBound, Zenon
  <2>9. got + G[b] <= c + T /\ c + T \in Int
    <3> HIDE DEF T, k, old, gain, got, B, c
    <3> QED
      BY <1>1, <1>3, <2>3, <2>4, <2>5, <2>6, <2>7
  <2>10. got <= (k * (c + T)) \div (k + 1)
    <3> HIDE DEF T, k, old, gain, got, B, c
    <3> QED
      BY <1>0, <1>3, <2>2, <2>8, <2>9, Averages, Zenon
  <2> QED
    BY <1>4, <1>6, <2>3, <2>10, Zenon
<1> QED
  BY <1>5, <1>6, Zenon

\* Nobody gets a call ahead: the one selected had something to pay with.
LEMMA TurnSums ==
  ASSUME NEW q, NEW S, NEW cur, NEW w, NEW G, NEW b, NEW new, Turn(q, S, cur, w, G, b, new),
         SumAlong(q, cur) = 0
  PROVE  /\ SumAlong(q, new) = 0
         /\ SumAlong(q, w) > 0 => G[b] > 0
<1> DEFINE T == SumAlong(q, w)
<1>0. /\ Lists1(q, S) /\ b \in S /\ (\A s \in S : cur[s] \in Int /\ w[s] \in Int) /\ IsSum(S, cur, w, G)
      /\ \A s \in S : G[s] \in Int /\ G[s] <= G[b]
  BY DEF Turn, IsSum
<1>1. T \in Int /\ SumAlong(q, G) \in Int
  BY <1>0, SumType, Zenon
<1>2. SumAlong(q, G) = SumAlong(q, cur) + T
  BY <1>0, SumsAdd
<1>3. SumAlong(q, G) = T
  <2> HIDE DEF T
  <2> QED
    BY <1>1, <1>2
<1>4. \A s \in S : G[s] \in Int /\ new[s] = IF s = b THEN G[s] + (0 - T) ELSE G[s]
  BY <1>0, <1>1 DEF Turn
<1>5. SumAlong(q, new) = SumAlong(q, G) + (0 - T)
  <2>1. 0 - T \in Int
    BY <1>1
  <2> HIDE DEF T
  <2> QED
    BY <1>0, <1>4, <2>1, SumsGain
<1>6. ASSUME T > 0 PROVE G[b] > 0
  <2>1. PICK s \in S : G[s] > 0
    BY <1>0, <1>3, <1>6, SumsPositive, Zenon
  <2> QED
    BY <1>0, <2>1
<1> QED
  <2> HIDE DEF T
  <2>1. SumAlong(q, new) = 0
    BY <1>1, <1>3, <1>5
  <2> QED
    BY <1>6, <2>1, Zenon DEF T

-----------------------------------------------------------------------------
(* The lists that a selector makes of a map's keys *)

Keys(q, S) ==
  /\ Lists1(q, S) /\ DOMAIN q = 1..Len(q) /\ Len(q) = Cardinality(S)
  /\ q = <<>> <=> S = {}

\* An order of a finite set has each of its elements exactly once.
LEMMA OrdersAreKeys ==
  ASSUME NEW S, IsFiniteSet(S), NEW q \in Orders(S)
  PROVE  Keys(q, S)
<1> DEFINE n == Cardinality(S)
<1>1. n \in Nat
  BY FS_CardinalityType, Zenon
<1>2. q \in [1..n -> S] /\ \A x \in S : \E k \in 1..n : q[k] = x
  BY Zenon DEF Orders
<1> HIDE DEF n
<1>3. q \in Seq(S)
  BY <1>1, <1>2, SeqDef, Zenon
<1>4. Len(q) \in Nat /\ DOMAIN q = 1..Len(q) /\ DOMAIN q = 1..n
  BY <1>2, <1>3, LenProperties, Zenon
<1>5. Len(q) = n
  <2>1. \A a, b \in Nat : 1..a = 1..b => a = b
    BY ONLY TRUE
  <2>2. 1..Len(q) = 1..n
    BY <1>4, Zenon
  <2> QED
    BY <1>1, <1>4, <2>1, <2>2, Zenon
<1>6. \A j, k \in 1..n : q[j] = q[k] => j = k
  <2>1. q \in Surjection(1..n, S)
    BY <1>2, Zenon DEF Surjection
  <2>2. IsFiniteSet(1..n) /\ Cardinality(1..n) = n
    BY <1>1, FS_Interval
  <2>3. Cardinality(1..n) = Cardinality(S)
    BY <2>2, Zenon DEF n
  <2>4. q \in Injection(1..n, S)
    BY <2>1, <2>2, <2>3, FS_SurjSameCardinalityImpliesInj, Zenon
  <2> QED
    BY <2>4, Zenon DEF Injection, IsInjective
<1>7. Lists1(q, S)
  BY <1>2, <1>4, <1>5, <1>6, Zenon DEF Lists1
<1>8. ASSUME S = {} PROVE q = <<>>
  <2>1. n = 0
    BY <1>8, FS_EmptySet, Zenon DEF n
  <2> QED
    BY <1>3, <1>5, <2>1
<1>9. ASSUME q = <<>> PROVE S = {}
  <2>1. n = 0
    BY <1>5, <1>9, Zenon
  <2> QED
    BY <1>2, <2>1
<1> QED
  BY <1>4, <1>5, <1>7, <1>8, <1>9, Zenon DEF Keys, n

LEMMA OrdersExist ==
  ASSUME NEW S, IsFiniteSet(S)
  PROVE  Only(Orders(S)) \in Orders(S)
<1>1. PICK q : q \in Bijection(1..Cardinality(S), S)
  BY FS_CardinalityType, Zenon DEF ExistsBijection
<1>2. q \in Orders(S)
  BY <1>1, Zenon DEF Bijection, Surjection, Orders
<1> QED
  BY <1>2, Zenon DEF Only

\* What a list is: finitely many servers, and metadata for each.
LEMMA ListsAre ==
  ASSUME NEW list \in Lists
  PROVE  /\ DOMAIN list \subseteq Servers /\ IsFiniteSet(DOMAIN list)
         /\ list \in [DOMAIN list -> Metas]
         /\ createGeoServer(list) \subseteq DOMAIN list
<1>1. DOMAIN list \subseteq Servers /\ list \in [DOMAIN list -> Metas]
  BY Zenon DEF Lists
<1>2. IsFiniteSet(DOMAIN list)
  BY <1>1, FS_Subset, SelectorConstants, Zenon
<1>3. createGeoServer(list) \subseteq DOMAIN list
  BY Zenon DEF createGeoServer
<1> QED
  BY <1>1, <1>2, <1>3, Zenon

LEMMA FilteredIsList ==
  ASSUME NEW list \in Lists
  PROVE  filterByStateAndGroup(list) \in Lists
<1>1. DOMAIN list \subseteq Servers /\ list \in [DOMAIN list -> Metas]
  BY ListsAre, Zenon
<1> DEFINE S == {x \in DOMAIN list : list[x].shown}
<1>2. S \in SUBSET Servers /\ \A s \in S : list[s] \in Metas
  BY <1>1, Zenon
<1>3. filterByStateAndGroup(list) = [s \in S |-> list[s]]
  BY Zenon DEF filterByStateAndGroup
<1> HIDE DEF S
<1>4. filterByStateAndGroup(list) \in [S -> Metas]
  BY <1>2, <1>3, Zenon
<1> QED
  BY <1>2, <1>4, Zenon DEF Lists

\* The servers that the selector has of a list.
Taken(list) == IF mode = "Closest" THEN createGeoServer(list) ELSE DOMAIN list

LEMMA KeysOfAreKeys ==
  ASSUME NEW list \in Lists, NEW q \in KeysOf(list)
  PROVE  Keys(q, Taken(list))
<1>1. Taken(list) \subseteq DOMAIN list /\ IsFiniteSet(DOMAIN list)
  BY ListsAre, Zenon DEF Taken
<1>2. IsFiniteSet(Taken(list))
  BY <1>1, FS_Subset, Zenon
<1>3. q \in Orders(Taken(list))
  <2>1. CASE mode \in {"RoundRobin", "WeightedRoundRobin", "WeightedICMP"}
    BY <2>1, Zenon DEF KeysOf, Taken
  <2>2. CASE mode \notin {"RoundRobin", "WeightedRoundRobin", "WeightedICMP"}
    <3>1. q = Only(Orders(Taken(list)))
      BY <2>2, Zenon DEF KeysOf, Taken
    <3> QED
      BY <1>2, <3>1, OrdersExist, Zenon
  <2> QED
    BY <2>1, <2>2, Zenon
<1> QED
  BY <1>2, <1>3, OrdersAreKeys, Zenon

\* The weights are numbers; round robin's are all 1.
LEMMA WeightsAre ==
  ASSUME NEW list \in Lists, NEW w \in Weights(list)
  PROVE  w \in [DOMAIN list -> Int] /\ (mode = "RoundRobin" => \A s \in DOMAIN list : w[s] = 1)
<1>0. list \in [DOMAIN list -> Metas]
  BY ListsAre, Zenon
<1>1. CASE mode = "WeightedRoundRobin"
  <2>1. w = [s \in DOMAIN list |-> createWeighted(list, s)]
    BY <1>1, Zenon DEF Weights
  <2>2. ASSUME NEW s \in DOMAIN list PROVE createWeighted(list, s) \in Int
    <3>1. list[s].weight \subseteq Int
      BY <1>0, SelectorConstants, Zenon
    <3>2. list[s].weight # {} => Only(list[s].weight) \in list[s].weight
      BY Zenon DEF Only
    <3> QED
      BY <3>1, <3>2 DEF createWeighted
  <2> QED
    BY <1>1, <2>1, <2>2, Zenon
<1>2. CASE mode = "WeightedICMP"
  <2>1. PICK rtt \in [DOMAIN list -> Ping] : w = [s \in DOMAIN list |-> CalculateWeight(rtt[s])]
    BY <1>2, Zenon DEF Weights
  <2>2. \A r \in Ping : CalculateWeight(r) \in Int
    BY DEF Ping, CalculateWeight
  <2>3. ASSUME NEW s \in DOMAIN list PROVE CalculateWeight(rtt[s]) \in Int
    BY <2>1, <2>2, Zenon
  <2> QED
    BY <1>2, <2>1, <2>3, Zenon
<1>3. CASE mode \notin {"WeightedRoundRobin", "WeightedICMP"}
  <2>1. w = [s \in DOMAIN list |-> 1]
    BY <1>3, Zenon DEF Weights
  <2> QED
    BY <2>1
<1> QED
  BY <1>1, <1>2, <1>3, Zenon

-----------------------------------------------------------------------------
(* Best and Nearest *)

First(g, n, k) == \A m \in 1..k : g[m] <= g[n] /\ (m < n => g[m] < g[n])

LEMMA FirstGreatest ==
  ASSUME NEW N \in Nat, N # 0, NEW g, \A n \in 1..N : g[n] \in Int
  PROVE  \E n \in 1..N : First(g, n, N)
<1> DEFINE S == {k \in 0..N : k = 0 \/ \E n \in 1..k : First(g, n, k)}
<1>1. 0 \in S
  OBVIOUS
<1>2. ASSUME NEW k \in 1..N, k - 1 \in S PROVE k \in S
  <2>0. k \in 0..N /\ k \in 1..k /\ k \in Nat
    OBVIOUS
  <2>1. CASE k = 1
    <3>1. First(g, 1, 1)
      BY <2>1 DEF First
    <3> QED
      BY <2>0, <2>1, <3>1, Zenon
  <2>2. CASE k # 1
    <3>1. PICK n \in 1..(k - 1) : First(g, n, k - 1)
      BY <1>2, <2>0, <2>2
    <3>2. n \in 1..k /\ g[n] \in Int /\ g[k] \in Int
      BY <2>0
    <3>3. CASE g[n] < g[k]
      <4>1. First(g, k, k)
        BY <2>0, <3>1, <3>2, <3>3 DEF First
      <4> QED
        BY <2>0, <4>1, Zenon
    <3>4. CASE ~(g[n] < g[k])
      <4>1. First(g, n, k)
        BY <2>0, <3>1, <3>2, <3>4 DEF First
      <4> QED
        BY <2>0, <3>2, <4>1, Zenon
    <3> QED
      BY <3>3, <3>4, Zenon
  <2> QED
    BY <2>1, <2>2, Zenon
<1>3. 0..N \subseteq S
  <2> HIDE DEF S
  <2> QED
    BY <1>1, <1>2, InductionTo, Zenon
<1> QED
  BY <1>3

\* nextWeighted selects a server that has the most.
LEMMA BestIsGreatest ==
  ASSUME NEW S, Keys(ss, S), S # {}, \A s \in S : Gained[s] \in Int
  PROVE  Best \in S /\ \A s \in S : Gained[s] <= Gained[Best]
<1> DEFINE N == Len(ss)
           g == [n \in 1..N |-> Gained[ss[n]]]
           b == CHOOSE n \in DOMAIN ss :
                  \A m \in DOMAIN ss : /\ Gained[ss[m]] <= Gained[ss[n]]
                                       /\ (m < n => Gained[ss[m]] < Gained[ss[n]])
<1>1. /\ DOMAIN ss = 1..N /\ N \in Nat /\ \A n \in 1..N : ss[n] \in S
      /\ \A s \in S : \E n \in 1..N : ss[n] = s
  BY Zenon DEF Keys, Lists1
<1>2. N # 0
  BY <1>1
<1>3. \A n \in 1..N : g[n] = Gained[ss[n]] /\ g[n] \in Int
  BY <1>1, Zenon
<1>4. PICK n \in 1..N : First(g, n, N)
  <2> HIDE DEF g, N
  <2> QED
    BY <1>1, <1>2, <1>3, FirstGreatest, Zenon
<1>5. \A m \in DOMAIN ss : /\ Gained[ss[m]] <= Gained[ss[n]]
                           /\ (m < n => Gained[ss[m]] < Gained[ss[n]])
  BY <1>1, <1>3, <1>4, Zenon DEF First
<1>6. b \in 1..N /\ \A m \in 1..N : Gained[ss[m]] <= Gained[ss[b]]
  BY <1>1, <1>4, <1>5, Zenon
<1>7. Best = ss[b]
  BY Zenon DEF Best
<1> HIDE DEF b
<1> QED
  BY <1>1, <1>6, <1>7, Zenon

\* What one more server makes of the nearest so far.
Nearer(n, B) ==
  IF \A b \in B : Distance(ss[n]) < Distance(b) THEN {ss[n]}
  ELSE IF \A b \in B : Distance(ss[n]) = Distance(b) THEN B \cup {ss[n]}
  ELSE B

NearestOf(S, n, B) ==
  /\ B \subseteq S /\ (n > 0 => B # {})
  /\ \A b, d \in B : Distance(b) = Distance(d)
  /\ \A b \in B : \A m \in 1..n : Distance(b) <= Distance(ss[m])

LEMMA NearerIsNearest ==
  ASSUME NEW S, Lists1(ss, S), \A s \in S : Distance(s) \in Int,
         NEW n \in 1..Len(ss), NEW B, NearestOf(S, n - 1, B)
  PROVE  NearestOf(S, n, Nearer(n, B))
<1>0. Len(ss) \in Nat /\ n \in Nat /\ ss[n] \in S /\ \A m \in 1..n : ss[m] \in S /\ (m = n \/ m \in 1..(n - 1))
  BY DEF Lists1
<1>1. /\ B \subseteq S /\ \A b, d \in B : Distance(b) = Distance(d)
      /\ \A b \in B : \A m \in 1..(n - 1) : Distance(b) <= Distance(ss[m])
  BY Zenon DEF NearestOf
<1>2. n - 1 > 0 => B # {}
  BY Zenon DEF NearestOf
<1> DEFINE d0 == Distance(ss[n])
<1>3. CASE \A b \in B : d0 < Distance(b)
  <2>1. Nearer(n, B) = {ss[n]}
    BY <1>3, Zenon DEF Nearer
  <2>2. ASSUME NEW m \in 1..n PROVE d0 <= Distance(ss[m])
    <3>1. CASE m = n
      BY <1>0, <3>1
    <3>2. CASE m # n
      <4>1. m \in 1..(n - 1) /\ B # {}
        BY <1>0, <1>2, <3>2
      <4>2. PICK b \in B : TRUE
        BY <4>1, Zenon
      <4> QED
        BY <1>0, <1>1, <1>3, <4>1, <4>2
    <3> QED
      BY <3>1, <3>2, Zenon
  <2> QED
    BY <1>0, <2>1, <2>2, Zenon DEF NearestOf
<1>4. CASE ~(\A b \in B : d0 < Distance(b)) /\ \A b \in B : d0 = Distance(b)
  <2>1. Nearer(n, B) = B \cup {ss[n]} /\ B # {}
    BY <1>4, Zenon DEF Nearer
  <2>2. ASSUME NEW b \in B \cup {ss[n]} PROVE b \in S /\ Distance(b) = d0
    BY <1>0, <1>1, <1>4, Zenon
  <2>3. PICK b0 \in B : Distance(b0) = d0
    BY <1>4, <2>1, Zenon
  <2>4. ASSUME NEW m \in 1..n PROVE d0 <= Distance(ss[m])
    BY <1>0, <1>1, <2>3
  <2>5. B \cup {ss[n]} # {} /\ \A b \in B \cup {ss[n]} : \A m \in 1..n : Distance(b) <= Distance(ss[m])
    BY <2>1, <2>2, <2>4, Zenon
  <2> QED
    BY <2>1, <2>2, <2>5, Zenon DEF NearestOf
<1>5. CASE ~(\A b \in B : d0 < Distance(b)) /\ ~(\A b \in B : d0 = Distance(b))
  <2>1. Nearer(n, B) = B /\ B # {}
    BY <1>5, Zenon DEF Nearer
  <2>2. PICK b0 \in B : ~(d0 < Distance(b0))
    BY <1>5, Zenon
  <2>3. ASSUME NEW b \in B, NEW m \in 1..n PROVE Distance(b) <= Distance(ss[m])
    <3>1. b \in S /\ b0 \in S /\ Distance(b) = Distance(b0)
      BY <1>1, Zenon
    <3>2. Distance(b) <= d0
      BY <1>0, <2>2, <3>1
    <3> QED
      BY <1>0, <1>1, <3>2, Zenon
  <2> QED
    BY <1>1, <2>1, <2>3, Zenon DEF NearestOf
<1> QED
  BY <1>3, <1>4, <1>5, Zenon

\* Closest selects among servers than which none is nearer.
LEMMA NearestIsNearest ==
  ASSUME NEW S, Lists1(ss, S), \A s \in S : Distance(s) \in Int
  PROVE  /\ Nearest \subseteq S /\ (S # {} => Nearest # {})
         /\ \A b \in Nearest : \A s \in S : Distance(b) <= Distance(s)
<1> DEFINE N == Len(ss)
           V == SUBSET S
           F == [n \in 1..N |-> [B \in V |-> Nearer(n, B)]]
           Values(g) == [n \in 0..N |-> IF n = 0 THEN {} ELSE Nearer(n, g[n - 1])]
           h == CHOOSE x : x = Values(x)
<1>0. N \in Nat /\ (\A n \in 1..N : ss[n] \in S) /\ \A s \in S : \E n \in 1..N : ss[n] = s
  BY Zenon DEF Lists1
<1>1. Nearest = h[N]
  BY Zenon DEF Nearest, Nearer
<1>2. ASSUME NEW n \in 1..N, NEW B \in V PROVE Nearer(n, B) \in V
  BY <1>0, Zenon DEF Nearer
<1>3. F \in [1..N -> [V -> V]] /\ {} \in V
  BY <1>2, Zenon
<1>4. \E g : Follows(g, N, V, {}, F)
  <2> HIDE DEF F, N, V
  <2> QED
    BY <1>0, <1>3, RecursiveExists, Zenon
<1>5. PICK g : g \in [0..N -> V] /\ g[0] = {} /\ \A n \in 1..N : g[n] = F[n][g[n - 1]]
  BY <1>4, Zenon DEF Follows
<1>6. ASSUME NEW n \in 1..N PROVE g[n] = Nearer(n, g[n - 1])
  <2>1. n - 1 \in 0..N
    BY <1>0
  <2>2. g[n - 1] \in V
    BY <1>5, <2>1, Zenon
  <2>3. F[n][g[n - 1]] = Nearer(n, g[n - 1])
    BY <2>2, Zenon
  <2> QED
    BY <1>5, <2>3, Zenon
<1>7. g = Values(g)
  <2> HIDE DEF F
  <2> QED
    BY <1>5, <1>6
<1>8. h = Values(h)
  BY <1>7, Zenon
<1> HIDE DEF h, F
<1>9. h[0] = {} /\ \A n \in 1..N : h[n] = Nearer(n, h[n - 1])
  <2>1. 0 \in 0..N /\ \A n \in 1..N : n \in 0..N /\ n # 0
    BY <1>0
  <2>2. \A n \in 0..N : Values(h)[n] = IF n = 0 THEN {} ELSE Nearer(n, h[n - 1])
    BY Zenon
  <2>3. \A n \in 0..N : h[n] = IF n = 0 THEN {} ELSE Nearer(n, h[n - 1])
    BY <1>8, <2>2, Zenon
  <2> QED
    BY <2>1, <2>3, Zenon
<1>10. NearestOf(S, N, h[N])
  <2> DEFINE E == {n \in 0..N : NearestOf(S, n, h[n])}
  <2>1. 0 \in E
    BY <1>0, <1>9 DEF NearestOf
  <2>2. ASSUME NEW n \in 1..N, n - 1 \in E PROVE n \in E
    <3>1. NearestOf(S, n - 1, h[n - 1]) /\ n \in 0..N
      BY <1>0, <2>2
    <3>0. NearestOf(S, n, Nearer(n, h[n - 1]))
      BY <3>1, NearerIsNearest, Zenon
    <3>2. NearestOf(S, n, h[n])
      BY <1>9, <3>0, Zenon
    <3> QED
      BY <3>1, <3>2, Zenon
  <2>3. 0..N \subseteq E
    <3> HIDE DEF E, N
    <3> QED
      BY <1>0, <2>1, <2>2, InductionTo, Zenon
  <2>4. N \in 0..N
    BY <1>0
  <2> QED
    BY <2>3, <2>4, Zenon
<1>11. S # {} => N > 0
  BY <1>0
<1> QED
  BY <1>0, <1>1, <1>10, <1>11, Zenon DEF NearestOf

-----------------------------------------------------------------------------
(* Round robin *)

\* From p on, going round, j comes no later than k.
Before(p, j, k) == IF p <= j THEN j <= k \/ k < p ELSE j <= k /\ k < p

\* The servers that come next have no more calls than those that come later, and
\* nobody has two more than another.
Lap(q, c, p) ==
  \A j, k \in 1..Len(q) : /\ c[q[j]] <= c[q[k]] + 1
                          /\ Before(p, j, k) => c[q[j]] <= c[q[k]]

After(p, n) == IF p < n THEN p + 1 ELSE 1

LEMMA LapStep ==
  ASSUME NEW q, NEW S, Lists1(q, S), NEW c, NEW d, NEW p \in 1..Len(q), Lap(q, c, p),
         \A s \in S : c[s] \in Nat, \A s \in S : d[s] = IF s = q[p] THEN c[s] + 1 ELSE c[s]
  PROVE  Lap(q, d, After(p, Len(q)))
<1> DEFINE n == Len(q)
           C == [j \in 1..n |-> c[q[j]]]
           D == [j \in 1..n |-> d[q[j]]]
<1>1. n \in Nat /\ (\A j \in 1..n : q[j] \in S) /\ \A j, k \in 1..n : q[j] = q[k] => j = k
  BY Zenon DEF Lists1
<1>2. \A j \in 1..n : C[j] \in Nat /\ D[j] = IF j = p THEN C[j] + 1 ELSE C[j]
  BY <1>1, Zenon
<1>3. \A j, k \in 1..n : C[j] <= C[k] + 1 /\ (Before(p, j, k) => C[j] <= C[k])
  BY Zenon DEF Lap
<1>4. p \in 1..n
  BY Zenon
<1>5. ASSUME NEW j \in 1..n, NEW k \in 1..n
      PROVE  D[j] <= D[k] + 1 /\ (Before(After(p, n), j, k) => D[j] <= D[k])
  <2> HIDE DEF n, C, D
  <2>1. Before(p, p, k) /\ (j # p /\ k # p => (Before(After(p, n), j, k) => Before(p, j, k)))
    BY <1>1, <1>4 DEF Before, After
  <2>2. j = p /\ k # p => ~Before(After(p, n), j, k)
    BY <1>1, <1>4 DEF Before, After
  <2>3. /\ C[j] \in Nat /\ C[k] \in Nat /\ C[p] \in Nat /\ C[p] <= C[k] /\ C[j] <= C[k] + 1 /\ C[j] <= C[p] + 1
        /\ Before(p, j, k) => C[j] <= C[k]
    BY <1>2, <1>3, <1>4, <2>1, Zenon
  <2>4. D[j] = (IF j = p THEN C[j] + 1 ELSE C[j]) /\ D[k] = (IF k = p THEN C[k] + 1 ELSE C[k])
    BY <1>2, Zenon
  <2> QED
    BY <2>1, <2>2, <2>3, <2>4
<1>6. \A j \in 1..n : D[j] = d[q[j]]
  BY Zenon
<1> HIDE DEF C, D
<1> QED
  BY <1>5, <1>6, Zenon DEF Lap

\* With equal weights, and nobody two calls ahead of another, everybody is less
\* than one call off their share.
LEMMA LapShare ==
  ASSUME NEW q, NEW S, Lists1(q, S), NEW c, \A s \in S : c[s] \in Nat, NEW x \in S,
         \A s, t \in S : c[s] <= c[t] + 1
  PROVE  /\ c[x] * Len(q) - SumAlong(q, c) < Len(q)
         /\ SumAlong(q, c) - c[x] * Len(q) < Len(q)
<1> DEFINE n == Len(q)
           P == SumAlong(q, c)
           o == Ones(S)
           Flat(k) == [s \in S |-> k * o[s]]
           Bent(k, e) == [s \in S |-> IF s = x THEN k + e ELSE k]
<1>01. n \in Nat /\ c[x] \in Nat /\ \A s \in S : c[s] \in Int
  BY DEF Lists1
<1>02. P \in Int
  BY <1>01, SumType, Zenon
<1>03. SumAlong(q, o) = n
  BY SizeAll, Zenon
<1>0. n \in Nat /\ P \in Int /\ SumAlong(q, o) = n /\ c[x] \in Nat
  BY <1>01, <1>02, <1>03, Zenon
<1>1. ASSUME NEW k \in Int, NEW e \in Int
      PROVE  SumAlong(q, Bent(k, e)) = k * n + e
  <2>1. IsMultiple(S, k, o, Flat(k))
    BY OnesType, Zenon DEF IsMultiple
  <2>2. SumAlong(q, Flat(k)) = k * SumAlong(q, o)
    <3> HIDE DEF o, Flat
    <3> QED
      BY <2>1, SumsScale
  <2>3. \A s \in S : Flat(k)[s] \in Int /\ Bent(k, e)[s] = IF s = x THEN Flat(k)[s] + e ELSE Flat(k)[s]
    BY OnesType
  <2>4. SumAlong(q, Bent(k, e)) = SumAlong(q, Flat(k)) + e
    <3> HIDE DEF o, Flat, Bent
    <3> QED
      BY <2>3, SumsGain
  <2> HIDE DEF n, o, Flat, Bent
  <2> QED
    BY <1>0, <2>2, <2>4, Zenon
<1>2. SumAlong(q, Bent(c[x] - 1, 1)) <= P
  <2>1. \A s \in S : Bent(c[x] - 1, 1)[s] \in Int /\ c[s] \in Int /\ Bent(c[x] - 1, 1)[s] <= c[s]
    BY <1>0
  <2> HIDE DEF Bent
  <2> QED
    BY <2>1, SumsOrder, Zenon
<1>3. P <= SumAlong(q, Bent(c[x] + 1, -1))
  <2>1. \A s \in S : Bent(c[x] + 1, -1)[s] \in Int /\ c[s] \in Int /\ c[s] <= Bent(c[x] + 1, -1)[s]
    BY <1>0
  <2> HIDE DEF Bent
  <2> QED
    BY <2>1, SumsOrder, Zenon
<1>4. (c[x] - 1) * n + 1 <= P /\ P <= (c[x] + 1) * n + (-1)
  <2>1. c[x] - 1 \in Int /\ c[x] + 1 \in Int /\ 1 \in Int /\ -1 \in Int
    BY <1>0
  <2> HIDE DEF n, P, Bent
  <2> QED
    BY <1>1, <1>2, <1>3, <2>1, Zenon
<1>5. \A a, m, p \in Int : ((a - 1) * m + 1 <= p /\ p <= (a + 1) * m + (-1)) => (a * m - p < m /\ p - a * m < m)
  BY ONLY TRUE
<1> HIDE DEF n, P
<1>6. c[x] * n - P < n /\ P - c[x] * n < n
  BY <1>0, <1>4, <1>5
<1> QED
  BY <1>6, Zenon DEF n, P

-----------------------------------------------------------------------------
(* What the weighted selectors owe each server *)

\* What a server has is what its share of the calls is worth less what it paid;
\* with weights that make sense, no server is a call ahead, and no set of servers
\* is further behind than Short.
Account(q, S, w, cur, c) ==
  /\ \A s \in S : cur[s] = SumAlong(q, c) * w[s] - c[s] * SumAlong(q, w)
  /\ SumAlong(q, cur) = 0
  /\ (SumAlong(q, w) > 0 /\ \A s \in S : w[s] >= 0) =>
        /\ \A s \in S : -SumAlong(q, w) < cur[s]
        /\ Shortfall(q, S, cur, SumAlong(q, w))

LEMMA AccountOpens ==
  ASSUME NEW q, NEW S, Lists1(q, S), NEW w, NEW cur, NEW c,
         \A s \in S : w[s] \in Int, \A s \in S : cur[s] = 0, \A s \in S : c[s] = 0
  PROVE  Account(q, S, w, cur, c)
<1> DEFINE T == SumAlong(q, w)
<1>1. SumAlong(q, cur) = 0 /\ SumAlong(q, c) = 0 /\ T \in Int
  BY SumsZero, SumType, Zenon
<1>2. \A s \in S : cur[s] = SumAlong(q, c) * w[s] - c[s] * T
  <2> HIDE DEF T
  <2> QED
    BY <1>1
<1>3. ASSUME T > 0, NEW A \in SUBSET S PROVE Part(q, S, cur, A) <= Bound(q, T, Size(q, S, A))
  <2>1. \A s \in S : Only0(S, cur, A)[s] = 0
    BY Zenon DEF Only0
  <2>2. Part(q, S, cur, A) = 0
    BY <2>1, SumsZero, Zenon DEF Part
  <2>3. T \in Nat /\ Size(q, S, A) \in 0..Len(q)
    BY <1>1, <1>3, Sizes
  <2>4. Bound(q, T, Size(q, S, A)) \in Nat
    <3>1. Len(q) \in Nat
      BY Zenon DEF Lists1
    <3> HIDE DEF T
    <3> QED
      BY <2>3, <3>1, Bounds, Zenon
  <2> HIDE DEF T
  <2> QED
    BY <2>2, <2>4
<1>4. T > 0 => Shortfall(q, S, cur, T)
  BY <1>3, Zenon DEF Shortfall
<1>5. T > 0 => \A s \in S : -T < cur[s]
  <2> HIDE DEF T
  <2> QED
    BY <1>1
<1> QED
  BY <1>1, <1>2, <1>4, <1>5, Zenon DEF Account

LEMMA AccountKept ==
  ASSUME NEW q, NEW S, NEW cur, NEW w, NEW G, NEW b, NEW new, Turn(q, S, cur, w, G, b, new),
         NEW c, NEW d, \A s \in S : c[s] \in Nat, \A s \in S : d[s] = IF s = b THEN c[s] + 1 ELSE c[s],
         Account(q, S, w, cur, c)
  PROVE  Account(q, S, w, new, d)
<1> DEFINE T == SumAlong(q, w)
           P == SumAlong(q, c)
<1>0. /\ Lists1(q, S) /\ b \in S /\ \A s \in S : cur[s] \in Int /\ w[s] \in Int
      /\ \A s \in S : G[s] = cur[s] + w[s] /\ new[s] = IF s = b THEN G[s] - T ELSE G[s]
  BY Zenon DEF Turn
<1>1. T \in Int /\ P \in Int /\ \A s \in S : c[s] \in Int
  BY <1>0, SumType
<1>2. SumAlong(q, d) = P + 1
  <2>1. 1 \in Int /\ \A s \in S : c[s] \in Int /\ d[s] = IF s = b THEN c[s] + 1 ELSE c[s]
    BY <1>1
  <2> QED
    BY <1>0, <2>1, SumsGain
<1>3. SumAlong(q, cur) = 0 /\ \A s \in S : cur[s] = P * w[s] - c[s] * T
  BY Zenon DEF Account
<1>4. \A s \in S : new[s] = SumAlong(q, d) * w[s] - d[s] * T
  <2> SUFFICES ASSUME NEW s \in S PROVE new[s] = SumAlong(q, d) * w[s] - d[s] * T
    BY Zenon
  <2>1. w[s] \in Int /\ c[s] \in Int /\ G[s] = (P * w[s] - c[s] * T) + w[s]
    BY <1>0, <1>1, <1>3, Zenon
  <2>2. G[s] = (P + 1) * w[s] - c[s] * T /\ G[s] - T = (P + 1) * w[s] - (c[s] + 1) * T
    <3> DEFINE v == w[s]
               k == c[s]
               g == G[s]
    <3>1. P \in Int /\ v \in Int /\ k \in Int /\ T \in Int /\ g = (P * v - k * T) + v
      BY <1>1, <2>1, Zenon
    <3> HIDE DEF v, k, g, P, T
    <3>2. g = (P + 1) * v - k * T /\ g - T = (P + 1) * v - (k + 1) * T
      BY ONLY <3>1
    <3> QED
      BY <3>2, Zenon DEF v, k, g
  <2>3. CASE s = b
    <3>1. new[s] = G[s] - T /\ d[s] = c[s] + 1
      BY <1>0, <2>3, Zenon
    <3> HIDE DEF T, P
    <3>2. G[s] - T = (P + 1) * w[s] - (c[s] + 1) * T
      BY <2>2, Zenon
    <3> QED
      BY <1>2, <3>1, <3>2, Zenon
  <2>4. CASE s # b
    <3>1. new[s] = G[s] /\ d[s] = c[s]
      BY <1>0, <2>4, Zenon
    <3> HIDE DEF T, P
    <3>2. G[s] = (P + 1) * w[s] - c[s] * T
      BY <2>2, Zenon
    <3> QED
      BY <1>2, <3>1, <3>2, Zenon
  <2> QED
    BY <2>3, <2>4, Zenon
<1>5. SumAlong(q, new) = 0 /\ (T > 0 => G[b] > 0)
  BY <1>3, TurnSums, Zenon
<1>6. ASSUME T > 0, \A s \in S : w[s] >= 0
      PROVE  (\A s \in S : -T < new[s]) /\ Shortfall(q, S, new, T)
  <2>1. (\A s \in S : -T < cur[s]) /\ Shortfall(q, S, cur, T)
    BY <1>6, Zenon DEF Account
  <2>2. \A s \in S : w[s] \in Nat
    BY <1>0, <1>6
  <2>3. Shortfall(q, S, new, T)
    BY <2>1, <2>2, ShortfallKept, Zenon
  <2>4. ASSUME NEW s \in S PROVE -T < new[s]
    <3>1. cur[s] \in Int /\ w[s] \in Nat /\ -T < cur[s] /\ G[s] = cur[s] + w[s] /\ (s = b => G[s] > 0)
      BY <1>0, <1>5, <1>6, <2>1, <2>2, Zenon
    <3>2. new[s] = IF s = b THEN G[s] - T ELSE G[s]
      BY <1>0, Zenon
    <3> HIDE DEF T
    <3> QED
      BY <1>1, <1>6, <3>1, <3>2
  <2> QED
    BY <2>3, <2>4, Zenon
<1> QED
  BY <1>4, <1>5, <1>6, Zenon DEF Account

-----------------------------------------------------------------------------
(* The invariant *)

Weighing == mode \in {"WeightedRoundRobin", "WeightedICMP"}

TypeInv ==
  /\ mode \in Modes /\ updates \in 0..(MaxUpdates + 1) /\ i \in 0..Cardinality(Servers)
  /\ servers \in Lists /\ Keys(ss, Taken(servers))
  /\ weight \in [Listed -> Int] /\ current \in [Listed -> Int] /\ count \in [Listed -> Nat]

\* What the ring lacks stayed with empty metadata.
RingInv == ring \subseteq Listed /\ \A s \in Listed \ ring : servers[s].empty /\ updates > 1

PickedInv ==
  picked # None =>
    /\ picked \in Taken(servers)
    /\ mode = "Closest" => \A s \in Taken(servers) : Distance(picked) <= Distance(s)

WeightedInv == Weighing => Account(ss, Listed, weight, current, count)

RoundInv ==
  mode = "RoundRobin" => (\A s \in Listed : weight[s] = 1) /\ Lap(ss, count, (i % Len(ss)) + 1)

IInv == TypeInv /\ RingInv /\ PickedInv /\ WeightedInv /\ RoundInv

\* A list is put in force.
LEMMA InForceInv ==
  ASSUME NEW l \in Lists, InForce(l), UNCHANGED <<mode, i>>,
         mode \in Modes, i \in 0..Cardinality(Servers), updates' \in 0..(MaxUpdates + 1)
  PROVE  TypeInv' /\ PickedInv' /\ WeightedInv' /\ RoundInv'
<1> DEFINE D == DOMAIN l
<1>1. /\ servers' = l /\ ss' \in KeysOf(l) /\ weight' \in Weights(l) /\ picked' = None
      /\ current' = [s \in D |-> 0] /\ count' = [s \in D |-> 0] /\ mode' = mode /\ i' = i
  BY Zenon DEF InForce
<1>2. Listed' = D /\ Taken(servers)' = Taken(l)
  BY <1>1, Zenon DEF Listed, Taken
<1>3. Keys(ss', Taken(l))
  BY <1>1, KeysOfAreKeys, Zenon
<1>4. weight' \in [D -> Int] /\ (mode = "RoundRobin" => \A s \in D : weight'[s] = 1)
  BY <1>1, WeightsAre, Zenon
<1>5. current' \in [D -> Int] /\ count' \in [D -> Nat] /\ \A s \in D : current'[s] = 0 /\ count'[s] = 0
  BY <1>1
<1>6. TypeInv'
  BY <1>1, <1>2, <1>3, <1>4, <1>5, Zenon DEF TypeInv
<1>7. PickedInv'
  BY <1>1, Zenon DEF PickedInv
<1>8. WeightedInv'
  <2>1. ASSUME Weighing PROVE Account(ss', D, weight', current', count')
    <3>1. Taken(l) = D
      BY <2>1, Zenon DEF Weighing, Taken
    <3>2. Lists1(ss', D)
      BY <1>3, <3>1, Zenon DEF Keys
    <3>3. \A s \in D : weight'[s] \in Int
      BY <1>4, Zenon
    <3> HIDE DEF D
    <3> QED
      BY <1>5, <3>2, <3>3, AccountOpens, Zenon
  <2>2. Weighing' => Weighing
    BY <1>1, Zenon DEF Weighing
  <2> QED
    BY <1>2, <2>1, <2>2, Zenon DEF WeightedInv
<1>9. RoundInv'
  <2>1. ASSUME mode = "RoundRobin" PROVE Lap(ss', count', (i' % Len(ss')) + 1)
    <3>1. Taken(l) = D
      BY <2>1, Zenon DEF Taken
    <3>2. \A j \in 1..Len(ss') : count'[ss'[j]] = 0
      BY <1>3, <1>5, <3>1, Zenon DEF Keys, Lists1
    <3>3. 0 <= 0 + 1 /\ 0 <= 0
      OBVIOUS
    <3> QED
      BY <3>2, <3>3, Zenon DEF Lap
  <2> QED
    BY <1>1, <1>2, <1>4, <2>1, Zenon DEF RoundInv
<1> QED
  BY <1>6, <1>7, <1>8, <1>9, Zenon

\* A selection that names s.
LEMMA PickEffect ==
  ASSUME TypeInv, NEW s \in Listed, Pick(s)
  PROVE  /\ picked' = s /\ UNCHANGED <<mode, servers, ss, weight, ring, updates>>
         /\ count' \in [Listed -> Nat] /\ \A t \in Listed : count'[t] = IF t = s THEN count[t] + 1 ELSE count[t]
<1>1. servers \in Lists /\ count \in [Listed -> Nat]
  BY Zenon DEF TypeInv
<1>2. s # None
  BY <1>1, ListsAre, SelectorConstants, Zenon DEF Listed
<1>3. picked' = s /\ UNCHANGED <<mode, servers, ss, weight, ring, updates>> /\ count' = [count EXCEPT ![s] = @ + 1]
  BY <1>2, Zenon DEF Pick
<1> QED
  BY <1>1, <1>3

\* What a selection leaves alone.
LEMMA SelectKeeps ==
  ASSUME TypeInv, RingInv, UNCHANGED <<mode, servers, ss, weight, ring, updates>>,
         i' \in 0..Cardinality(Servers), current' \in [Listed -> Int], count' \in [Listed -> Nat]
  PROVE  TypeInv' /\ RingInv' /\ Listed' = Listed /\ Taken(servers)' = Taken(servers)
<1>1. Listed' = Listed /\ Taken(servers)' = Taken(servers)
  BY Zenon DEF Listed, Taken
<1>2. TypeInv'
  BY <1>1, Zenon DEF TypeInv
<1>3. RingInv'
  BY <1>1, Zenon DEF RingInv
<1> QED
  BY <1>1, <1>2, <1>3, Zenon

LEMMA SelectsNone ==
  ASSUME IInv, Pick(None), UNCHANGED <<i, current>>
  PROVE  IInv'
<1>1. /\ UNCHANGED <<mode, servers, ss, weight, ring, updates, i, current, count>> /\ picked' = None
  BY Zenon DEF Pick
<1>2. /\ TypeInv /\ RingInv /\ WeightedInv /\ RoundInv
      /\ i' \in 0..Cardinality(Servers) /\ current' \in [Listed -> Int] /\ count' \in [Listed -> Nat]
  BY <1>1, Zenon DEF IInv, TypeInv
<1>3. TypeInv' /\ RingInv' /\ Listed' = Listed
  BY <1>1, <1>2, SelectKeeps, Zenon
<1>4. PickedInv'
  BY <1>1, Zenon DEF PickedInv
<1>5. WeightedInv' /\ RoundInv'
  BY <1>1, <1>2, <1>3, Zenon DEF WeightedInv, RoundInv, Weighing
<1> QED
  BY <1>3, <1>4, <1>5, Zenon DEF IInv

\* The selectors without an account of their own.
LEMMA SelectsOne ==
  ASSUME IInv, NEW s \in Taken(servers), s \in Listed, Pick(s), UNCHANGED <<i, current>>,
         ~Weighing, mode # "RoundRobin",
         mode = "Closest" => \A t \in Taken(servers) : Distance(s) <= Distance(t)
  PROVE  IInv'
<1>1. /\ UNCHANGED <<mode, servers, ss, weight, ring, updates>> /\ picked' = s /\ count' \in [Listed -> Nat]
      /\ TypeInv /\ RingInv
  BY PickEffect, Zenon DEF IInv
<1>2. i' \in 0..Cardinality(Servers) /\ current' \in [Listed -> Int]
  BY <1>1, Zenon DEF TypeInv
<1>3. TypeInv' /\ RingInv' /\ Taken(servers)' = Taken(servers)
  BY <1>1, <1>2, SelectKeeps, Zenon
<1>4. PickedInv'
  BY <1>1, <1>3, Zenon DEF PickedInv, Distance
<1>5. WeightedInv' /\ RoundInv'
  BY <1>1, Zenon DEF WeightedInv, RoundInv, Weighing
<1> QED
  BY <1>3, <1>4, <1>5, Zenon DEF IInv

LEMMA RoundRobinInv ==
  ASSUME IInv, RoundRobin
  PROVE  IInv'
<1>0. mode = "RoundRobin" /\ UNCHANGED current /\ TypeInv /\ RingInv /\ RoundInv
  BY Zenon DEF RoundRobin, IInv
<1>1. CASE ss = <<>>
  BY <1>0, <1>1, SelectsNone, Zenon DEF RoundRobin
<1>2. CASE ss # <<>>
  <2> DEFINE n == Len(ss)
             p == (i % n) + 1
  <2>1. Pick(ss[p]) /\ i' = p
    BY <1>2, Zenon DEF RoundRobin
  <2>2. /\ Taken(servers) = Listed /\ Keys(ss, Listed) /\ i \in 0..Cardinality(Servers)
        /\ servers \in Lists /\ current \in [Listed -> Int] /\ count \in [Listed -> Nat]
    BY <1>0, Zenon DEF TypeInv, Taken, Listed
  <2>3. n \in Nat /\ n # 0 /\ n = Cardinality(Listed) /\ Lists1(ss, Listed)
    <3>1. n \in Nat /\ n = Cardinality(Listed) /\ Lists1(ss, Listed) /\ DOMAIN ss = 1..n
      BY <2>2, Zenon DEF Keys, Lists1
    <3>2. Listed # {} /\ \A s \in Listed : \E k \in 1..n : ss[k] = s
      BY <1>2, <2>2, <3>1, Zenon DEF Keys, Lists1
    <3>3. n # 0
      BY <3>2
    <3> QED
      BY <3>1, <3>3, Zenon
  <2>4. i \in Nat /\ n <= Cardinality(Servers) /\ Cardinality(Servers) \in Nat
    <3>1. Cardinality(Servers) \in Nat
      BY FS_CardinalityType, SelectorConstants, Zenon
    <3>2. Listed \in SUBSET Servers
      BY <2>2, ListsAre, Zenon DEF Listed
    <3>3. Cardinality(Listed) <= Cardinality(Servers)
      BY <3>2, FS_Subset, SelectorConstants, Zenon
    <3> QED
      BY <2>2, <2>3, <3>1, <3>3
  <2> HIDE DEF n
  <2>5. p \in 1..n /\ p \in Nat
    <3>1. \A a, b \in Nat : b # 0 => a % b \in 0..(b - 1)
      BY ONLY TRUE
    <3>2. i % n \in 0..(n - 1)
      BY <2>3, <2>4, <3>1, Zenon
    <3> QED
      BY <2>3, <3>2
  <2>6. (p % n) + 1 = After(p, n)
    <3>1. \A a, b \in Nat : (a < b => a % b = a) /\ (b # 0 => b % b = 0)
      BY ONLY TRUE
    <3> HIDE DEF p
    <3>2. CASE p < n
      BY <2>3, <2>5, <3>1, <3>2, Zenon DEF After
    <3>3. CASE p = n
      BY <2>3, <2>5, <3>1, <3>3 DEF After
    <3> QED
      BY <2>3, <2>5, <3>2, <3>3
  <2>7. PICK s : s = ss[p]
    BY Zenon
  <2> HIDE DEF p
  <2>8. s \in Listed /\ Pick(s)
    BY <2>1, <2>3, <2>5, <2>7, Zenon DEF Lists1, n
  <2>9. /\ picked' = s /\ UNCHANGED <<mode, servers, ss, weight, ring, updates>>
        /\ count' \in [Listed -> Nat] /\ \A t \in Listed : count'[t] = IF t = s THEN count[t] + 1 ELSE count[t]
    BY <1>0, <2>8, PickEffect, Zenon
  <2>10. i' \in 0..Cardinality(Servers) /\ current' \in [Listed -> Int]
    BY <1>0, <2>1, <2>2, <2>3, <2>4, <2>5
  <2>11. TypeInv' /\ RingInv' /\ Listed' = Listed /\ Taken(servers)' = Taken(servers)
    BY <1>0, <2>9, <2>10, SelectKeeps, Zenon
  <2>12. Lap(ss, count', After(p, n))
    <3>1. Lap(ss, count, p)
      BY <1>0, Zenon DEF RoundInv, p, n
    <3>2. \A t \in Listed : count[t] \in Nat
      BY <2>2, Zenon
    <3>3. p \in 1..Len(ss) /\ \A t \in Listed : count'[t] = IF t = ss[p] THEN count[t] + 1 ELSE count[t]
      BY <2>5, <2>7, <2>9, Zenon DEF n
    <3>4. Lap(ss, count', After(p, Len(ss)))
      BY <2>3, <3>1, <3>2, <3>3, LapStep, Zenon
    <3> QED
      BY <3>4, Zenon DEF n
  <2>13. RoundInv'
    <3>1. Lap(ss', count', (i' % Len(ss')) + 1)
      BY <2>1, <2>6, <2>9, <2>12, Zenon DEF n
    <3> QED
      BY <1>0, <2>9, <2>11, <3>1, Zenon DEF RoundInv
  <2>14. PickedInv'
    <3>1. mode' # "Closest"
      BY <1>0, <2>9, Zenon
    <3> QED
      BY <2>2, <2>8, <2>9, <2>11, <3>1, Zenon DEF PickedInv
  <2>15. WeightedInv'
    BY <1>0, <2>9, Zenon DEF WeightedInv, Weighing
  <2> QED
    BY <2>11, <2>13, <2>14, <2>15, Zenon DEF IInv
<1> QED
  BY <1>1, <1>2, Zenon

LEMMA WeightedKeeps ==
  ASSUME IInv, Weighted
  PROVE  IInv'
<1>0. Weighing /\ UNCHANGED i /\ TypeInv /\ RingInv /\ WeightedInv
  BY Zenon DEF Weighted, Weighing, IInv
<1>1. CASE ss = <<>>
  BY <1>0, <1>1, SelectsNone, Zenon DEF Weighted
<1>2. CASE ss # <<>>
  <2>1. /\ Pick(Best) /\ current' = [Gained EXCEPT ![Best] = @ - Total]
    BY <1>2, Zenon DEF Weighted, nextWeighted
  <2>2. mode # "Closest" /\ mode # "RoundRobin"
    BY <1>0, Zenon DEF Weighing
  <2>3. /\ Taken(servers) = Listed /\ Keys(ss, Listed) /\ i \in 0..Cardinality(Servers)
        /\ weight \in [Listed -> Int] /\ current \in [Listed -> Int] /\ count \in [Listed -> Nat]
    BY <1>0, <2>2, Zenon DEF TypeInv, Taken, Listed
  <2>4. Listed # {} /\ Lists1(ss, Listed)
    BY <1>2, <2>3, Zenon DEF Keys
  <2>5. Gained \in [Listed -> Int] /\ \A s \in Listed : Gained[s] = current[s] + weight[s]
    BY <2>3 DEF Gained
  <2>6. Best \in Listed /\ \A s \in Listed : Gained[s] <= Gained[Best]
    BY <2>3, <2>4, <2>5, BestIsGreatest, Zenon
  <2>7. Total \in Int
    BY <2>3, <2>4, SumType, Zenon DEF Total
  <2>8. PICK b : b = Best
    BY Zenon
  <2>9. b \in Listed /\ Pick(b) /\ \A s \in Listed : Gained[s] <= Gained[b]
    BY <2>1, <2>6, <2>8, Zenon
  <2>10. current' \in [Listed -> Int] /\ \A s \in Listed : current'[s] = IF s = b THEN Gained[s] - Total ELSE Gained[s]
    <3>1. current' = [Gained EXCEPT ![b] = @ - Total]
      BY <2>1, <2>8, Zenon
    <3> QED
      BY <2>5, <2>7, <2>9, <3>1
  <2>11. Turn(ss, Listed, current, weight, Gained, b, current')
    BY <2>3, <2>4, <2>5, <2>9, <2>10, Zenon DEF Turn, Total
  <2>12. /\ picked' = b /\ UNCHANGED <<mode, servers, ss, weight, ring, updates>>
         /\ count' \in [Listed -> Nat] /\ \A t \in Listed : count'[t] = IF t = b THEN count[t] + 1 ELSE count[t]
    BY <1>0, <2>9, PickEffect, Zenon
  <2>13. TypeInv' /\ RingInv' /\ Listed' = Listed /\ Taken(servers)' = Taken(servers)
    BY <1>0, <2>3, <2>10, <2>12, SelectKeeps, Zenon
  <2>14. Account(ss, Listed, weight, current', count')
    <3>1. Account(ss, Listed, weight, current, count) /\ \A s \in Listed : count[s] \in Nat
      BY <1>0, <2>3, Zenon DEF WeightedInv
    <3> QED
      BY <2>11, <2>12, <3>1, AccountKept, Zenon
  <2>15. WeightedInv'
    BY <2>12, <2>13, <2>14, Zenon DEF WeightedInv
  <2>16. PickedInv' /\ RoundInv'
    BY <2>2, <2>3, <2>9, <2>12, <2>13, Zenon DEF PickedInv, RoundInv
  <2> QED
    BY <2>13, <2>15, <2>16, Zenon DEF IInv
<1> QED
  BY <1>1, <1>2, Zenon

LEMMA NewXClientInv ==
  ASSUME IInv, NewXClient
  PROVE  IInv'
<1>1. PICK list \in Lists : LET l == filterByStateAndGroup(list) IN InForce(l) /\ ring' = DOMAIN l
  BY Zenon DEF NewXClient
<1>2. PICK l \in Lists : InForce(l) /\ ring' = DOMAIN l
  BY <1>1, FilteredIsList, Zenon
<1>3. mode \in Modes /\ i \in 0..Cardinality(Servers) /\ UNCHANGED <<mode, i>> /\ updates' = 1
  BY Zenon DEF IInv, TypeInv, NewXClient
<1>4. updates' \in 0..(MaxUpdates + 1)
  BY <1>3, SelectorConstants
<1>5. TypeInv' /\ PickedInv' /\ WeightedInv' /\ RoundInv'
  BY <1>2, <1>3, <1>4, InForceInv, Zenon
<1>6. Listed' = DOMAIN l
  BY <1>2, Zenon DEF Listed, InForce
<1>7. RingInv'
  BY <1>2, <1>6, Zenon DEF RingInv
<1> QED
  BY <1>5, <1>7, Zenon DEF IInv

LEMMA watchInv ==
  ASSUME IInv, watch
  PROVE  IInv'
<1>1. PICK list \in Lists : LET l == filterByStateAndGroup(list) IN InForce(l) /\ ring' = UpdateRing(l)
  BY Zenon DEF watch
<1>2. PICK l \in Lists : InForce(l) /\ ring' = UpdateRing(l)
  BY <1>1, FilteredIsList, Zenon
<1>3. /\ mode \in Modes /\ i \in 0..Cardinality(Servers) /\ UNCHANGED <<mode, i>>
      /\ updates \in 1..MaxUpdates /\ updates' = updates + 1
  BY Zenon DEF IInv, TypeInv, watch
<1>4. updates' \in 0..(MaxUpdates + 1) /\ updates' > 1
  BY <1>3, SelectorConstants
<1>5. TypeInv' /\ PickedInv' /\ WeightedInv' /\ RoundInv'
  BY <1>2, <1>3, <1>4, InForceInv, Zenon
<1>6. servers' = l /\ Listed' = DOMAIN l
  BY <1>2, Zenon DEF Listed, InForce
<1>7. ring' = (ring \cup DOMAIN l) \ {k \in Listed : k \notin DOMAIN l \/ l[k].empty} /\ ring \subseteq Listed
  BY <1>2, Zenon DEF UpdateRing, IInv, RingInv
<1>8. \A s \in ring' : s \in DOMAIN l
  BY <1>7, Zenon
<1>9. \A s \in DOMAIN l : s \notin ring' => l[s].empty
  BY <1>7, Zenon
<1>10. RingInv'
  BY <1>4, <1>6, <1>8, <1>9, Zenon DEF RingInv
<1> QED
  BY <1>5, <1>10, Zenon DEF IInv

\* The selectors that keep no account name a server of theirs.
LEMMA OthersInv ==
  ASSUME IInv, RandomSelect \/ Closest \/ ConsistentHash
  PROVE  IInv'
<1>0. /\ mode \in {"RandomSelect", "Closest", "ConsistentHash"} /\ UNCHANGED <<i, current>>
      /\ TypeInv /\ RingInv
  BY Zenon DEF RandomSelect, Closest, ConsistentHash, IInv
<1>1. ~Weighing /\ mode # "RoundRobin"
  BY <1>0, Zenon DEF Weighing
<1>2. servers \in Lists /\ Keys(ss, Taken(servers)) /\ ring \subseteq Listed
  BY <1>0, Zenon DEF TypeInv, RingInv
<1>3. Lists1(ss, Taken(servers)) /\ DOMAIN ss = 1..Len(ss)
  BY <1>2, Zenon DEF Keys
<1>4. Taken(servers) \subseteq Listed
  BY <1>2, ListsAre, Zenon DEF Taken, Listed
<1>5. CASE Pick(None)
  BY <1>0, <1>5, SelectsNone, Zenon
<1>6. ASSUME NEW s \in Taken(servers), Pick(s),
             mode = "Closest" => \A t \in Taken(servers) : Distance(s) <= Distance(t)
      PROVE  IInv'
  BY <1>0, <1>1, <1>4, <1>6, SelectsOne, Zenon
<1>7. CASE RandomSelect
  <2>1. mode # "Closest" /\ (Pick(None) \/ \E n \in DOMAIN ss : Pick(ss[n]))
    BY <1>7, Zenon DEF RandomSelect
  <2>2. ASSUME NEW n \in DOMAIN ss, Pick(ss[n]) PROVE IInv'
    <3>1. PICK s : s = ss[n]
      BY Zenon
    <3>2. s \in Taken(servers) /\ Pick(s)
      BY <1>3, <2>2, <3>1, Zenon DEF Lists1
    <3> QED
      BY <1>6, <2>1, <3>2, Zenon
  <2> QED
    BY <1>5, <2>1, <2>2, Zenon
<1>8. CASE Closest
  <2>1. mode = "Closest" /\ (Pick(None) \/ \E s \in Nearest : Pick(s))
    BY <1>8, Zenon DEF Closest
  <2>2. Taken(servers) = createGeoServer(servers)
    BY <2>1, Zenon DEF Taken
  <2>3. ASSUME NEW s \in Taken(servers) PROVE Distance(s) \in Int
    <3>1. servers[s] \in Metas /\ servers[s].distance # {}
      BY <1>2, <2>2, ListsAre, Zenon DEF createGeoServer
    <3>2. servers[s].distance \subseteq Int
      BY <3>1, SelectorConstants, Zenon
    <3>3. Distance(s) \in servers[s].distance
      BY <3>1, Zenon DEF Distance, Only
    <3> QED
      BY <3>2, <3>3, Zenon
  <2>4. Nearest \subseteq Taken(servers) /\ \A b \in Nearest : \A s \in Taken(servers) : Distance(b) <= Distance(s)
    BY <1>3, <2>3, NearestIsNearest, Zenon
  <2> QED
    BY <1>5, <1>6, <2>1, <2>4, Zenon
<1>9. CASE ConsistentHash
  <2>1. mode # "Closest" /\ (Pick(None) \/ \E s \in ring : Pick(s))
    BY <1>9, Zenon DEF ConsistentHash
  <2>2. ring \subseteq Taken(servers)
    BY <1>2, <2>1, Zenon DEF Taken, Listed
  <2> QED
    BY <1>5, <1>6, <2>1, <2>2, Zenon
<1> QED
  BY <1>7, <1>8, <1>9, Zenon

LEMMA IInvInit == Init => IInv
<1> SUFFICES ASSUME Init PROVE IInv
  BY Zenon
<1>1. /\ servers = Empty /\ weight = Empty /\ current = Empty /\ count = Empty /\ mode \in Modes
      /\ ss = <<>> /\ i = 0 /\ ring = {} /\ picked = None /\ updates = 0
  BY Zenon DEF Init
<1>2. Listed = {} /\ Taken(servers) = {} /\ DOMAIN Empty = {}
  BY <1>1, Zenon DEF Listed, Taken, createGeoServer, Empty
<1>3. servers \in Lists
  BY <1>1 DEF Lists, Empty
<1>4. Lists1(ss, {}) /\ Keys(ss, {})
  <2>1. Len(ss) = 0 /\ DOMAIN ss = 1..Len(ss) /\ Cardinality({}) = 0
    BY <1>1, FS_EmptySet
  <2>2. Lists1(ss, {})
    BY <2>1 DEF Lists1
  <2> QED
    BY <1>1, <2>1, <2>2, Zenon DEF Keys
<1>5. Cardinality(Servers) \in Nat /\ MaxUpdates \in Nat
  BY FS_CardinalityType, SelectorConstants, Zenon
<1>6. i \in 0..Cardinality(Servers) /\ updates \in 0..(MaxUpdates + 1)
  BY <1>1, <1>5
<1>7. weight \in [{} -> Int] /\ current \in [{} -> Int] /\ count \in [{} -> Nat]
  BY <1>1, Zenon DEF Empty
<1>8. TypeInv
  BY <1>1, <1>2, <1>3, <1>4, <1>6, <1>7, Zenon DEF TypeInv
<1>9. RingInv /\ PickedInv
  BY <1>1, <1>2, Zenon DEF RingInv, PickedInv
<1>10. WeightedInv
  <2>1. Account(ss, {}, weight, current, count)
    BY <1>4, AccountOpens, Zenon
  <2> QED
    BY <1>2, <2>1, Zenon DEF WeightedInv
<1>11. RoundInv
  <2>1. \A j \in 1..Len(ss) : FALSE
    BY <1>1
  <2> QED
    BY <1>2, <2>1, Zenon DEF RoundInv, Lap
<1> QED
  BY <1>8, <1>9, <1>10, <1>11, Zenon DEF IInv

LEMMA IInvNext == IInv /\ [Next]_vars => IInv'
<1> SUFFICES ASSUME IInv, [Next]_vars PROVE IInv'
  BY Zenon
<1>1. CASE NewXClient
  BY <1>1, NewXClientInv, Zenon
<1>2. CASE watch
  BY <1>2, watchInv, Zenon
<1>3. CASE Select
  BY <1>3, RoundRobinInv, WeightedKeeps, OthersInv, Zenon DEF Select
<1>4. CASE UNCHANGED vars
  <2>1. UNCHANGED <<mode, servers, ss, weight, ring, updates, i, current, count, picked>>
    BY <1>4, Zenon DEF vars
  <2>2. TypeInv /\ RingInv /\ PickedInv /\ WeightedInv /\ RoundInv
    BY Zenon DEF IInv
  <2>3. i' \in 0..Cardinality(Servers) /\ current' \in [Listed -> Int] /\ count' \in [Listed -> Nat]
    BY <2>1, <2>2, Zenon DEF TypeInv
  <2>4. TypeInv' /\ RingInv' /\ Listed' = Listed /\ Taken(servers)' = Taken(servers)
    BY <2>1, <2>2, <2>3, SelectKeeps, Zenon
  <2>5. PickedInv' /\ WeightedInv' /\ RoundInv'
    BY <2>1, <2>2, <2>4, Zenon DEF PickedInv, WeightedInv, RoundInv, Weighing, Distance
  <2> QED
    BY <2>4, <2>5, Zenon DEF IInv
<1> QED
  BY <1>1, <1>2, <1>3, <1>4, Zenon DEF Next

LEMMA IInvAlways == Spec => []IInv
<1>1. Init => IInv
  BY IInvInit, Zenon
<1>2. IInv /\ [Next]_vars => IInv'
  BY IInvNext, Zenon
<1> QED
  BY <1>1, <1>2, PTL DEF Spec

-----------------------------------------------------------------------------
(* Theorems *)

\* The variables of the selectors keep their types; i stays within the longest
\* list although lists grow and shrink while round robin goes on from its i.
THEOREM TypeCorrect == Spec => []TypeOK
<1>1. ASSUME IInv PROVE TypeOK
  <2>0. TypeInv /\ RingInv /\ PickedInv
    BY <1>1, Zenon DEF IInv
  <2>1. /\ mode \in Modes /\ updates \in 0..(MaxUpdates + 1) /\ i \in 0..Cardinality(Servers)
        /\ servers \in Lists /\ Keys(ss, Taken(servers))
        /\ weight \in [Listed -> Int] /\ current \in [Listed -> Int] /\ count \in [Listed -> Nat]
    BY <2>0, Zenon DEF TypeInv
  <2>2. Taken(servers) \subseteq Listed /\ Listed \subseteq Servers
    BY <2>1, ListsAre, Zenon DEF Taken, Listed
  <2>3. Range(ss) \subseteq Listed
    <3>1. \A n \in DOMAIN ss : ss[n] \in Taken(servers)
      BY <2>1, Zenon DEF Keys, Lists1
    <3> QED
      BY <2>2, <3>1, Zenon DEF Range
  <2>4. ring \subseteq Servers /\ picked \in Servers \cup {None}
    BY <2>0, <2>2, Zenon DEF RingInv, PickedInv
  <2>5. DOMAIN weight = Listed /\ DOMAIN current = Listed /\ DOMAIN count = Listed
    BY <2>1, Zenon
  <2> QED
    BY <2>1, <2>3, <2>4, <2>5, Zenon DEF TypeOK
<1> QED
  BY <1>1, IInvAlways, PTL

\* For any servers, metadata and sequence of lists: a selector only names servers
\* of the list that is in force, and Closest one of the nearest.
THEOREM SelectsListed == Spec => []SelectedIsListed
<1>1. ASSUME IInv PROVE SelectedIsListed
  <2>0. TypeInv /\ RingInv /\ PickedInv
    BY <1>1, Zenon DEF IInv
  <2>1. Taken(servers) \subseteq Listed
    <3>1. servers \in Lists
      BY <2>0, Zenon DEF TypeInv
    <3> QED
      BY <3>1, ListsAre, Zenon DEF Taken, Listed
  <2>2. mode = "Closest" => Taken(servers) = createGeoServer(servers)
    BY Zenon DEF Taken
  <2> QED
    BY <2>0, <2>1, <2>2, Zenon DEF SelectedIsListed, RingInv, PickedInv
<1> QED
  BY <1>1, IInvAlways, PTL

\* With a server in the list a selector has one to name: only Closest without
\* coordinates, and ConsistentHash with nothing but servers that stayed without
\* metadata, have none.
THEOREM FindsListed == Spec => []FoundIfListed
<1>1. ASSUME IInv PROVE FoundIfListed
  <2>0. TypeInv /\ RingInv
    BY <1>1, Zenon DEF IInv
  <2> SUFFICES ASSUME Listed # {} PROVE /\ ss = <<>> => mode = "Closest" /\ createGeoServer(servers) = {}
                                        /\ (mode = "ConsistentHash" /\ ring = {}) =>
                                              updates > 1 /\ \A s \in Listed : servers[s].empty
    BY Zenon DEF FoundIfListed
  <2>1. ASSUME ss = <<>> PROVE mode = "Closest" /\ createGeoServer(servers) = {}
    <3>1. Taken(servers) = {}
      BY <2>0, <2>1, Zenon DEF TypeInv, Keys
    <3> QED
      BY <3>1, Zenon DEF Taken, Listed
  <2>2. ASSUME ring = {} PROVE updates > 1 /\ \A s \in Listed : servers[s].empty
    BY <2>0, <2>2, Zenon DEF RingInv
  <2> QED
    BY <2>1, <2>2, Zenon
<1> QED
  BY <1>1, IInvAlways, PTL

\* For any number of servers, any weights and any number of calls: at every moment
\* no server is a whole call ahead of its share, round robin leaves nobody a
\* whole call behind, and the weighted selectors nobody further than Short.
THEOREM SharesKept == Spec => []ShareKept
<1>1. ASSUME IInv PROVE ShareKept
  <2>0. TypeInv /\ WeightedInv /\ RoundInv
    BY <1>1, Zenon DEF IInv
  <2> SUFFICES ASSUME Balanced, NEW s \in Listed
               PROVE  /\ Ahead(s) < Total
                      /\ IF mode = "RoundRobin" THEN -Ahead(s) < Total
                         ELSE -Ahead(s) <= Short(Len(ss), Total)[Len(ss) - 1]
    BY Zenon DEF ShareKept
  <2>1. /\ mode \in {"RoundRobin", "WeightedRoundRobin", "WeightedICMP"} /\ Total > 0
        /\ \A t \in Listed : weight[t] >= 0
    BY Zenon DEF Balanced
  <2>2. /\ Taken(servers) = Listed /\ Keys(ss, Taken(servers)) /\ weight \in [Listed -> Int]
        /\ current \in [Listed -> Int] /\ count \in [Listed -> Nat]
    BY <2>0, <2>1, Zenon DEF TypeInv, Taken, Listed
  <2>3. Lists1(ss, Listed) /\ Len(ss) \in Nat
    BY <2>2, Zenon DEF Keys, Lists1
  <2>4. Total \in Int /\ Picks \in Int /\ count[s] \in Int /\ weight[s] \in Int
    <3>1. (\A t \in Listed : weight[t] \in Int) /\ \A t \in Listed : count[t] \in Int
      BY <2>2
    <3> QED
      BY <2>3, <3>1, SumType, Zenon DEF Total, Picks
  <2>5. CASE mode = "RoundRobin"
    <3>1. (\A t \in Listed : weight[t] = 1) /\ Lap(ss, count, (i % Len(ss)) + 1)
      BY <2>0, <2>5, Zenon DEF RoundInv
    <3>2. Total = Len(ss)
      <4>1. \A t \in Listed : weight[t] \in Int /\ Ones(Listed)[t] \in Int /\ weight[t] = Ones(Listed)[t] + 0
        BY <3>1, OnesType
      <4>2. IsSum(Listed, Ones(Listed), [t \in Listed |-> 0], weight)
        BY <4>1 DEF IsSum
      <4>3. SumAlong(ss, [t \in Listed |-> 0]) = 0
        BY <2>3, SumsZero, Zenon
      <4>4. Total = SumAlong(ss, Ones(Listed)) + SumAlong(ss, [t \in Listed |-> 0])
        BY <2>3, <4>2, SumsAdd DEF Total
      <4>5. SumAlong(ss, Ones(Listed)) = Len(ss)
        BY <2>3, SizeAll, Zenon
      <4> QED
        BY <2>3, <4>3, <4>4, <4>5
    <3>3. ASSUME NEW t \in Listed, NEW u \in Listed PROVE count[t] <= count[u] + 1
      <4>1. \A x \in Listed : \E n \in 1..Len(ss) : ss[n] = x
        BY <2>3, Zenon DEF Lists1
      <4>2. \A j, k \in 1..Len(ss) : count[ss[j]] <= count[ss[k]] + 1
        BY <3>1, Zenon DEF Lap
      <4>3. PICK j \in 1..Len(ss) : ss[j] = t
        BY <4>1, Zenon
      <4>4. PICK k \in 1..Len(ss) : ss[k] = u
        BY <4>1, Zenon
      <4> QED
        BY <4>2, <4>3, <4>4, Zenon
    <3>4. count[s] * Len(ss) - Picks < Len(ss) /\ Picks - count[s] * Len(ss) < Len(ss)
      <4>1. \A t \in Listed : count[t] \in Nat
        BY <2>2, Zenon
      <4> QED
        BY <2>3, <3>3, <4>1, LapShare, Zenon DEF Picks
    <3>5. weight[s] = 1
      BY <3>1, Zenon
    <3>6. Ahead(s) = count[s] * Len(ss) - Picks
      BY <2>4, <3>2, <3>5 DEF Ahead
    <3>7. Ahead(s) < Total /\ -Ahead(s) < Total
      <4>1. count[s] * Len(ss) \in Int
        BY <2>3, <2>4
      <4> QED
        BY <2>3, <2>4, <3>2, <3>4, <3>6, <4>1
    <3> QED
      BY <2>5, <3>7, Zenon
  <2>6. CASE mode # "RoundRobin"
    <3>1. Account(ss, Listed, weight, current, count)
      BY <2>0, <2>1, <2>6, Zenon DEF WeightedInv, Weighing
    <3>2. current[s] = Picks * weight[s] - count[s] * Total /\ -Total < current[s] /\ Shortfall(ss, Listed, current, Total)
      BY <2>1, <3>1, Zenon DEF Account, Total, Picks
    <3>3. current[s] \in Int /\ Ahead(s) = -current[s]
      <4>1. Picks * weight[s] \in Int /\ count[s] * Total \in Int
        BY <2>4
      <4> QED
        BY <3>2, <4>1 DEF Ahead
    <3>4. current[s] <= Bound(ss, Total, 1)
      <4>1. Part(ss, Listed, current, {s}) = current[s] /\ Size(ss, Listed, {s}) = 1
        BY <2>2, <2>3, PartOne, Sizes
      <4>2. {s} \in SUBSET Listed
        BY Zenon
      <4> QED
        BY <3>2, <4>1, <4>2, Zenon DEF Shortfall
    <3>5. Ahead(s) < Total /\ -Ahead(s) <= Short(Len(ss), Total)[Len(ss) - 1]
      <4>1. -Ahead(s) = current[s] /\ Ahead(s) < Total
        BY <2>4, <3>2, <3>3
      <4> QED
        BY <3>4, <4>1, Zenon DEF Bound
    <3> QED
      BY <2>6, <3>5, Zenon
  <2> QED
    BY <2>5, <2>6, Zenon
<1> QED
  BY <1>1, IInvAlways, PTL
=============================================================================
