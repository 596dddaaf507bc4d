----------------------------- MODULE Recursion -----------------------------
(***************************************************************************)
(* Induction and recursion for the proofs about recursive functions: of    *)
(* the model's own (Checksum) and of the library's (FlattenSeq).           *)
(*                                                                         *)
(* The induction theorems of the library take a predicate as an operator;  *)
(* the ones here take a set in its place, which is first-order.            *)
(***************************************************************************)
EXTENDS Naturals, Sequences, WellFoundedInduction, TLAPS

Below == {p \in Nat \X Nat : p[1] < p[2]}

\* The numbers below are well founded, as a relation without operators.
LEMMA BelowWellFounded == IsWellFoundedOn(Below, Nat)
<1>1. OpToRel(<, Nat) = Below
  BY DEF OpToRel, Below
<1> QED BY <1>1, NatLessThanWellFounded, Zenon

\* Every set of numbers has a least one.
LEMMA LeastNumber ==
  ASSUME NEW T, T \subseteq Nat, T # {}
  PROVE  \E x \in T : \A y \in T : x <= y
<1>1. PICK x \in T : \A y \in T : ~ (<<y, x>> \in Below)
  BY BelowWellFounded, WFMin
<1>2. ASSUME NEW y \in T PROVE x <= y
  <2>1. y \in Nat /\ x \in Nat
    OBVIOUS
  <2>2. <<y, x>> \in Nat \X Nat /\ <<y, x>>[1] = y /\ <<y, x>>[2] = x
    BY <2>1
  <2>3. ~ (<<y, x>> \in Below)
    BY <1>1
  <2>4. ~ (y < x)
    BY <2>2, <2>3, Zenon DEF Below
  <2> QED BY <2>1, <2>4
<1> QED BY <1>2

\* Induction over the numbers, for a set in the place of a predicate.
LEMMA SetInduction ==
  ASSUME NEW T, 0 \in T, \A n \in Nat : n \in T => n + 1 \in T
  PROVE  \A n \in Nat : n \in T
<1> SUFFICES ASSUME ~ (Nat \subseteq T) PROVE FALSE
  OBVIOUS
<1> DEFINE U == Nat \ T
<1>1. PICK x \in U : \A y \in U : x <= y
  BY LeastNumber
<1>2. x # 0
  BY <1>1
<1>3. x - 1 \in Nat /\ x - 1 \notin U
  BY <1>1, <1>2
<1> QED BY <1>1, <1>3

\* The values that a recursive function on m..n takes: F[i] leads from the value
\* at i - 1 to the one at i.
Chain(g, W, c, m, n, F) ==
  g \in [m..n -> W] /\ g[m] = c /\ \A i \in (m + 1)..n : g[i] = F[i][g[i - 1]]

\* There are such values ...
LEMMA ChainExists ==
  ASSUME NEW W, NEW c \in W, NEW m \in Nat, NEW n \in Nat, m <= n,
         NEW F, \A i \in (m + 1)..n, v \in W : F[i][v] \in W
  PROVE  \E g : Chain(g, W, c, m, n, F)
<1> DEFINE T == {k \in Nat : m + k <= n => \E g : Chain(g, W, c, m, m + k, F)}
<1>1. 0 \in T
  <2> DEFINE g == [i \in m..(m + 0) |-> c]
  <2>1. Chain(g, W, c, m, m + 0, F)
    BY DEF Chain
  <2> QED BY <2>1
<1>2. ASSUME NEW k \in Nat, k \in T PROVE k + 1 \in T
  <2> SUFFICES ASSUME m + (k + 1) <= n PROVE \E g : Chain(g, W, c, m, m + (k + 1), F)
    OBVIOUS
  <2>1. PICK g : Chain(g, W, c, m, m + k, F)
    BY <1>2
  <2> DEFINE e == m + (k + 1)
             h == [i \in m..e |-> IF i = e THEN F[e][g[m + k]] ELSE g[i]]
  <2>2. e \in (m + 1)..n /\ m + k \in m..(m + k) /\ e - 1 = m + k
    OBVIOUS
  <2>3. g[m + k] \in W
    BY <2>1, <2>2 DEF Chain
  <2>4. h \in [m..e -> W]
    BY <2>1, <2>2, <2>3 DEF Chain
  <2>5. h[m] = c
    BY <2>1, <2>2 DEF Chain
  <2>6. ASSUME NEW i \in (m + 1)..e PROVE h[i] = F[i][h[i - 1]]
    <3>1. CASE i = e
      <4>1. h[e] = F[e][g[m + k]] /\ h[m + k] = g[m + k]
        BY <2>2
      <4> QED BY <2>2, <3>1, <4>1
    <3>2. CASE i # e
      <4>1. i \in (m + 1)..(m + k) /\ h[i] = g[i] /\ h[i - 1] = g[i - 1]
        BY <3>2
      <4> QED BY <2>1, <4>1 DEF Chain
    <3> QED BY <3>1, <3>2
  <2>7. Chain(h, W, c, m, e, F)
    BY <2>4, <2>5, <2>6 DEF Chain
  <2> QED BY <2>7
<1> HIDE DEF T
<1>3. \A k \in Nat : k \in T
  BY <1>1, <1>2, SetInduction
<1>4. n - m \in Nat /\ m + (n - m) = n
  OBVIOUS
<1>5. n - m \in T
  BY <1>3, <1>4
<1> QED BY <1>4, <1>5 DEF T

\* A function that satisfies the recursion as long as its values are in W is made
\* of them ...
LEMMA ChainOf ==
  ASSUME NEW W, NEW c \in W, NEW m \in Nat, NEW n \in Nat, m <= n,
         NEW F, \A i \in (m + 1)..n, v \in W : F[i][v] \in W,
         NEW f, f = [i \in m..n |-> f[i]], f[m] = c,
         \A i \in (m + 1)..n : f[i - 1] \in W => f[i] = F[i][f[i - 1]]
  PROVE  Chain(f, W, c, m, n, F)
<1> DEFINE T == {k \in Nat : m + k <= n => f[m + k] \in W}
<1>1. 0 \in T
  OBVIOUS
<1>2. ASSUME NEW k \in Nat, k \in T PROVE k + 1 \in T
  <2> SUFFICES ASSUME m + (k + 1) <= n PROVE f[m + (k + 1)] \in W
    OBVIOUS
  <2> DEFINE e == m + (k + 1)
  <2>1. f[m + k] \in W /\ e \in (m + 1)..n /\ e - 1 = m + k
    BY <1>2
  <2> HIDE DEF e
  <2>2. f[e] = F[e][f[e - 1]] /\ F[e][f[e - 1]] \in W
    BY <2>1
  <2> QED BY <2>2 DEF e
<1> HIDE DEF T
<1>3. \A k \in Nat : k \in T
  BY <1>1, <1>2, SetInduction
<1>4. ASSUME NEW i \in m..n PROVE f[i] \in W
  <2>1. i - m \in Nat /\ m + (i - m) = i
    OBVIOUS
  <2>2. i - m \in T
    BY <1>3, <2>1
  <2> QED BY <2>1, <2>2 DEF T
<1>5. f \in [m..n -> W]
  BY <1>4
<1>6. ASSUME NEW i \in (m + 1)..n PROVE f[i] = F[i][f[i - 1]]
  <2>1. i - 1 \in m..n
    OBVIOUS
  <2> QED BY <1>4, <2>1
<1> QED BY <1>5, <1>6 DEF Chain

\* ... and only one sequence of them.
LEMMA ChainUnique ==
  ASSUME NEW W, NEW c, NEW m \in Nat, NEW n \in Nat, NEW k \in Nat, NEW F, NEW g, NEW h,
         m <= n, n <= k, Chain(g, W, c, m, n, F), Chain(h, W, c, m, k, F)
  PROVE  \A i \in m..n : g[i] = h[i]
<1> DEFINE T == {j \in Nat : m + j <= n => g[m + j] = h[m + j]}
<1>1. 0 \in T
  BY DEF Chain
<1>2. ASSUME NEW j \in Nat, j \in T PROVE j + 1 \in T
  <2> SUFFICES ASSUME m + (j + 1) <= n PROVE g[m + (j + 1)] = h[m + (j + 1)]
    OBVIOUS
  <2> DEFINE e == m + (j + 1)
  <2>1. e \in (m + 1)..n /\ e \in (m + 1)..k /\ e - 1 = m + j /\ m + j <= n
    OBVIOUS
  <2>2. g[m + j] = h[m + j]
    BY <1>2, <2>1
  <2>3. g[e] = F[e][g[e - 1]] /\ h[e] = F[e][h[e - 1]]
    BY <2>1 DEF Chain
  <2> QED BY <2>1, <2>2, <2>3
<1> HIDE DEF T
<1>3. \A j \in Nat : j \in T
  BY <1>1, <1>2, SetInduction
<1>4. ASSUME NEW i \in m..n PROVE g[i] = h[i]
  <2>1. i - m \in Nat /\ m + (i - m) = i
    OBVIOUS
  <2>2. i - m \in T
    BY <1>3, <2>1
  <2> QED BY <2>1, <2>2 DEF T
<1> QED BY <1>4

\* Sequences with the same elements are the same.
LEMMA SameSeq ==
  ASSUME NEW S, NEW s \in Seq(S), NEW t \in Seq(S), Len(s) = Len(t), \A i \in 1..Len(s) : s[i] = t[i]
  PROVE  s = t
  OBVIOUS

=============================================================================
