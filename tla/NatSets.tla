------------------------------ MODULE NatSets ------------------------------
(***************************************************************************)
(* Sets of natural numbers: what the proofs need of the order of Nat.      *)
(* Stated for sets, so that a fact about every natural number is proved by *)
(* applying AllNat to the set of the numbers it holds for.                 *)
(***************************************************************************)
EXTENDS Integers, WellFoundedInduction, TLAPS

\* The order of Nat is well founded.
LEMMA NatWellFounded == IsWellFoundedOn({ss \in Nat \X Nat : ss[1] < ss[2]}, Nat)
  BY NatLessThanWellFounded DEF OpToRel

\* A set of natural numbers has a least one.
LEMMA Least ==
    ASSUME NEW T, T \subseteq Nat, T # {}
    PROVE  \E m \in T : \A n \in T : m <= n
  <1> DEFINE R == {ss \in Nat \X Nat : ss[1] < ss[2]}
  <1>1. PICK m \in T : \A n \in T : <<n, m>> \notin R
    <2> HIDE DEF R
    <2> QED BY NatWellFounded, WFMin DEF R
  <1>2. \A n \in T : ~(n < m)
    BY <1>1
  <1> QED BY <1>2

\* Induction, for a set.
LEMMA AllNat ==
    ASSUME NEW S, S \subseteq Nat, 0 \in S, \A n \in S : n + 1 \in S
    PROVE  S = Nat
  <1>1. ASSUME Nat \ S # {}
        PROVE  FALSE
    <2>1. PICK m \in Nat \ S : \A n \in Nat \ S : m <= n
      BY <1>1, Least
    <2>2. m # 0 /\ m - 1 \in Nat /\ m - 1 \in S
      BY <2>1
    <2>3. m - 1 + 1 = m
      BY <2>1
    <2> QED BY <2>1, <2>2, <2>3
  <1> QED BY <1>1

\* A bounded set of integers that is not empty has a greatest one.
LEMMA Greatest ==
    ASSUME NEW T, T \subseteq Int, T # {}, NEW b \in Int, \A n \in T : n <= b
    PROVE  \E m \in T : \A n \in T : n <= m
  <1> DEFINE D == {d \in Nat : b - d \in T}
  <1>1. PICK t \in T : TRUE
    OBVIOUS
  <1>2. b - t \in D
    BY <1>1
  <1>3. PICK d \in D : \A e \in D : d <= e
    BY <1>2, Least
  <1>4. ASSUME NEW n \in T
        PROVE  n <= b - d
    <2>1. b - n \in D
      OBVIOUS
    <2> QED BY <1>3, <2>1
  <1> QED BY <1>3, <1>4

\* Some function takes the step at every number.
Iterable(V, v0, step) ==
    \E f \in [Nat -> V] : f[0] = v0 /\ \A n \in Nat : f[n + 1] = step[<<n, f[n]>>]

\* Recursion over the numbers, for a step that is a function.
LEMMA NatRecursion ==
    ASSUME NEW V, NEW v0 \in V, NEW step \in [Nat \X V -> V]
    PROVE  Iterable(V, v0, step)
  <1> USE DEF Iterable
  <1> DEFINE Upto(n, g) == /\ g \in [0 .. n -> V]
                           /\ g[0] = v0
                           /\ \A i \in Nat : i < n => g[i + 1] = step[<<i, g[i]>>]
             S == {n \in Nat : \E g : Upto(n, g)}
  <1>1. 0 \in S
    <2>1. Upto(0, [i \in 0 .. 0 |-> v0])
      <3>1. \A i \in Nat : ~(i < 0)
        OBVIOUS
      <3> QED BY <3>1
    <2> HIDE DEF Upto
    <2> QED BY <2>1
  <1>2. ASSUME NEW n \in S
        PROVE  n + 1 \in S
    <2>1. PICK g : Upto(n, g)
      OBVIOUS
    <2> DEFINE v == step[<<n, g[n]>>]
               h == [i \in 0 .. (n + 1) |-> IF i <= n THEN g[i] ELSE v]
    <2>2. n \in Nat /\ g[n] \in V /\ v \in V
      BY <2>1
    <2>3. h \in [0 .. (n + 1) -> V] /\ h[0] = v0
      <3> HIDE DEF v
      <3> QED BY <2>1, <2>2
    <2>4. \A i \in 0 .. n : h[i] = g[i]
      BY <2>2
    <2>5. h[n + 1] = step[<<n, h[n]>>]
      <3>1. h[n + 1] = v
        <4>1. n + 1 \in 0 .. (n + 1) /\ ~(n + 1 <= n)
          BY <2>2
        <4> HIDE DEF v
        <4> QED BY <4>1
      <3>2. h[n] = g[n]
        <4>1. n \in 0 .. n
          BY <2>2
        <4> HIDE DEF h
        <4> QED BY <2>4, <4>1
      <3>3. v = step[<<n, g[n]>>]
        OBVIOUS
      <3> HIDE DEF h, v
      <3> QED BY <3>1, <3>2, <3>3
    <2>6. ASSUME NEW i \in Nat, i < n + 1
          PROVE  h[i + 1] = step[<<i, h[i]>>]
      <3> HIDE DEF h, v
      <3>1. CASE i = n
        BY <2>5, <3>1
      <3>2. CASE i < n
        <4>1. g[i + 1] = step[<<i, g[i]>>]
          BY <2>1, <3>2
        <4>2. h[i + 1] = g[i + 1] /\ h[i] = g[i]
          BY <2>2, <2>4, <3>2
        <4> QED BY <4>1, <4>2
      <3> QED BY <2>2, <2>6, <3>1, <3>2
    <2>7. Upto(n + 1, h)
      <3> HIDE DEF h
      <3> QED BY <2>3, <2>6
    <2> HIDE DEF Upto
    <2> QED BY <2>2, <2>7
  <1>3. S = Nat
    <2>1. S \subseteq Nat
      OBVIOUS
    <2> HIDE DEF S
    <2> QED BY <1>1, <1>2, <2>1, AllNat
  <1> DEFINE G == [n \in Nat |-> CHOOSE g : Upto(n, g)]
  <1>4. \A n \in Nat : Upto(n, G[n])
    <2> HIDE DEF Upto
    <2>1. \A n \in Nat : \E g : Upto(n, g)
      BY <1>3
    <2> QED BY <2>1
  <1> HIDE DEF S, G
  <1>5. ASSUME NEW n \in Nat
        PROVE  G[n][n] = G[n + 1][n]
    <2> DEFINE T == {i \in Nat : i <= n => G[n][i] = G[n + 1][i]}
    <2>1. /\ Upto(n, G[n]) /\ Upto(n + 1, G[n + 1])
      BY <1>4
    <2>2. 0 \in T
      BY <2>1
    <2>3. ASSUME NEW i \in T
          PROVE  i + 1 \in T
      <3>1. CASE i + 1 <= n
        <4>1. i \in Nat /\ i < n /\ i < n + 1
          BY <3>1
        <4>2. G[n][i + 1] = step[<<i, G[n][i]>>] /\ G[n + 1][i + 1] = step[<<i, G[n + 1][i]>>]
          BY <2>1, <4>1
        <4>3. G[n][i] = G[n + 1][i]
          BY <4>1
        <4> QED BY <4>1, <4>2, <4>3
      <3>2. CASE ~(i + 1 <= n)
        BY <3>2
      <3> QED BY <3>1, <3>2
    <2>4. T = Nat
      <3>1. T \subseteq Nat
        OBVIOUS
      <3> HIDE DEF T
      <3> QED BY <2>2, <2>3, <3>1, AllNat
    <2> QED BY <2>4
  <1> DEFINE f == [n \in Nat |-> G[n][n]]
  <1>6. \A n \in Nat : f[n] \in V
    BY <1>4
  <1>7. f[0] = v0
    BY <1>4
  <1>8. ASSUME NEW n \in Nat
        PROVE  f[n + 1] = step[<<n, f[n]>>]
    <2>1. G[n + 1][n + 1] = step[<<n, G[n + 1][n]>>]
      <3>1. Upto(n + 1, G[n + 1])
        BY <1>4
      <3> QED BY <3>1
    <2>2. f[n + 1] = G[n + 1][n + 1] /\ f[n] = G[n][n]
      OBVIOUS
    <2> HIDE DEF f
    <2> QED BY <1>5, <2>1, <2>2
  <1>9. f \in [Nat -> V]
    BY <1>6
  <1> HIDE DEF f
  <1> QED BY <1>7, <1>8, <1>9

\* The step at r looks only at members smaller than r.
LooksBelow(D, V, size, step) ==
    \A r \in D : \A f, g \in [D -> V] :
       (\A q \in D : size[q] < size[r] => f[q] = g[q]) => step[<<r, f>>] = step[<<r, g>>]

\* Some function satisfies the step at every member.
Recursive(D, V, step) == \E f \in [D -> V] : \A r \in D : f[r] = step[<<r, f>>]

\* Recursion over a set whose members have sizes: a step that looks only at
\* smaller members has a function that satisfies it everywhere.
LEMMA Recursion ==
    ASSUME NEW D, NEW V, NEW v0 \in V, NEW size \in [D -> Nat],
           NEW step \in [D \X [D -> V] -> V], LooksBelow(D, V, size, step)
    PROVE  Recursive(D, V, step)
  <1> DEFINE W == [D -> V]
             next == [x \in Nat \X W |-> [r \in D |-> step[<<r, x[2]>>]]]
  <1>1. next \in [Nat \X W -> W]
    <2>1. ASSUME NEW x \in Nat \X W
          PROVE  [r \in D |-> step[<<r, x[2]>>]] \in W
      <3>1. x[2] \in W
        OBVIOUS
      <3>2. \A r \in D : step[<<r, x[2]>>] \in V
        BY <3>1
      <3> QED BY <3>2
    <2> HIDE DEF W
    <2> QED BY <2>1, Zenon
  <1>2. \A n \in Nat : \A g \in W : \A r \in D : next[<<n, g>>][r] = step[<<r, g>>]
    OBVIOUS
  <1>3. [r \in D |-> v0] \in W
    OBVIOUS
  <1> HIDE DEF W, next
  <1>4. PICK F \in [Nat -> W] : \A n \in Nat : F[n + 1] = next[<<n, F[n]>>]
    <2>1. Iterable(W, [r \in D |-> v0], next)
      BY <1>1, <1>3, NatRecursion
    <2> QED BY <2>1 DEF Iterable
  <1>5. \A n \in Nat : \A r \in D : F[n + 1][r] = step[<<r, F[n]>>]
    <2>1. ASSUME NEW n \in Nat
          PROVE  F[n] \in W /\ F[n + 1] = next[<<n, F[n]>>]
      BY <1>4
    <2>2. ASSUME NEW n \in Nat, NEW r \in D
          PROVE  F[n + 1][r] = step[<<r, F[n]>>]
      <3>1. next[<<n, F[n]>>][r] = step[<<r, F[n]>>]
        BY <1>2, <2>1
      <3> QED BY <2>1, <3>1
    <2> QED BY <2>2
  <1>6. \A n \in Nat : F[n] \in [D -> V]
    BY <1>4 DEF W
  <1> DEFINE S == {n \in Nat : \A r \in D : size[r] < n => F[n + 1][r] = F[n][r]}
  <1>7. 0 \in S
    OBVIOUS
  <1>8. ASSUME NEW n \in S
        PROVE  n + 1 \in S
    <2>1. n \in Nat /\ n + 1 \in Nat /\ \A r \in D : size[r] < n => F[n + 1][r] = F[n][r]
      OBVIOUS
    <2>2. ASSUME NEW r \in D, size[r] < n + 1
          PROVE  F[n + 1 + 1][r] = F[n + 1][r]
      <3>1. \A q \in D : size[q] < size[r] => F[n + 1][q] = F[n][q]
        BY <2>1, <2>2
      <3>2. step[<<r, F[n + 1]>>] = step[<<r, F[n]>>]
        BY <1>6, <2>1, <3>1 DEF LooksBelow
      <3> HIDE DEF S
      <3> QED BY <1>5, <2>1, <3>2
    <2> QED BY <2>1, <2>2
  <1>9. S = Nat
    <2>1. S \subseteq Nat
      OBVIOUS
    <2> HIDE DEF S
    <2> QED BY <1>7, <1>8, <2>1, AllNat
  <1>10. \A n \in Nat : \A r \in D : size[r] < n => F[n + 1][r] = F[n][r]
    BY <1>9
  <1> HIDE DEF S
  <1>11. ASSUME NEW r \in D, NEW d \in Nat
         PROVE  F[size[r] + 1 + d][r] = F[size[r] + 1][r]
    <2> DEFINE T == {c \in Nat : F[size[r] + 1 + c][r] = F[size[r] + 1][r]}
    <2>1. 0 \in T
      OBVIOUS
    <2>2. ASSUME NEW c \in T
          PROVE  c + 1 \in T
      <3>1. size[r] + 1 + c \in Nat /\ size[r] < size[r] + 1 + c /\ size[r] + 1 + (c + 1) = size[r] + 1 + c + 1
        OBVIOUS
      <3>2. F[size[r] + 1 + c + 1][r] = F[size[r] + 1 + c][r]
        BY <1>10, <3>1
      <3> QED BY <3>1, <3>2
    <2>3. T = Nat
      <3>1. T \subseteq Nat
        OBVIOUS
      <3> HIDE DEF T
      <3> QED BY <2>1, <2>2, <3>1, AllNat
    <2> QED BY <2>3
  <1> DEFINE f == [r \in D |-> F[size[r] + 1][r]]
  <1>12. f \in [D -> V]
    <2>1. ASSUME NEW r \in D
          PROVE  F[size[r] + 1][r] \in V
      <3>1. F[size[r] + 1] \in [D -> V]
        BY <1>6
      <3> QED BY <3>1
    <2> QED BY <2>1
  <1>13. ASSUME NEW r \in D
         PROVE  f[r] = step[<<r, f>>]
    <2>1. ASSUME NEW q \in D, size[q] < size[r]
          PROVE  F[size[r]][q] = f[q]
      <3>1. PICK d \in Nat : size[r] = size[q] + 1 + d
        <4>1. size[r] - size[q] - 1 \in Nat
          BY <2>1
        <4>2. size[r] = size[q] + 1 + (size[r] - size[q] - 1)
          OBVIOUS
        <4> QED BY <4>1, <4>2
      <3> QED BY <1>11, <3>1
    <2>2. f[r] = step[<<r, F[size[r]]>>]
      BY <1>5
    <2>3. F[size[r]] \in [D -> V]
      BY <1>6
    <2> HIDE DEF f
    <2>4. step[<<r, F[size[r]]>>] = step[<<r, f>>]
      BY <1>12, <2>1, <2>3 DEF LooksBelow
    <2> QED BY <2>2, <2>4
  <1> HIDE DEF f
  <1> QED BY <1>12, <1>13 DEF Recursive
=============================================================================
