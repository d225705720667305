------------------------------ MODULE SumProofs ------------------------------
(***************************************************************************)
(* Induction over the steps of a loop, for functions defined by recursion  *)
(* over 0..n, and what SumOf computes.                                     *)
(***************************************************************************)
EXTENDS Sums, FiniteSetTheorems, TLAPS

\* What holds before a loop and is kept by each of its steps holds after any number
\* of them; T is the set of steps after which it holds.
LEMMA LoopInduction ==
  ASSUME NEW n \in Nat, NEW T, 0 \in T, \A i \in 0..(n - 1) : i \in T => i + 1 \in T
  PROVE  \A i \in 0..n : i \in T
<1> DEFINE Fails == {i \in 0..n : i \notin T}
<1>1. SUFFICES ASSUME Fails # {} PROVE FALSE
  OBVIOUS
<1>2. Fails \subseteq Nat
  OBVIOUS
<1> DEFINE less == OpToRel(<, Nat)
<1>3. \A a, b \in Nat : a < b => <<a, b>> \in less
  BY DEF OpToRel
<1>4. IsWellFoundedOn(less, Nat)
  BY NatLessThanWellFounded
<1> HIDE DEF less
<1>5. PICK m \in Fails : \A k \in Fails : <<k, m>> \notin less
  <2> HIDE DEF Fails
  <2> QED BY <1>1, <1>2, <1>4, WFMin
<1>6. m \in 1..n /\ m - 1 \in 0..(n - 1) /\ m - 1 < m
  OBVIOUS
<1>7. m - 1 \notin Fails
  <2>1. <<m - 1, m>> \in less
    BY <1>3, <1>6
  <2> QED BY <1>5, <2>1
<1>8. m - 1 \in T
  BY <1>6, <1>7
<1>9. (m - 1) + 1 \in T
  BY <1>6, <1>8
<1>10. (m - 1) + 1 = m
  BY <1>6
<1>11. m \in T
  BY <1>9, <1>10, Zenon
<1> QED
  BY <1>11

\* f[i] is what a loop that starts with base and does step has after i steps.
Steps(n, V) == [(1..n) \X V -> V]
IsLoop(f, n, base, step) == f[0] = base /\ \A i \in 1..n : f[i] = step[<<i, f[i - 1]>>]

\* Every loop has such an f.
LEMMA LoopExists ==
  ASSUME NEW n \in Nat, NEW V, NEW base \in V, NEW step \in Steps(n, V)
  PROVE  \E f \in [0..n -> V] : IsLoop(f, n, base, step)
<1> USE DEF Steps
<1> DEFINE Is(f, k) == f \in [0..k -> V] /\ f[0] = base
                       /\ \A i \in 1..k : f[i] = step[<<i, f[i - 1]>>]
           T == {k \in 0..n : \E f \in [0..k -> V] : Is(f, k)}
<1>1. 0 \in T
  <2> DEFINE f == [i \in 0..0 |-> base]
  <2>1. Is(f, 0)
    OBVIOUS
  <2>2. \E h \in [0..0 -> V] : Is(h, 0)
    <3> HIDE DEF f
    <3> QED BY <2>1 
  <2> QED BY <2>2
<1>2. ASSUME NEW k \in 0..(n - 1), k \in T PROVE k + 1 \in T
  <2>1. PICK f \in [0..k -> V] : Is(f, k)
    BY <1>2
  <2> DEFINE g == [i \in 0..(k + 1) |-> IF i <= k THEN f[i] ELSE step[<<k + 1, f[k]>>]]
  <2>2. f[k] \in V /\ k + 1 \in 1..n
    OBVIOUS
  <2>3. step[<<k + 1, f[k]>>] \in V
    BY <2>2
  <2>4. g \in [0..(k + 1) -> V]
    BY <2>3
  <2>5. g[0] = base
    BY <2>1
  <2>6. ASSUME NEW i \in 1..(k + 1) PROVE g[i] = step[<<i, g[i - 1]>>]
    <3>1. i - 1 \in 0..k /\ g[i - 1] = f[i - 1]
      OBVIOUS
    <3>2. CASE i <= k
      <4>1. g[i] = f[i] /\ i \in 1..k
        BY <3>2
      <4> QED BY <2>1, <3>1, <4>1
    <3>3. CASE i = k + 1
      <4>1. g[i] = step[<<k + 1, f[k]>>] /\ g[i - 1] = f[k]
        BY <3>3
      <4> QED BY <3>3, <4>1
    <3> QED BY <3>2, <3>3
  <2>7. Is(g, k + 1)
    BY <2>4, <2>5, <2>6
  <2>8. \E h \in [0..(k + 1) -> V] : Is(h, k + 1)
    <3> HIDE DEF g
    <3> QED BY <2>7
  <2> QED BY <2>2, <2>8
<1>3. n \in T
  <2> HIDE DEF T
  <2>1. \A i \in 0..n : i \in T
    BY <1>1, <1>2, LoopInduction
  <2> QED BY <2>1
<1> QED
  BY <1>3 DEF IsLoop

\* What a loop that adds up integers has after each step.
LEMMA RunningIs ==
  ASSUME NEW s \in Seq(Int)
  PROVE  /\ Running(s) \in [0..Len(s) -> Int]
         /\ Running(s)[0] = 0
         /\ \A i \in 1..Len(s) : Running(s)[i] = Running(s)[i - 1] + s[i]
<1> DEFINE n == Len(s)
           Is(f) == f = [i \in 0..n |-> IF i = 0 THEN 0 ELSE f[i - 1] + s[i]]
           step == [p \in (1..n) \X Int |-> p[2] + s[p[1]]]
<1>1. n \in Nat /\ \A i \in 1..n : s[i] \in Int
  OBVIOUS
<1>2. step \in [(1..n) \X Int -> Int]
  BY <1>1
<1>3. PICK g \in [0..n -> Int] : g[0] = 0 /\ \A i \in 1..n : g[i] = step[<<i, g[i - 1]>>]
  <2> DEFINE V == Int
             base == 0
  <2>1. base \in V /\ step \in Steps(n, V)
    BY <1>2 DEF Steps
  <2> HIDE DEF step, n, V, base
  <2>2. \E f \in [0..n -> V] : IsLoop(f, n, base, step)
    BY <1>1, <2>1, LoopExists
  <2> QED BY <2>2 DEF V, base, IsLoop
<1>4. ASSUME NEW i \in 1..n PROVE step[<<i, g[i - 1]>>] = g[i - 1] + s[i]
  <2>1. i - 1 \in 0..n
    BY <1>1
  <2>2. g[i - 1] \in Int
    BY <1>3, <2>1
  <2> QED BY <2>2
<1>5. ASSUME NEW i \in 0..n PROVE g[i] = IF i = 0 THEN 0 ELSE g[i - 1] + s[i]
  <2>1. i # 0 => i \in 1..n
    BY <1>1
  <2>2. CASE i = 0
    BY <1>3, <2>2
  <2>3. CASE i # 0
    <3>1. g[i] = step[<<i, g[i - 1]>>]
      BY <1>3, <2>1, <2>3
    <3>2. g[i] = g[i - 1] + s[i]
      BY <1>4, <2>1, <2>3, <3>1
    <3> QED BY <2>3, <3>2
  <2> QED BY <2>2, <2>3
<1>6. Is(g)
  <2> HIDE DEF step
  <2> QED BY <1>3, <1>5
<1>7. Running(s) = CHOOSE f : Is(f)
  BY DEF Running
<1>8. Is(Running(s))
  <2> HIDE DEF Is
  <2> QED BY <1>6, <1>7
<1> DEFINE f == Running(s)
<1>9. f[0] = 0 /\ \A i \in 1..n : f[i] = f[i - 1] + s[i]
  <2>1. \A i \in 0..n : f[i] = IF i = 0 THEN 0 ELSE f[i - 1] + s[i]
    <3> HIDE DEF f
    <3> QED BY <1>8 DEF f
  <2> HIDE DEF f
  <2> QED BY <1>1, <2>1
<1>10. \A i \in 0..n : f[i] \in Int
  <2> HIDE DEF f, n
  <2> DEFINE T == {i \in 0..n : f[i] \in Int}
  <2>1. 0 \in T
    BY <1>1, <1>9
  <2>2. ASSUME NEW i \in 0..(n - 1), i \in T PROVE i + 1 \in T
    <3>1. i + 1 \in 1..n /\ (i + 1) - 1 = i
      BY <1>1
    <3>2. f[i + 1] = f[i] + s[i + 1]
      BY <1>9, <3>1
    <3> QED BY <1>1, <2>2, <3>1, <3>2
  <2>3. \A i \in 0..n : i \in T
    <3> HIDE DEF T
    <3> QED BY <1>1, <2>1, <2>2, LoopInduction
  <2> QED BY <2>3
<1>11. f \in [0..n -> Int]
  <2>1. f = [i \in 0..n |-> f[i]]
    <3>1. f = [i \in 0..n |-> IF i = 0 THEN 0 ELSE f[i - 1] + s[i]]
      BY <1>8
    <3> HIDE DEF f
    <3> QED BY <3>1
  <2> HIDE DEF f
  <2> QED BY <1>10, <2>1
<1> QED
  BY <1>9, <1>11

LEMMA SumType ==
  ASSUME NEW s \in Seq(Int)
  PROVE  SumOf(s) \in Int /\ (s = <<>> => SumOf(s) = 0)
<1>1. Len(s) \in 0..Len(s) /\ (s = <<>> => Len(s) = 0)
  OBVIOUS
<1> QED
  BY <1>1, RunningIs DEF SumOf

\* Of natural numbers, the sum is one and reaches every number added.
LEMMA SumNat ==
  ASSUME NEW s \in Seq(Nat)
  PROVE  SumOf(s) \in Nat /\ \A k \in 1..Len(s) : s[k] <= SumOf(s)
<1> DEFINE n == Len(s)
           f == Running(s)
<1>1. n \in Nat /\ s \in Seq(Int) /\ \A i \in 1..n : s[i] \in Nat
  OBVIOUS
<1>2. f \in [0..n -> Int] /\ f[0] = 0 /\ \A i \in 1..n : f[i] = f[i - 1] + s[i]
  BY <1>1, RunningIs
<1> HIDE DEF f, n
<1> DEFINE T == {i \in 0..n : f[i] \in Nat /\ \A k \in 1..i : s[k] <= f[i]}
<1>3. 0 \in T
  BY <1>1, <1>2
<1>4. ASSUME NEW i \in 0..(n - 1), i \in T PROVE i + 1 \in T
  <2>1. i + 1 \in 1..n /\ (i + 1) - 1 = i /\ f[i + 1] = f[i] + s[i + 1]
    BY <1>1, <1>2
  <2>2. f[i] \in Nat /\ s[i + 1] \in Nat
    BY <1>1, <1>4, <2>1
  <2>3. ASSUME NEW k \in 1..(i + 1) PROVE s[k] <= f[i + 1]
    <3>1. CASE k = i + 1
      BY <2>1, <2>2, <3>1
    <3>2. CASE k \in 1..i
      <4>1. s[k] <= f[i] /\ s[k] \in Nat
        BY <1>1, <1>4, <2>1, <3>2
      <4> QED BY <2>1, <2>2, <4>1
    <3> QED BY <3>1, <3>2
  <2> QED BY <2>1, <2>2, <2>3
<1>5. \A i \in 0..n : i \in T
  <2> HIDE DEF T
  <2> QED BY <1>1, <1>3, <1>4, LoopInduction
<1>6. f[n] \in Nat /\ \A k \in 1..n : s[k] <= f[n]
  BY <1>1, <1>5
<1> QED
  BY <1>6 DEF SumOf, f, n

\* A list changed by d in one place adds up to d more.
LEMMA SumExcept ==
  ASSUME NEW s \in Seq(Int), NEW t \in Seq(Int), Len(t) = Len(s), NEW k \in 1..Len(s), NEW d \in Int,
         \A i \in 1..Len(s) : t[i] = IF i = k THEN s[i] + d ELSE s[i]
  PROVE  SumOf(t) = SumOf(s) + d
<1> DEFINE n == Len(s)
           f == Running(s)
           g == Running(t)
<1>1. n \in Nat /\ \A i \in 1..n : s[i] \in Int
  OBVIOUS
<1>2. f \in [0..n -> Int] /\ f[0] = 0 /\ \A i \in 1..n : f[i] = f[i - 1] + s[i]
  BY RunningIs
<1>3. g \in [0..n -> Int] /\ g[0] = 0 /\ \A i \in 1..n : g[i] = g[i - 1] + t[i]
  BY RunningIs
<1>4. k \in 1..n /\ \A i \in 1..n : t[i] = IF i = k THEN s[i] + d ELSE s[i]
  OBVIOUS
<1>5. SumOf(t) = g[n] /\ SumOf(s) = f[n]
  BY DEF SumOf
<1> HIDE DEF f, g, n
<1> DEFINE T == {i \in 0..n : g[i] = f[i] + IF i < k THEN 0 ELSE d}
<1>6. 0 \in T
  BY <1>1, <1>2, <1>3, <1>4
<1>7. ASSUME NEW i \in 0..(n - 1), i \in T PROVE i + 1 \in T
  <2> DEFINE j == i + 1
  <2>2. i \in 0..n /\ j \in 0..n /\ j \in 1..n /\ j - 1 = i
    BY <1>1
  <2> HIDE DEF j
  <2>6. f[i] \in Int /\ g[i] \in Int /\ f[j] = f[i] + s[j] /\ g[j] = g[i] + t[j]
    BY <1>2, <1>3, <2>2
  <2>3. t[j] = (IF j = k THEN s[j] + d ELSE s[j]) /\ s[j] \in Int
    BY <1>1, <1>4, <2>2
  <2>4. g[i] = f[i] + IF i < k THEN 0 ELSE d
    BY <1>7
  <2>5. g[j] = f[j] + IF j < k THEN 0 ELSE d
    <3>1. j = i + 1 /\ k \in Int /\ j \in Int /\ i \in Int
      BY <1>1, <2>2 DEF j
    <3>2. CASE j < k
      <4>1. i < k /\ j # k
        BY <3>1, <3>2
      <4> QED BY <2>3, <2>4, <2>6, <3>1, <3>2, <4>1, SMTT(30)
    <3>3. CASE j = k
      <4>1. i < k /\ ~(j < k)
        BY <3>1, <3>3
      <4> QED BY <2>3, <2>4, <2>6, <3>1, <3>3, <4>1, SMTT(30)
    <3>4. CASE j > k
      <4>1. ~(i < k) /\ ~(j < k) /\ j # k
        BY <3>1, <3>4
      <4>2. t[j] = s[j] /\ g[i] = f[i] + d
        BY <2>3, <2>4, <4>1
      <4>3. PICK x, y \in Int : x = f[i] /\ y = s[j] /\ f[j] = x + y /\ g[j] = x + d + y
        BY <2>3, <2>6, <4>2
      <4>4. g[j] = f[j] + d
        BY <4>3, SMTT(30)
      <4> QED BY <4>1, <4>4
    <3> QED BY <3>1, <3>2, <3>3, <3>4
  <2> QED BY <2>2, <2>5 DEF j
<1>8. \A i \in 0..n : i \in T
  <2> HIDE DEF T
  <2> QED BY <1>1, <1>6, <1>7, LoopInduction
<1>9. g[n] = f[n] + d
  BY <1>1, <1>4, <1>8
<1> QED
  BY <1>5, <1>9

\* Lists added up place by place are added up whole.
Combined(u, a, b, c) == \A i \in 1..Len(a) : u[i] = a[i] - b[i] + c[i]

LEMMA SumLinear ==
  ASSUME NEW a \in Seq(Int), NEW b \in Seq(Int), NEW c \in Seq(Int), NEW u \in Seq(Int),
         Len(b) = Len(a), Len(c) = Len(a), Len(u) = Len(a),
         Combined(u, a, b, c)
  PROVE  SumOf(u) = SumOf(a) - SumOf(b) + SumOf(c)
<1> DEFINE n == Len(a)
           A == Running(a)
           B == Running(b)
           C == Running(c)
           U == Running(u)
<1>1. n \in Nat /\ \A i \in 1..n : a[i] \in Int /\ b[i] \in Int /\ c[i] \in Int /\ u[i] = a[i] - b[i] + c[i]
  BY DEF Combined
<1>2. A \in [0..n -> Int] /\ A[0] = 0 /\ \A i \in 1..n : A[i] = A[i - 1] + a[i]
  BY RunningIs
<1>3. B \in [0..n -> Int] /\ B[0] = 0 /\ \A i \in 1..n : B[i] = B[i - 1] + b[i]
  BY RunningIs
<1>4. C \in [0..n -> Int] /\ C[0] = 0 /\ \A i \in 1..n : C[i] = C[i - 1] + c[i]
  BY RunningIs
<1>5. U \in [0..n -> Int] /\ U[0] = 0 /\ \A i \in 1..n : U[i] = U[i - 1] + u[i]
  BY RunningIs
<1>6. SumOf(a) = A[n] /\ SumOf(b) = B[n] /\ SumOf(c) = C[n] /\ SumOf(u) = U[n]
  BY DEF SumOf
<1> HIDE DEF A, B, C, U, n
<1> DEFINE T == {i \in 0..n : U[i] = A[i] - B[i] + C[i]}
<1>7. 0 \in T
  BY <1>1, <1>2, <1>3, <1>4, <1>5
<1>8. ASSUME NEW i \in 0..(n - 1), i \in T PROVE i + 1 \in T
  <2> DEFINE j == i + 1
  <2>1. i \in 0..n /\ j \in 0..n /\ j \in 1..n /\ j - 1 = i
    BY <1>1
  <2> HIDE DEF j
  <2>2. A[i] \in Int /\ B[i] \in Int /\ C[i] \in Int /\ U[i] = A[i] - B[i] + C[i]
    BY <1>2, <1>3, <1>4, <1>8, <2>1
  <2>3. A[j] = A[i] + a[j] /\ B[j] = B[i] + b[j] /\ C[j] = C[i] + c[j] /\ U[j] = U[i] + u[j]
    BY <1>2, <1>3, <1>4, <1>5, <2>1
  <2>4. a[j] \in Int /\ b[j] \in Int /\ c[j] \in Int /\ u[j] = a[j] - b[j] + c[j]
    BY <1>1, <2>1
  <2>5. U[j] = A[j] - B[j] + C[j]
    <3>1. PICK p, q, r \in Int : A[i] = p /\ B[i] = q /\ C[i] = r
      BY <2>2
    <3>2. PICK x, y, z \in Int : a[j] = x /\ b[j] = y /\ c[j] = z
      BY <2>4
    <3>3. U[i] = p - q + r /\ u[j] = x - y + z
      BY <2>2, <2>4, <3>1, <3>2, Zenon
    <3>4. A[j] = p + x /\ B[j] = q + y /\ C[j] = r + z /\ U[j] = (p - q + r) + (x - y + z)
      BY <2>3, <3>1, <3>2, <3>3, Zenon
    <3>5. (p - q + r) + (x - y + z) = (p + x) - (q + y) + (r + z)
      OBVIOUS
    <3> QED BY <3>4, <3>5, Zenon
  <2> QED BY <2>1, <2>5 DEF j
<1>9. \A i \in 0..n : i \in T
  <2> HIDE DEF T
  <2> QED BY <1>1, <1>7, <1>8, LoopInduction
<1> QED
  BY <1>1, <1>6, <1>9

\* A number put at the end of a list is added to its sum.
LEMMA SumLast ==
  ASSUME NEW s \in Seq(Int), NEW t \in Seq(Int), Len(t) = Len(s) + 1,
         \A i \in 1..Len(s) : t[i] = s[i]
  PROVE  SumOf(t) = SumOf(s) + t[Len(t)]
<1> DEFINE n == Len(s)
           f == Running(s)
           g == Running(t)
<1>1. n \in Nat /\ Len(t) = n + 1 /\ \A i \in 1..n : t[i] = s[i]
  OBVIOUS
<1>2. f \in [0..n -> Int] /\ f[0] = 0 /\ \A i \in 1..n : f[i] = f[i - 1] + s[i]
  BY <1>1, RunningIs
<1>3. g \in [0..(n + 1) -> Int] /\ g[0] = 0 /\ \A i \in 1..(n + 1) : g[i] = g[i - 1] + t[i]
  BY <1>1, RunningIs
<1>4. SumOf(t) = g[n + 1] /\ SumOf(s) = f[n]
  BY <1>1 DEF SumOf
<1> HIDE DEF f, g, n
<1> DEFINE T == {i \in 0..n : g[i] = f[i]}
<1>5. 0 \in T
  BY <1>1, <1>2, <1>3
<1>6. ASSUME NEW i \in 0..(n - 1), i \in T PROVE i + 1 \in T
  <2>1. i + 1 \in 1..n /\ i + 1 \in 1..(n + 1) /\ (i + 1) - 1 = i
    BY <1>1
  <2>2. f[i + 1] = f[i] + s[i + 1] /\ g[i + 1] = g[i] + t[i + 1] /\ t[i + 1] = s[i + 1]
    BY <1>1, <1>2, <1>3, <2>1
  <2> QED BY <1>6, <2>1, <2>2
<1>7. \A i \in 0..n : i \in T
  <2> HIDE DEF T
  <2> QED BY <1>1, <1>5, <1>6, LoopInduction
<1>8. g[n] = f[n] /\ g[n + 1] = g[n] + t[n + 1]
  <2>1. n + 1 \in 1..(n + 1) /\ (n + 1) - 1 = n
    BY <1>1
  <2> QED BY <1>1, <1>3, <1>7, <2>1
<1> QED
  BY <1>1, <1>4, <1>8

\* A bound on each element, up to a scale, is a bound on the sum.
Scaled(p, a, q, b, c) == \A i \in 1..Len(a) : p * a[i] <= q * b[i] + c

LEMMA SumScaled ==
  ASSUME NEW a \in Seq(Int), NEW b \in Seq(Int), Len(b) = Len(a), NEW p \in Int, NEW q \in Int, NEW c \in Int,
         Scaled(p, a, q, b, c)
  PROVE  p * SumOf(a) <= q * SumOf(b) + Len(a) * c
<1> DEFINE n == Len(a)
           A == Running(a)
           B == Running(b)
<1>1. n \in Nat /\ \A i \in 1..n : a[i] \in Int /\ b[i] \in Int /\ p * a[i] <= q * b[i] + c
  BY DEF Scaled
<1>2. A \in [0..n -> Int] /\ A[0] = 0 /\ \A i \in 1..n : A[i] = A[i - 1] + a[i]
  BY RunningIs
<1>3. B \in [0..n -> Int] /\ B[0] = 0 /\ \A i \in 1..n : B[i] = B[i - 1] + b[i]
  BY RunningIs
<1>4. SumOf(a) = A[n] /\ SumOf(b) = B[n]
  BY DEF SumOf
<1> HIDE DEF A, B, n
<1> DEFINE T == {i \in 0..n : p * A[i] <= q * B[i] + i * c}
<1>5. 0 \in T
  BY <1>1, <1>2, <1>3
<1>6. ASSUME NEW i \in 0..(n - 1), i \in T PROVE i + 1 \in T
  <2> DEFINE j == i + 1
  <2>1. i \in 0..n /\ j \in 0..n /\ j \in 1..n /\ j - 1 = i
    BY <1>1
  <2> HIDE DEF j
  <2>2. A[i] \in Int /\ B[i] \in Int /\ p * A[i] <= q * B[i] + i * c
    BY <1>2, <1>3, <1>6, <2>1
  <2>3. A[j] = A[i] + a[j] /\ B[j] = B[i] + b[j]
    BY <1>2, <1>3, <2>1
  <2>4. PICK x, y, u, v \in Int : A[i] = x /\ B[i] = y /\ a[j] = u /\ b[j] = v
    BY <1>1, <2>1, <2>2
  <2>5. p * x <= q * y + i * c /\ p * u <= q * v + c
    BY <1>1, <2>1, <2>2, <2>4
  <2>6. p * (x + u) = p * x + p * u /\ q * (y + v) = q * y + q * v /\ (i + 1) * c = i * c + c
    OBVIOUS
  <2>7. p * x \in Int /\ p * u \in Int /\ q * y \in Int /\ q * v \in Int /\ i * c \in Int
    OBVIOUS
  <2>8. p * (x + u) <= q * (y + v) + (i + 1) * c
    <3>1. PICK px, pu, qy, qv, ic \in Int : px = p * x /\ pu = p * u /\ qy = q * y /\ qv = q * v /\ ic = i * c
      BY <2>7
    <3>2. px <= qy + ic /\ pu <= qv + c
      BY <2>5, <3>1
    <3>3. px + pu <= (qy + qv) + (ic + c)
      BY <3>2
    <3> QED BY <2>6, <3>1, <3>3
  <2>9. p * A[j] <= q * B[j] + j * c
    BY <2>3, <2>4, <2>8, Zenon DEF j
  <2> QED BY <2>1, <2>9 DEF j
<1>7. \A i \in 0..n : i \in T
  <2> HIDE DEF T
  <2> QED BY <1>1, <1>5, <1>6, LoopInduction
<1> QED
  BY <1>1, <1>4, <1>7 DEF n

\* Two lists added place by place.
Paired(u, a, b) == \A i \in 1..Len(a) : u[i] = a[i] + b[i]

LEMMA SumPlus ==
  ASSUME NEW a \in Seq(Int), NEW b \in Seq(Int), NEW u \in Seq(Int), Len(b) = Len(a), Len(u) = Len(a),
         Paired(u, a, b)
  PROVE  SumOf(u) = SumOf(a) + SumOf(b)
<1> DEFINE n == Len(a)
           z == [i \in 1..n |-> 0]
<1>1. n \in Nat /\ \A i \in 1..n : a[i] \in Int /\ b[i] \in Int
  OBVIOUS
<1>2. z \in Seq(Int) /\ Len(z) = n /\ \A i \in 1..n : z[i] = 0
  BY <1>1
<1> HIDE DEF z
<1>3. Scaled(1, z, 0, z, 0) /\ Scaled(-1, z, 0, z, 0)
  <2>1. ASSUME NEW i \in 1..Len(z) PROVE 1 * z[i] <= 0 * z[i] + 0 /\ (-1) * z[i] <= 0 * z[i] + 0
    <3>1. z[i] = 0
      BY <1>2
    <3> QED BY <3>1
  <2> QED BY <2>1 DEF Scaled
<1>4. SumOf(z) \in Int /\ SumOf(a) \in Int /\ SumOf(b) \in Int
  BY <1>2, SumType
<1>5. 1 * SumOf(z) <= 0 * SumOf(z) + Len(z) * 0
  BY <1>2, <1>3, SumScaled
<1>6. (-1) * SumOf(z) <= 0 * SumOf(z) + Len(z) * 0
  BY <1>2, <1>3, SumScaled
<1>7. SumOf(z) = 0
  BY <1>1, <1>2, <1>4, <1>5, <1>6
<1>8. Combined(u, a, z, b)
  <2>1. ASSUME NEW i \in 1..Len(a) PROVE u[i] = a[i] - z[i] + b[i]
    <3>1. a[i] \in Int /\ b[i] \in Int /\ z[i] = 0 /\ u[i] = a[i] + b[i]
      BY <1>1, <1>2 DEF Paired
    <3> QED BY <3>1
  <2> QED BY <2>1 DEF Combined
<1>9. SumOf(u) = SumOf(a) - SumOf(z) + SumOf(b)
  BY <1>2, <1>8, SumLinear
<1> QED
  BY <1>4, <1>7, <1>9

=============================================================================
