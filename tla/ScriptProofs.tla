---------------------------- MODULE ScriptProofs ----------------------------
(***************************************************************************)
(* Proofs about the Python scripts around the benchmark, for every input   *)
(* they may be given.                                                      *)
(***************************************************************************)
EXTENDS Scripts, SumProofs, PlanProofs, SequenceTheorems

\* ------------------------------------------------------------------------
\* Sorting

LEMMA LeastOfTwo ==
  ASSUME NEW a \in Int, NEW b \in Int
  PROVE  Min({a, b}) = IF a <= b THEN a ELSE b
<1>1. \A x : x \in {a, b} /\ (\A y \in {a, b} : x <= y) => x = IF a <= b THEN a ELSE b
  OBVIOUS
<1>2. \E x \in {a, b} : \A y \in {a, b} : x <= y
  OBVIOUS
<1>3. Min({a, b}) \in {a, b} /\ \A y \in {a, b} : Min({a, b}) <= y
  BY <1>2 DEF Min
<1> QED
  BY <1>1, <1>3

LEMMA GreatestOfTwo ==
  ASSUME NEW a \in Int, NEW b \in Int
  PROVE  Max({a, b}) = IF a >= b THEN a ELSE b
<1>1. \A x : x \in {a, b} /\ (\A y \in {a, b} : x >= y) => x = IF a >= b THEN a ELSE b
  OBVIOUS
<1>2. \E x \in {a, b} : \A y \in {a, b} : x >= y
  OBVIOUS
<1>3. Max({a, b}) \in {a, b} /\ \A y \in {a, b} : Max({a, b}) >= y
  BY <1>2 DEF Max
<1> QED
  BY <1>1, <1>3

\* A set of natural numbers has a least one.
LEMMA LeastOf ==
  ASSUME NEW S \in SUBSET Nat, S # {}
  PROVE  \E m \in S : \A k \in S : m <= k
<1> DEFINE less == OpToRel(<, Nat)
<1>1. \A a, b \in Nat : a < b => <<a, b>> \in less
  BY DEF OpToRel
<1>2. IsWellFoundedOn(less, Nat)
  BY NatLessThanWellFounded
<1> HIDE DEF less
<1>3. PICK m \in S : \A k \in S : <<k, m>> \notin less
  BY <1>2, WFMin
<1>4. \A k \in S : ~(k < m)
  BY <1>1, <1>3
<1> QED
  BY <1>4

LEMMA FirstNumbers ==
  ASSUME NEW n \in Nat
  PROVE  IsFiniteSet(1..n) /\ Cardinality(1..n) = n
<1> DEFINE D == 1..n
<1>1. IsFiniteSet(D) /\ Cardinality(D) = n
  BY FS_Interval
<1> QED
  BY <1>1

\* A sequence has no more elements than places.
LEMMA NoMoreThanPlaces ==
  ASSUME NEW S, NEW s \in Seq(S)
  PROVE  IsFiniteSet(ToSet(s)) /\ Cardinality(ToSet(s)) <= Len(s)
<1> DEFINE n == Len(s)
           D == 1..n
           T == ToSet(s)
<1>1. n \in Nat /\ DOMAIN s = D
  OBVIOUS
<1>2. IsFiniteSet(D) /\ Cardinality(D) = n
  BY <1>1, FirstNumbers
<1>3. s \in [D -> T] /\ \A x \in T : \E i \in D : s[i] = x
  BY <1>1 DEF ToSet
<1> HIDE DEF D, T
<1>4. s \in Surjection(D, T)
  BY <1>3 DEF Surjection
<1>5. IsFiniteSet(T) /\ Cardinality(T) <= n
  BY <1>2, <1>4, FS_Surjection
<1> QED
  BY <1>5 DEF T, n

\* Every index has a place of its own when a list is sorted by key.
LEMMA PlacesAre ==
  ASSUME NEW n \in Nat, NEW key, DOMAIN key = 1..n, \A i \in 1..n : key[i] \in Int
  PROVE  /\ Places(key) \in Bijection(1..n, 1..n)
         /\ \A i, j \in 1..n : Precedes(key, i, j) => Places(key)[i] < Places(key)[j]
<1> DEFINE D == 1..n
           place == Places(key)
<1>1. IsFiniteSet(D) /\ Cardinality(D) = n
  BY FirstNumbers
<1>2. ASSUME NEW i \in D
      PROVE  /\ IsFiniteSet(Ahead(key, i)) /\ Cardinality(Ahead(key, i)) \in Nat
             /\ Cardinality(Ahead(key, i)) <= n - 1 /\ i \notin Ahead(key, i)
  <2>1. i \notin Ahead(key, i) /\ Ahead(key, i) \in SUBSET (D \ {i})
    BY DEF Ahead, Precedes
  <2> HIDE DEF D
  <2>2. IsFiniteSet(D \ {i}) /\ Cardinality(D \ {i}) = n - 1
    BY <1>1, FS_RemoveElement
  <2> QED BY <2>1, <2>2, FS_Subset, FS_CardinalityType
<1>3. ASSUME NEW i \in D, NEW j \in D, Precedes(key, i, j)
      PROVE  Cardinality(Ahead(key, i)) < Cardinality(Ahead(key, j))
  <2>1. Ahead(key, i) \subseteq Ahead(key, j) /\ i \in Ahead(key, j)
    BY <1>3 DEF Ahead, Precedes
  <2>2. Ahead(key, i) \in SUBSET Ahead(key, j) /\ Ahead(key, i) # Ahead(key, j)
    BY <1>2, <2>1
  <2> HIDE DEF D
  <2>3. /\ IsFiniteSet(Ahead(key, j)) /\ Cardinality(Ahead(key, i)) \in Nat
        /\ Cardinality(Ahead(key, j)) \in Nat
    BY <1>2
  <2>4. /\ Cardinality(Ahead(key, i)) <= Cardinality(Ahead(key, j))
        /\ Cardinality(Ahead(key, i)) # Cardinality(Ahead(key, j))
    BY <2>2, <2>3, FS_Subset
  <2> QED BY <2>3, <2>4
<1>4. place \in [D -> D] /\ \A i \in D : place[i] = 1 + Cardinality(Ahead(key, i))
  BY <1>2 DEF Places
<1>5. \A i, j \in D : Precedes(key, i, j) => place[i] < place[j]
  BY <1>2, <1>3, <1>4
<1>6. \A i, j \in D : i # j => Precedes(key, i, j) \/ Precedes(key, j, i)
  BY DEF Precedes
<1>7. place \in Injection(D, D)
  <2>1. \A i, j \in D : place[i] = place[j] => i = j
    <3> SUFFICES ASSUME NEW i \in D, NEW j \in D, i # j PROVE place[i] # place[j]
      OBVIOUS
    <3>1. place[i] \in Int /\ place[j] \in Int
      BY <1>4, SMTT(30)
    <3> QED BY <1>5, <1>6, <3>1
  <2> HIDE DEF D, place
  <2> QED BY <1>4, <2>1 DEF Injection, IsInjective
<1>8. place \in Surjection(D, D)
  <2> HIDE DEF D, place
  <2> QED BY <1>1, <1>7, FS_Injection
<1> QED
  BY <1>5, <1>7, <1>8 DEF Bijection

\* The indices in the order of their places: an order in which the keys do not descend.
InOrder(n, key) == [k \in 1..n |-> CHOOSE i \in 1..n : Places(key)[i] = k]

LEMMA InOrderIs ==
  ASSUME NEW n \in Nat, NEW key, DOMAIN key = 1..n, \A i \in 1..n : key[i] \in Int
  PROVE  /\ InOrder(n, key) \in Bijection(1..n, 1..n)
         /\ \A k \in 1..n : Places(key)[InOrder(n, key)[k]] = k
         /\ \A i, j \in 1..n : i < j => /\ Precedes(key, InOrder(n, key)[i], InOrder(n, key)[j])
                                        /\ key[InOrder(n, key)[i]] <= key[InOrder(n, key)[j]]
<1> DEFINE D == 1..n
           place == Places(key)
           order == InOrder(n, key)
<1>1. /\ place \in [D -> D]
      /\ \A i, j \in D : place[i] = place[j] => i = j
      /\ \A k \in D : \E i \in D : place[i] = k
      /\ \A i, j \in D : Precedes(key, i, j) => place[i] < place[j]
  <2>1. place \in Bijection(D, D) /\ \A i, j \in D : Precedes(key, i, j) => place[i] < place[j]
    BY PlacesAre
  <2> HIDE DEF D, place
  <2> QED BY <2>1 DEF Bijection, Injection, Surjection, IsInjective
<1>2. order = [k \in D |-> CHOOSE i \in D : place[i] = k]
  BY DEF InOrder
<1> HIDE DEF place, order
<1>3. order \in [D -> D] /\ \A k \in D : place[order[k]] = k
  <2> HIDE DEF D
  <2> QED BY <1>1, <1>2
<1>4. order \in Bijection(D, D)
  <2>1. \A i, j \in D : order[i] = order[j] => i = j
    BY <1>3
  <2>2. \A i \in D : \E k \in D : order[k] = i
    <3> SUFFICES ASSUME NEW i \in D PROVE order[place[i]] = i /\ place[i] \in D
      OBVIOUS
    <3> HIDE DEF D
    <3> QED BY <1>1, <1>3
  <2> HIDE DEF D
  <2> QED BY <1>3, <2>1, <2>2 DEF Bijection, Injection, Surjection, IsInjective
<1>5. ASSUME NEW i \in D, NEW j \in D, i < j
      PROVE  Precedes(key, order[i], order[j]) /\ key[order[i]] <= key[order[j]]
  <2>1. order[i] \in D /\ order[j] \in D /\ place[order[i]] = i /\ place[order[j]] = j
    BY <1>3
  <2>2. ~Precedes(key, order[j], order[i])
    <3> SUFFICES ASSUME Precedes(key, order[j], order[i]) PROVE FALSE
      OBVIOUS
    <3>1. place[order[j]] < place[order[i]]
      BY <1>1, <2>1
    <3>2. j < i
      BY <2>1, <3>1
    <3> QED BY <1>5, <3>2
  <2>3. key[order[i]] \in Int /\ key[order[j]] \in Int
    BY <2>1
  <2>4. order[i] # order[j] /\ order[i] \in Int /\ order[j] \in Int
    BY <1>5, <2>1
  <2> QED BY <2>2, <2>3, <2>4 DEF Precedes
<1> QED
  BY <1>3, <1>4, <1>5 DEF place, order

\* Python's sorted is such an order, of the elements instead of their places.
LEMMA SortedIs ==
  ASSUME NEW S, NEW s \in Seq(S), NEW key, \A i \in 1..Len(s) : key[s[i]] \in Int
  PROVE  \E order \in Bijection(1..Len(s), 1..Len(s)) :
           /\ Sorted(s, key) = [k \in 1..Len(s) |-> s[order[k]]]
           /\ \A i, j \in 1..Len(s) :
                i < j => /\ key[s[order[i]]] <= key[s[order[j]]]
                         /\ key[s[order[i]]] = key[s[order[j]]] => order[i] < order[j]
<1> DEFINE n == Len(s)
           keys == [i \in 1..n |-> key[s[i]]]
           order == InOrder(n, keys)
<1>1. n \in Nat /\ DOMAIN s = 1..n /\ DOMAIN keys = 1..n /\ \A i \in 1..n : keys[i] \in Int /\ keys[i] = key[s[i]]
  OBVIOUS
<1>2. /\ order \in Bijection(1..n, 1..n)
      /\ \A i, j \in 1..n : i < j => Precedes(keys, order[i], order[j]) /\ keys[order[i]] <= keys[order[j]]
  <2> HIDE DEF n, keys
  <2> QED BY <1>1, InOrderIs
<1>3. order \in [1..n -> 1..n]
  BY <1>2 DEF Bijection, Injection
<1>4. Sorted(s, key) = [k \in 1..n |-> s[order[k]]]
  <2> DEFINE at(k) == CHOOSE i \in 1..n : Places(keys)[i] = k
  <2>1. Sorted(s, key) = [k \in 1..n |-> s[at(k)]]
    BY <1>1 DEF Sorted
  <2>2. \A k \in 1..n : order[k] = at(k)
    BY DEF InOrder
  <2> HIDE DEF order, keys, n, at
  <2> QED BY <2>1, <2>2
<1> HIDE DEF order, n
<1>5. \A i, j \in 1..n : i < j => key[s[order[i]]] <= key[s[order[j]]]
  BY <1>1, <1>2, <1>3
<1>6. ASSUME NEW i \in 1..n, NEW j \in 1..n, i < j, key[s[order[i]]] = key[s[order[j]]]
      PROVE  order[i] < order[j]
  <2>1. order[i] \in 1..n /\ order[j] \in 1..n /\ Precedes(keys, order[i], order[j])
    BY <1>2, <1>3, <1>6
  <2>2. keys[order[i]] = keys[order[j]] /\ keys[order[j]] \in Int
    BY <1>1, <1>6, <2>1
  <2> HIDE DEF keys
  <2> QED BY <2>1, <2>2 DEF Precedes
<1> QED
  BY <1>2, <1>4, <1>5, <1>6 DEF n

\* The stacks in the order of a figure or table: each once, none before a smaller one.
LEMMA StacksInOrder ==
  ASSUME NEW key, \A s \in Stacks : key[s] \in Int
  PROVE  /\ Len(SIDS) \in Nat
         /\ Sorted(SIDS, key) \in Seq(Stacks) /\ Len(Sorted(SIDS, key)) = Len(SIDS)
         /\ \A s \in Stacks : \E i \in 1..Len(SIDS) : Sorted(SIDS, key)[i] = s
         /\ \A i, j \in 1..Len(SIDS) :
              /\ Sorted(SIDS, key)[i] = Sorted(SIDS, key)[j] => i = j
              /\ i < j => key[Sorted(SIDS, key)[i]] <= key[Sorted(SIDS, key)[j]]
<1> DEFINE n == Len(SIDS)
           o == Sorted(SIDS, key)
<1>1. SIDS \in Seq(Stacks) /\ n \in Nat /\ SIDS \in [1..n -> Stacks]
  BY SIDSAssumption
<1>2. \A i, j \in 1..n : SIDS[i] = SIDS[j] => i = j
  BY <1>1, SIDSAssumption DEF IsInjective
<1>3. \A s \in Stacks : \E i \in 1..n : SIDS[i] = s
  BY <1>1, SIDSAssumption DEF Range
<1>4. PICK order \in Bijection(1..n, 1..n) :
           /\ o = [k \in 1..n |-> SIDS[order[k]]]
           /\ \A i, j \in 1..n : i < j => key[SIDS[order[i]]] <= key[SIDS[order[j]]]
  <2>1. \A i \in 1..n : key[SIDS[i]] \in Int
    BY <1>1
  <2> QED BY <1>1, <2>1, SortedIs
<1>5. /\ order \in [1..n -> 1..n] /\ \A i, j \in 1..n : order[i] = order[j] => i = j
      /\ \A k \in 1..n : \E i \in 1..n : order[i] = k
  BY DEF Bijection, Injection, Surjection, IsInjective
<1> HIDE DEF n, o
<1>6. \A k \in 1..n : o[k] = SIDS[order[k]] /\ o[k] \in Stacks
  BY <1>1, <1>4, <1>5
<1>7. o \in Seq(Stacks) /\ Len(o) = n
  BY <1>1, <1>4, <1>6
<1>8. ASSUME NEW s \in Stacks PROVE \E i \in 1..n : o[i] = s
  <2>1. PICK k \in 1..n : SIDS[k] = s
    BY <1>3
  <2>2. PICK i \in 1..n : order[i] = k
    BY <1>5
  <2> QED BY <1>6, <2>1, <2>2
<1>9. ASSUME NEW i \in 1..n, NEW j \in 1..n, o[i] = o[j] PROVE i = j
  <2>1. order[i] \in 1..n /\ order[j] \in 1..n
    BY <1>5
  <2>2. order[i] = order[j]
    BY <1>2, <1>6, <1>9, <2>1
  <2> QED BY <1>5, <2>2
<1>10. \A i, j \in 1..n : i < j => key[o[i]] <= key[o[j]]
  BY <1>4, <1>6
<1> QED
  BY <1>1, <1>7, <1>8, <1>9, <1>10 DEF n, o

\* ------------------------------------------------------------------------
\* Holm's correction

\* The adjusted value of a contrast on its own: multiplied by how many contrasts
\* are left when those with a smaller p are gone.
Smaller(p, i) == {k \in DOMAIN p : p[k] < p[i]}
Own(p, i) == Min({100, (Len(p) - Cardinality(Smaller(p, i))) * p[i]})

\* In an order in which they do not descend, at least the smaller ones come before i,
\* and before the first of those equal to i no others.
LEMMA SmallerComeFirst ==
  ASSUME NEW p \in Seq(Nat), NEW order \in ArgSorts(p), NEW rank \in 1..Len(p)
  PROVE  /\ Cardinality(Smaller(p, order[rank])) \in 0..(rank - 1)
         /\ \E first \in 1..rank : /\ p[order[first]] = p[order[rank]]
                                   /\ Cardinality(Smaller(p, order[rank])) = first - 1
<1> DEFINE D == 1..Len(p)
           i == order[rank]
<1>1. DOMAIN p = D /\ \A k \in D : p[k] \in Nat
  OBVIOUS
<1>2. /\ order \in [D -> D] /\ \A j, k \in D : order[j] = order[k] => j = k
      /\ \A k \in D : \E j \in D : order[j] = k
      /\ \A j, k \in D : j < k => p[order[j]] <= p[order[k]]
  BY <1>1 DEF ArgSorts, Bijection, Injection, Surjection, IsInjective
<1>3. i \in D /\ rank \in D
  BY <1>2
<1> HIDE DEF i
<1> DEFINE Ties == {r \in 1..rank : p[order[r]] = p[i]}
<1>4. PICK first \in Ties : \A r \in Ties : first <= r
  <2>1. rank \in Ties /\ Ties \in SUBSET Nat
    BY DEF i
  <2> HIDE DEF Ties
  <2> QED BY <2>1, LeastOf
<1>5. first \in 1..rank /\ first \in D /\ p[order[first]] = p[i]
  BY <1>4
<1> DEFINE R == 1..(first - 1)
           S == Smaller(p, i)
           before == [r \in R |-> order[r]]
<1>6. \A r \in R : r \in D /\ order[r] \in S
  <2> SUFFICES ASSUME NEW r \in R PROVE r \in D /\ order[r] \in S
    OBVIOUS
  <2>1. r \in D /\ r \in 1..rank /\ r < first /\ r # first
    BY <1>5
  <2>2. order[r] \in D /\ order[first] \in D
    BY <1>2, <1>5, <2>1
  <2>3. p[order[r]] <= p[order[first]]
    BY <1>2, <1>5, <2>1
  <2>7. ~(first <= r)
    BY <1>5, <2>1
  <2>8. r \notin Ties
    BY <1>4, <2>7
  <2>4. p[order[r]] <= p[i] /\ p[order[r]] # p[i]
    BY <1>5, <2>1, <2>3, <2>8
  <2>5. p[order[r]] \in Int /\ p[i] \in Int
    BY <1>1, <1>3, <2>2
  <2> QED BY <1>1, <2>1, <2>2, <2>4, <2>5, SMTT(30) DEF Smaller
<1>7. \A k \in S : \E r \in R : order[r] = k
  <2> SUFFICES ASSUME NEW k \in S PROVE \E r \in R : order[r] = k
    OBVIOUS
  <2>1. k \in D /\ p[k] < p[i]
    BY <1>1 DEF Smaller
  <2>2. PICK r \in D : order[r] = k
    BY <1>2, <2>1
  <2>3. ~(first <= r)
    <3> SUFFICES ASSUME first <= r PROVE FALSE
      OBVIOUS
    <3>1. p[order[first]] <= p[order[r]]
      <4>1. CASE first = r
        <5>1. order[r] \in D /\ order[r] = order[first]
          BY <1>2, <2>2, <4>1
        <5>2. p[order[r]] \in Nat
          BY <1>1, <5>1
        <5> QED BY <5>1, <5>2
      <4>2. CASE first < r
        BY <1>2, <1>5, <4>2
      <4> QED BY <1>5, <4>1, <4>2
    <3>2. p[k] \in Int /\ p[i] \in Int
      BY <1>1, <1>3, <2>1
    <3> QED BY <1>5, <2>1, <2>2, <3>1, <3>2
  <2> QED BY <1>5, <2>2, <2>3
<1>8. Cardinality(S) = first - 1
  <2>1. before \in [R -> S] /\ \A r, q \in R : before[r] = before[q] => r = q
    BY <1>2, <1>6
  <2>2. \A k \in S : \E r \in R : before[r] = k
    BY <1>7
  <2>3. IsFiniteSet(R) /\ Cardinality(R) = first - 1
    <3>1. PICK b \in Int : b = first - 1 /\ b >= 0
      BY <1>5
    <3> DEFINE U == 1..b
    <3>2. R = U
      BY <3>1
    <3>3. IsFiniteSet(U) /\ Cardinality(U) = b
      BY <3>1, FirstNumbers
    <3> HIDE DEF R, U
    <3> QED BY <3>1, <3>2, <3>3
  <2> HIDE DEF R, S, before
  <2>4. before \in Bijection(R, S)
    BY <2>1, <2>2 DEF Bijection, Injection, Surjection, IsInjective
  <2>5. ExistsBijection(R, S)
    BY <2>4 DEF ExistsBijection
  <2> QED BY <2>3, <2>5, FS_Bijection
<1> HIDE DEF S
<1>9. /\ Cardinality(S) \in Int /\ 0 <= Cardinality(S) /\ Cardinality(S) <= rank - 1
  BY <1>5, <1>8
<1>10. S = Smaller(p, order[rank]) /\ p[i] = p[order[rank]]
  BY DEF S, i
<1>11. Cardinality(S) \in 0..(rank - 1)
  BY <1>9
<1>12. \E f \in 1..rank : p[order[f]] = p[order[rank]] /\ Cardinality(S) = f - 1
  BY <1>5, <1>8, <1>10
<1> QED
  BY <1>10, <1>11, <1>12

\* A loop that keeps the greatest value has, after each step, one of those seen
\* so far that no other of them exceeds.
LEMMA CarriedIs ==
  ASSUME NEW v \in Seq(Nat)
  PROVE  /\ Carried(v) \in [0..Len(v) -> Nat]
         /\ \A r \in 1..Len(v) : /\ \A q \in 1..r : v[q] <= Carried(v)[r]
                                 /\ \E q \in 1..r : Carried(v)[r] = v[q]
<1> DEFINE n == Len(v)
           Is(f) == f = [r \in 0..n |-> IF r = 0 THEN 0 ELSE Max({v[r], f[r - 1]})]
           greater == [q \in (1..n) \X Nat |-> IF v[q[1]] >= q[2] THEN v[q[1]] ELSE q[2]]
<1>1. n \in Nat /\ \A i \in 1..n : v[i] \in Nat
  OBVIOUS
<1>2. greater \in [(1..n) \X Nat -> Nat]
  BY <1>1
<1>3. PICK g \in [0..n -> Nat] : g[0] = 0 /\ \A r \in 1..n : g[r] = greater[<<r, g[r - 1]>>]
  <2> DEFINE V == Nat
             base == 0
  <2>1. base \in V /\ greater \in Steps(n, V)
    BY <1>2 DEF Steps
  <2> HIDE DEF greater, n, V, base
  <2>2. \E f \in [0..n -> V] : IsLoop(f, n, base, greater)
    BY <1>1, <2>1, LoopExists
  <2> QED BY <2>2 DEF V, base, IsLoop
<1>4. ASSUME NEW r \in 1..n
      PROVE  /\ g[r - 1] \in Nat /\ v[r] \in Nat
             /\ g[r] = (IF v[r] >= g[r - 1] THEN v[r] ELSE g[r - 1])
             /\ g[r] = Max({v[r], g[r - 1]})
  <2>1. r - 1 \in 0..n
    BY <1>1
  <2>2. g[r - 1] \in Nat /\ v[r] \in Nat
    BY <1>1, <1>3, <2>1
  <2>3. g[r] = (IF v[r] >= g[r - 1] THEN v[r] ELSE g[r - 1])
    BY <1>3, <2>2
  <2>4. g[r] = Max({v[r], g[r - 1]})
    <3> DEFINE a == v[r]
               b == g[r - 1]
    <3>1. a \in Int /\ b \in Int
      BY <2>2
    <3> HIDE DEF a, b
    <3>2. Max({a, b}) = IF a >= b THEN a ELSE b
      BY <3>1, GreatestOfTwo
    <3> QED BY <2>3, <3>2 DEF a, b
  <2> QED BY <2>2, <2>3, <2>4
<1>5. ASSUME NEW r \in 0..n PROVE g[r] = IF r = 0 THEN 0 ELSE Max({v[r], g[r - 1]})
  <2>1. r # 0 => r \in 1..n
    BY <1>1
  <2> QED BY <1>3, <1>4, <2>1
<1>6. Is(g)
  <2> HIDE DEF greater
  <2> QED BY <1>3, <1>5
<1>7. \A f : Is(f) => f = g
  <2> SUFFICES ASSUME NEW f, Is(f) PROVE f = g
    OBVIOUS
  <2> HIDE DEF greater
  <2>1. \A r \in 0..n : f[r] = IF r = 0 THEN 0 ELSE Max({v[r], f[r - 1]})
    OBVIOUS
  <2> DEFINE T == {r \in 0..n : f[r] = g[r]}
  <2>2. 0 \in T
    BY <1>1, <1>3, <2>1
  <2>3. ASSUME NEW r \in 0..(n - 1), r \in T PROVE r + 1 \in T
    <3>1. r + 1 \in 1..n /\ (r + 1) - 1 = r /\ r + 1 \in 0..n /\ r + 1 # 0
      BY <1>1
    <3>2. f[r + 1] = Max({v[r + 1], f[r]}) /\ g[r + 1] = Max({v[r + 1], g[r]})
      BY <1>4, <2>1, <3>1
    <3> QED BY <2>3, <3>1, <3>2
  <2>4. \A r \in 0..n : r \in T
    <3> HIDE DEF T, Is, n
    <3> QED BY <1>1, <2>2, <2>3, LoopInduction
  <2>5. f = [r \in 0..n |-> f[r]] /\ g = [r \in 0..n |-> g[r]]
    BY <1>3
  <2> HIDE DEF Is
  <2> QED BY <2>4, <2>5
<1>8. Carried(v) = CHOOSE f : Is(f)
  BY DEF Carried
<1>9. Carried(v) = g
  <2> HIDE DEF Is
  <2> QED BY <1>6, <1>7, <1>8
<1> HIDE DEF Is, greater, n
<1> DEFINE Greatest(r) == (\A q \in 1..r : v[q] <= g[r]) /\ (r # 0 => \E q \in 1..r : g[r] = v[q])
           T == {r \in 0..n : Greatest(r)}
<1>10. 0 \in T
  BY <1>1
<1>11. ASSUME NEW r \in 0..(n - 1), r \in T PROVE r + 1 \in T
  <2>1. r + 1 \in 1..n /\ (r + 1) - 1 = r /\ r + 1 \in 0..n /\ r \in 0..n
    BY <1>1
  <2>2. /\ g[r] \in Nat /\ v[r + 1] \in Nat
        /\ g[r + 1] = (IF v[r + 1] >= g[r] THEN v[r + 1] ELSE g[r])
    BY <1>4, <2>1
  <2>3. ASSUME NEW q \in 1..(r + 1) PROVE v[q] <= g[r + 1]
    <3>1. CASE q \in 1..r
      <4>1. v[q] <= g[r] /\ v[q] \in Nat
        BY <1>1, <1>11, <2>1, <3>1
      <4> QED BY <2>2, <4>1
    <3>2. CASE q = r + 1
      BY <2>2, <3>2
    <3> QED BY <2>1, <3>1, <3>2
  <2>4. \E q \in 1..(r + 1) : g[r + 1] = v[q]
    <3>1. CASE v[r + 1] >= g[r]
      BY <2>1, <2>2, <3>1
    <3>2. CASE ~(v[r + 1] >= g[r]) /\ r # 0
      <4>1. PICK q \in 1..r : g[r] = v[q]
        BY <1>11, <3>2
      <4> QED BY <2>1, <2>2, <3>2, <4>1
    <3>3. CASE r = 0
      <4>1. v[r + 1] >= g[r]
        BY <1>3, <2>2, <3>3
      <4> QED BY <3>1, <4>1
    <3> QED BY <3>1, <3>2, <3>3
  <2> QED BY <2>1, <2>3, <2>4
<1>12. \A r \in 0..n : r \in T
  <2> HIDE DEF T
  <2> QED BY <1>1, <1>10, <1>11, LoopInduction
<1> HIDE DEF Greatest
<1>13. \A r \in 1..n : Greatest(r)
  <2>1. \A r \in 1..n : r \in 0..n
    BY <1>1
  <2> QED BY <1>12, <2>1
<1>14. \A r \in 1..n : (\A q \in 1..r : v[q] <= g[r]) /\ \E q \in 1..r : g[r] = v[q]
  <2>1. \A r \in 1..n : r # 0
    BY <1>1
  <2> QED BY <1>13, <2>1 DEF Greatest
<1> QED
  BY <1>3, <1>9, <1>14 DEF n

\* In terms of the p-values alone, not of an order: the adjusted value of a
\* contrast is the greatest of its own and those of the contrasts before it.
IsAdjusted(p, i, v) ==
  /\ \A j \in DOMAIN p : p[j] <= p[i] => Own(p, j) <= v
  /\ \E j \in DOMAIN p : p[j] <= p[i] /\ v = Own(p, j)

\* A product with a natural number that is not zero is not smaller.
LEMMA TimesAtLeast ==
  ASSUME NEW a \in Nat, NEW b \in Nat, NEW c \in Nat, a <= b
  PROVE  a * c <= b * c /\ a * c \in Nat /\ b * c \in Nat
<1>1. PICK d \in Nat : b = a + d
  BY SMT
<1>2. b * c = a * c + d * c
  BY <1>1
<1>3. d * c \in Nat /\ a * c \in Nat
  OBVIOUS
<1> QED
  BY <1>2, <1>3

\* What a contrast has on its own is no less than its p-value, and no less than
\* its step of the loop.
LEMMA OwnIs ==
  ASSUME NEW p \in Seq(Nat), NEW order \in ArgSorts(p), NEW r \in 1..Len(p)
  PROVE  /\ order[r] \in 1..Len(p)
         /\ Own(p, order[r]) \in Nat /\ Own(p, order[r]) <= 100 /\ Stepped(p, order)[r] \in Nat
         /\ p[order[r]] <= 100 => p[order[r]] <= Own(p, order[r])
         /\ Stepped(p, order)[r] <= Own(p, order[r])
         /\ \E f \in 1..r : Own(p, order[r]) = Stepped(p, order)[f]
         /\ Own(p, order[r]) < 5
              <=> (Len(p) - Cardinality(Smaller(p, order[r]))) * p[order[r]] < 5
<1> DEFINE n == Len(p)
           x == p[order[r]]
           c == Cardinality(Smaller(p, order[r]))
<1>0. n \in Nat /\ r \in 1..n /\ DOMAIN p = 1..n /\ \A k \in 1..n : p[k] \in Nat
  OBVIOUS
<1>1. n \in Nat /\ r \in 1..n /\ order \in [1..n -> 1..n] /\ \A k \in 1..n : p[k] \in Nat
  BY <1>0 DEF ArgSorts, Bijection, Injection
<1>2. x \in Nat /\ order[r] \in 1..n
  BY <1>1
<1>3. c \in 0..(r - 1)
  BY SmallerComeFirst
<1>4. PICK f \in 1..r : p[order[f]] = x /\ c = f - 1
  BY SmallerComeFirst
<1>5. \A k \in 1..n : Stepped(p, order)[k] = Min({100, (n - k + 1) * p[order[k]]})
  BY <1>0 DEF Stepped
<1>6. Own(p, order[r]) = Min({100, (n - c) * x})
  BY DEF Own
<1> HIDE DEF n, x, c
<1>7. PICK left \in Nat : left = n - c /\ left >= 1 /\ n - f + 1 = left
  BY <1>1, <1>3, <1>4
<1>8. PICK here \in Nat : here = n - r + 1 /\ here <= left
  BY <1>1, <1>3, <1>7
<1>9. f \in 1..n
  BY <1>1, <1>4
<1>10. /\ here * x <= left * x /\ here * x \in Nat /\ left * x \in Nat /\ x <= left * x
  <2>1. here * x <= left * x /\ here * x \in Nat /\ left * x \in Nat
    BY <1>2, <1>8, TimesAtLeast
  <2>2. 1 * x <= left * x
    BY <1>2, <1>7, TimesAtLeast
  <2> QED BY <1>2, <2>1, <2>2
<1> DEFINE H == here * x
           L == left * x
<1>11. Stepped(p, order)[r] = Min({100, H})
  BY <1>1, <1>5, <1>8 DEF x
<1>12. Stepped(p, order)[f] = Min({100, L})
  BY <1>4, <1>5, <1>7, <1>9
<1>13. Own(p, order[r]) = Min({100, L})
  BY <1>6, <1>7
<1>14. H \in Nat /\ L \in Nat /\ H <= L /\ x <= L
  BY <1>10
<1>15. L = (n - c) * x
  BY <1>7
<1> HIDE DEF H, L
<1>16. /\ Min({100, H}) = (IF 100 <= H THEN 100 ELSE H)
       /\ Min({100, L}) = (IF 100 <= L THEN 100 ELSE L)
  BY <1>14, LeastOfTwo
<1>17. Own(p, order[r]) \in Nat /\ Own(p, order[r]) <= 100 /\ Stepped(p, order)[r] \in Nat
  BY <1>11, <1>13, <1>14, <1>16
<1>18. x <= 100 => x <= Own(p, order[r])
  BY <1>2, <1>13, <1>14, <1>16
<1>19. Stepped(p, order)[r] <= Own(p, order[r])
  BY <1>11, <1>13, <1>14, <1>16
<1>20. Own(p, order[r]) = Stepped(p, order)[f]
  BY <1>12, <1>13
<1>21. Own(p, order[r]) < 5 <=> L < 5
  BY <1>13, <1>14, <1>16
<1>22. \E k \in 1..r : Own(p, order[r]) = Stepped(p, order)[k]
  BY <1>20
<1> QED
  BY <1>2, <1>15, <1>17, <1>18, <1>19, <1>21, <1>22 DEF n, x, c

LEMMA AdjustedIs ==
  ASSUME NEW p \in Seq(Nat), NEW order \in ArgSorts(p)
  PROVE  /\ DOMAIN PHolm(p, order) = 1..Len(p)
         /\ PHolm(p, order) = [i \in 1..Len(p) |-> PHolm(p, order)[i]]
         /\ \A i \in 1..Len(p) : PHolm(p, order)[i] \in Nat /\ IsAdjusted(p, i, PHolm(p, order)[i])
<1> DEFINE n == Len(p)
           v == Stepped(p, order)
           prev == Carried(v)
           own == [r \in 1..n |-> Own(p, order[r])]
<1>1. n \in Nat /\ DOMAIN p = 1..n /\ \A k \in 1..n : p[k] \in Nat
  OBVIOUS
<1>2. /\ order \in [1..n -> 1..n]
      /\ \A k \in 1..n : \E r \in 1..n : order[r] = k
      /\ \A j, k \in 1..n : j < k => p[order[j]] <= p[order[k]]
  BY <1>1 DEF ArgSorts, Bijection, Surjection
<1>3. \A r \in 1..n : /\ own[r] \in Nat /\ v[r] \in Nat /\ v[r] <= own[r]
                      /\ \E f \in 1..r : own[r] = v[f]
  BY OwnIs
<1>4. v \in Seq(Nat) /\ Len(v) = n
  <2>1. v = [r \in 1..n |-> v[r]]
    BY <1>1 DEF Stepped
  <2> HIDE DEF v, own
  <2>2. v \in [1..n -> Nat]
    BY <1>3, <2>1
  <2> HIDE DEF n
  <2> QED BY <1>1, <2>2
<1>5. /\ prev \in [0..n -> Nat]
      /\ \A r \in 1..n : (\A q \in 1..r : v[q] <= prev[r]) /\ \E q \in 1..r : prev[r] = v[q]
  <2> HIDE DEF v, n
  <2> QED BY <1>4, CarriedIs
<1> DEFINE place(i) == CHOOSE r \in 1..n : order[r] = i
<1>6. \A i \in 1..n : place(i) \in 1..n /\ order[place(i)] = i
  BY <1>2
<1>7. PHolm(p, order) = [i \in 1..n |-> prev[place(i)]]
  BY <1>1 DEF PHolm
<1>8. \A j, k \in 1..n : p[j] = p[k] => Own(p, j) = Own(p, k)
  BY <1>1 DEF Own, Smaller
<1>9. \A r \in 1..n : own[r] = Own(p, order[r])
  OBVIOUS
<1> HIDE DEF v, prev, own, n
<1>10. ASSUME NEW r \in 1..n PROVE IsAdjusted(p, order[r], prev[r])
  <2>1. r \in Int /\ order[r] \in 1..n /\ p[order[r]] \in Nat /\ prev[r] \in Nat /\ r \in 0..n
    <3>1. r \in Int /\ r \in 0..n
      BY <1>1
    <3>2. order[r] \in 1..n
      BY <1>2
    <3>3. p[order[r]] \in Nat
      BY <1>1, <3>2
    <3>4. prev[r] \in Nat
      BY <1>5, <3>1
    <3> QED BY <3>1, <3>2, <3>3, <3>4
  <2>2. ASSUME NEW q \in 1..r PROVE own[q] <= prev[r] /\ q \in 1..n /\ q <= r
    <3>1. q \in 1..n /\ q <= r
      BY <1>1, <2>1
    <3>2. PICK f \in 1..q : own[q] = v[f]
      BY <1>3, <3>1
    <3>3. f \in 1..r
      BY <2>1, <3>1
    <3> QED BY <1>5, <3>1, <3>2, <3>3
  <2>3. ASSUME NEW j \in 1..n, p[j] <= p[order[r]] PROVE Own(p, j) <= prev[r]
    <3>1. PICK q \in 1..n : order[q] = j
      BY <1>2
    <3>2. CASE q <= r
      <4>1. q \in 1..r
        BY <2>1, <3>2
      <4> QED BY <1>9, <2>2, <3>1, <4>1
    <3>3. CASE q > r
      <4>1. p[order[r]] <= p[j]
        BY <1>2, <2>1, <3>1, <3>3
      <4>2. p[order[r]] = p[j]
        BY <1>1, <2>1, <2>3, <4>1
      <4>3. Own(p, j) = own[r]
        BY <1>8, <1>9, <2>1, <4>2
      <4>4. r \in 1..r
        BY <2>1
      <4> QED BY <2>2, <4>3, <4>4
    <3> QED BY <2>1, <3>2, <3>3
  <2>4. \E j \in 1..n : p[j] <= p[order[r]] /\ prev[r] = Own(p, j)
    <3>1. PICK q \in 1..r : prev[r] = v[q]
      BY <1>5
    <3>2. q \in 1..n /\ q <= r /\ own[q] <= prev[r]
      BY <2>2
    <3>3. prev[r] = Own(p, order[q]) /\ order[q] \in 1..n
      <4>1. own[q] \in Nat /\ v[q] \in Nat /\ v[q] <= own[q]
        BY <1>3, <3>2
      <4>2. prev[r] = own[q]
        BY <2>1, <3>1, <3>2, <4>1
      <4>3. own[q] = Own(p, order[q])
        BY <1>9, <3>2
      <4>4. order[q] \in 1..n
        BY <1>2, <3>2
      <4> QED BY <4>2, <4>3, <4>4
    <3>4. p[order[q]] <= p[order[r]]
      <4>1. CASE q = r
        BY <2>1, <4>1
      <4>2. CASE q < r
        BY <1>2, <3>2, <4>2
      <4> QED BY <2>1, <3>2, <4>1, <4>2
    <3> QED BY <3>3, <3>4
  <2> QED BY <1>1, <2>3, <2>4 DEF IsAdjusted
<1>11. ASSUME NEW i \in 1..n
       PROVE  PHolm(p, order)[i] \in Nat /\ IsAdjusted(p, i, PHolm(p, order)[i])
  <2>1. place(i) \in 1..n /\ order[place(i)] = i
    BY <1>6
  <2>2. PHolm(p, order)[i] = prev[place(i)]
    BY <1>7
  <2> HIDE DEF place
  <2>3. IsAdjusted(p, i, prev[place(i)])
    BY <1>10, <2>1
  <2>4. prev[place(i)] \in Nat
    <3>1. place(i) \in 0..n
      BY <1>1, <2>1
    <3> QED BY <1>5, <3>1
  <2> QED BY <2>2, <2>3, <2>4
<1>12. DOMAIN PHolm(p, order) = 1..n /\ PHolm(p, order) = [i \in 1..n |-> PHolm(p, order)[i]]
  <2> HIDE DEF place
  <2> QED BY <1>7
<1> QED
  BY <1>11, <1>12 DEF n

\* What Holm's procedure is to decide, of a set of adjusted p-values: there is
\* one whatever the order, and it is the procedure's.
LEMMA HolmIs ==
  ASSUME NEW p, PValues(p)
  PROVE  /\ \E order \in ArgSorts(p) : TRUE
         /\ \A order \in ArgSorts(p) :
              /\ \A other \in ArgSorts(p) : PHolm(p, other) = PHolm(p, order)
              /\ Significant(PHolm(p, order)) = Rejected(p)
              /\ \A i, j \in DOMAIN p :
                   /\ p[i] <= PHolm(p, order)[i] /\ PHolm(p, order)[i] <= 100
                   /\ p[i] <= p[j] => PHolm(p, order)[i] <= PHolm(p, order)[j]
<1> DEFINE n == Len(p)
<1>1. /\ p \in Seq(Nat) /\ n \in Nat /\ DOMAIN p = 1..n
      /\ \A k \in 1..n : p[k] \in Nat /\ p[k] <= 100
  BY DEF PValues
<1>2. \E order \in ArgSorts(p) : TRUE
  <2>1. \A i \in 1..n : p[i] \in Int
    BY <1>1
  <2> HIDE DEF n
  <2>2. InOrder(n, p) \in ArgSorts(p)
    BY <1>1, <2>1, InOrderIs DEF ArgSorts
  <2> QED BY <2>2
<1>3. ASSUME NEW order \in ArgSorts(p)
      PROVE  \A i \in 1..n : /\ Own(p, i) \in Nat /\ Own(p, i) <= 100 /\ p[i] <= Own(p, i)
                             /\ Own(p, i) < 5 <=> (n - Cardinality(Smaller(p, i))) * p[i] < 5
  <2> SUFFICES ASSUME NEW i \in 1..n
               PROVE  /\ Own(p, i) \in Nat /\ Own(p, i) <= 100 /\ p[i] <= Own(p, i)
                      /\ Own(p, i) < 5 <=> (n - Cardinality(Smaller(p, i))) * p[i] < 5
    OBVIOUS
  <2>1. PICK r \in 1..n : order[r] = i
    BY <1>1 DEF ArgSorts, Bijection, Surjection
  <2> QED BY <1>1, <2>1, OwnIs
<1>4. ASSUME NEW order \in ArgSorts(p)
      PROVE  /\ DOMAIN PHolm(p, order) = 1..n
             /\ PHolm(p, order) = [i \in 1..n |-> PHolm(p, order)[i]]
             /\ \A i \in 1..n : PHolm(p, order)[i] \in Nat /\ IsAdjusted(p, i, PHolm(p, order)[i])
  BY <1>1, AdjustedIs
<1> HIDE DEF n
<1>5. ASSUME NEW order \in ArgSorts(p), NEW other \in ArgSorts(p), NEW i \in 1..n, NEW j \in 1..n, p[i] <= p[j]
      PROVE  PHolm(p, order)[i] <= PHolm(p, other)[j]
  <2>1. PICK k \in 1..n : p[k] <= p[i] /\ PHolm(p, order)[i] = Own(p, k)
    BY <1>1, <1>4 DEF IsAdjusted
  <2>2. p[k] \in Nat /\ p[i] \in Nat /\ p[j] \in Nat
    BY <1>1
  <2>3. p[k] <= p[j]
    BY <1>5, <2>1, <2>2
  <2>4. Own(p, k) <= PHolm(p, other)[j]
    BY <1>1, <1>4, <2>3 DEF IsAdjusted
  <2> QED BY <2>1, <2>4
<1>6. ASSUME NEW order \in ArgSorts(p), NEW other \in ArgSorts(p) PROVE PHolm(p, other) = PHolm(p, order)
  <2>1. ASSUME NEW i \in 1..n PROVE PHolm(p, other)[i] = PHolm(p, order)[i]
    <3>1. p[i] <= p[i]
      BY <1>1
    <3>2. PHolm(p, order)[i] <= PHolm(p, other)[i] /\ PHolm(p, other)[i] <= PHolm(p, order)[i]
      BY <1>5, <3>1
    <3>3. PHolm(p, order)[i] \in Nat /\ PHolm(p, other)[i] \in Nat
      BY <1>4
    <3> QED BY <3>2, <3>3
  <2>2. PHolm(p, order) = [i \in 1..n |-> PHolm(p, order)[i]]
    BY <1>4
  <2>3. PHolm(p, other) = [i \in 1..n |-> PHolm(p, other)[i]]
    BY <1>4
  <2> QED BY <2>1, <2>2, <2>3
<1>7. ASSUME NEW order \in ArgSorts(p), NEW i \in 1..n
      PROVE  /\ p[i] <= PHolm(p, order)[i] /\ PHolm(p, order)[i] <= 100
             /\ PHolm(p, order)[i] < 5 <=> \A j \in 1..n : p[j] <= p[i] => Own(p, j) < 5
  <2>1. PICK k \in 1..n : p[k] <= p[i] /\ PHolm(p, order)[i] = Own(p, k)
    BY <1>1, <1>4 DEF IsAdjusted
  <2>2. \A j \in 1..n : p[j] <= p[i] => Own(p, j) <= PHolm(p, order)[i]
    BY <1>1, <1>4 DEF IsAdjusted
  <2>3. p[i] \in Nat /\ p[i] <= Own(p, i) /\ PHolm(p, order)[i] \in Nat /\ \A j \in 1..n : Own(p, j) \in Nat
    BY <1>1, <1>3, <1>4
  <2>4. p[i] <= p[i]
    BY <2>3
  <2>5. p[i] <= PHolm(p, order)[i]
    BY <2>2, <2>3, <2>4
  <2>6. PHolm(p, order)[i] <= 100
    BY <1>3, <2>1
  <2>7. ASSUME PHolm(p, order)[i] < 5, NEW j \in 1..n, p[j] <= p[i] PROVE Own(p, j) < 5
    <3>1. Own(p, j) <= PHolm(p, order)[i]
      BY <2>2, <2>7
    <3> QED BY <2>3, <2>7, <3>1
  <2>8. (\A j \in 1..n : p[j] <= p[i] => Own(p, j) < 5) => PHolm(p, order)[i] < 5
    BY <2>1
  <2> QED BY <2>5, <2>6, <2>7, <2>8
<1>8. ASSUME NEW order \in ArgSorts(p) PROVE Significant(PHolm(p, order)) = Rejected(p)
  <2>1. Significant(PHolm(p, order)) = {i \in 1..n : PHolm(p, order)[i] < 5}
    BY <1>4 DEF Significant
  <2>2. Rejected(p) = {i \in 1..n : \A j \in 1..n : p[j] <= p[i] => Own(p, j) < 5}
    BY <1>1, <1>3 DEF Rejected, Smaller, n
  <2> QED BY <1>7, <2>1, <2>2
<1> QED
  BY <1>1, <1>2, <1>5, <1>6, <1>7, <1>8

\* ------------------------------------------------------------------------
\* Cells

\* The load profile of a result tells the configurations of a plan apart.
CfgOf(c) == IF c[1] = "open" THEN <<"open", c[3]>> ELSE <<"closed", c[2]>>

LEMMA CfgNames ==
  ASSUME NEW p \in DOMAIN Profiles, NEW c \in Profiles[p].configs, NEW d \in Profiles[p].configs,
         CfgOf(c) = CfgOf(d)
  PROVE  c = d
<1>1. p \in {"smoke", "quick", "full", "final", "deep"}
  BY DEF Profiles
<1>2. CASE p = "smoke"
  BY <1>2 DEF Profiles
<1>3. CASE p = "quick"
  BY <1>3 DEF Profiles, CfgOf
<1>4. CASE p \in {"full", "final"}
  BY <1>4 DEF Profiles, CfgOf
<1>5. CASE p = "deep"
  BY <1>5 DEF Profiles, CfgOf
<1> QED
  BY <1>1, <1>2, <1>3, <1>4, <1>5

\* What stats.py groups, when nothing is lost by writing it to files.
Kept(p) == {CHOOSE r \in Block(1, p, Stacks) : Tag(r) = t : t \in {Tag(r) : r \in Block(1, p, Stacks)}}

LEMMA NothingLost ==
  ASSUME NEW p \in DOMAIN Profiles
  PROVE  Kept(p) = Block(1, p, Stacks)
<1> DEFINE block == Block(1, p, Stacks)
           File(t) == CHOOSE r \in block : Tag(r) = t
<1>1. \A r, q \in block : Tag(r) = Tag(q) => r = q
  BY TagsDiffer
<1> HIDE DEF block
<1>2. \A r \in block : File(Tag(r)) = r
  BY <1>1
<1>3. Kept(p) = {File(t) : t \in {Tag(r) : r \in block}}
  BY DEF Kept, block
<1> HIDE DEF File
<1>4. Kept(p) = block
  BY <1>2, <1>3
<1> QED
  BY <1>4 DEF block

\* A plan has one load profile for each configuration, and a cell has the
\* results of one: every repetition once.
LEMMA CellsAre ==
  ASSUME NEW p \in DOMAIN Profiles
  PROVE  /\ Cardinality(Conf(Block(1, p, Stacks))) = Cardinality(Profiles[p].configs)
         /\ \A sid \in Stacks, sc \in Scenarios, cf \in Conf(Block(1, p, Stacks)) :
              /\ Cardinality(Cell(Block(1, p, Stacks), sid, sc, cf)) = Profiles[p].reps
              /\ {r.rep : r \in Cell(Block(1, p, Stacks), sid, sc, cf)} = 0..(Profiles[p].reps - 1)
<1> DEFINE block == Block(1, p, Stacks)
           configs == Profiles[p].configs
           n == Profiles[p].reps
           R == 0..(n - 1)
<1>1. n \in Nat \ {0}
  BY DEF Profiles
<1>2. IsFiniteSet(R) /\ Cardinality(R) = n
  <2>1. 0 \in Int /\ n - 1 \in Int /\ n - 1 >= 0
    BY <1>1
  <2> DEFINE b == n - 1
  <2>2. b \in Int /\ b >= 0 /\ b + 1 = n
    BY <1>1
  <2> HIDE DEF b, n
  <2> DEFINE U == 0..b
  <2>3. IsFiniteSet(U) /\ Cardinality(U) = b + 1
    <3>1. IsFiniteSet(U) /\ Cardinality(U) = IF 0 > b THEN 0 ELSE b - 0 + 1
      BY <2>2, FS_Interval
    <3> HIDE DEF U
    <3> QED BY <2>2, <3>1
  <2> HIDE DEF U
  <2> QED BY <2>2, <2>3 DEF U, b
<1>3. \A r \in block : /\ r.stack \in Stacks /\ r.scenario \in Scenarios /\ r.config \in configs /\ r.rep \in R
                       /\ Cfg(r) = CfgOf(r.config)
  BY DEF Block, Cfg, CfgOf
<1>4. \A sid \in Stacks, sc \in Scenarios, c \in configs, k \in R :
        \E r \in block : r.stack = sid /\ r.scenario = sc /\ r.config = c /\ r.rep = k
  <2> SUFFICES ASSUME NEW sid \in Stacks, NEW sc \in Scenarios, NEW c \in configs, NEW k \in R
               PROVE  \E r \in block : r.stack = sid /\ r.scenario = sc /\ r.config = c /\ r.rep = k
    OBVIOUS
  <2> DEFINE r == [plan |-> 1, rep |-> k, stack |-> sid, scenario |-> sc, config |-> c]
  <2>1. r \in block
    BY DEF Block
  <2> QED BY <2>1
<1>5. \A r, q \in block :
        r.stack = q.stack /\ r.scenario = q.scenario /\ r.config = q.config /\ r.rep = q.rep => r = q
  BY DEF Block
<1>6. \A c, d \in configs : CfgOf(c) = CfgOf(d) => c = d
  BY CfgNames
<1>7. IsFiniteSet(configs)
  BY ConfigsFinite
<1> HIDE DEF block, configs, R, n
<1>8. Conf(block) = {CfgOf(c) : c \in configs}
  <2>1. 0 \in R
    BY <1>1 DEF R
  <2>2. \A c \in configs : \E r \in block : r.config = c
    BY <1>4, <2>1, PlanAssumption
  <2> QED BY <1>3, <2>2 DEF Conf
<1>9. Cardinality(Conf(block)) = Cardinality(configs)
  <2> DEFINE f == [c \in configs |-> CfgOf(c)]
             C == Conf(block)
  <2>1. f \in [configs -> C] /\ (\A c, d \in configs : f[c] = f[d] => c = d) /\ \A x \in C : \E c \in configs : f[c] = x
    BY <1>6, <1>8
  <2> HIDE DEF f, C
  <2>2. f \in Bijection(configs, C)
    BY <2>1 DEF Bijection, Injection, Surjection, IsInjective
  <2>3. ExistsBijection(configs, C)
    BY <2>2 DEF ExistsBijection
  <2>4. Cardinality(C) = Cardinality(configs)
    BY <1>7, <2>3, FS_Bijection
  <2> QED BY <2>4 DEF C
<1>10. ASSUME NEW sid \in Stacks, NEW sc \in Scenarios, NEW cf \in Conf(block)
       PROVE  /\ Cardinality(Cell(block, sid, sc, cf)) = n
              /\ {r.rep : r \in Cell(block, sid, sc, cf)} = R
  <2> DEFINE cell == Cell(block, sid, sc, cf)
  <2>1. PICK c \in configs : cf = CfgOf(c)
    BY <1>8
  <2>2. \A r \in cell : r \in block /\ r.stack = sid /\ r.scenario = sc /\ r.config = c /\ r.rep \in R
    BY <1>3, <1>6, <2>1 DEF Cell
  <2>3. \A k \in R : \E r \in cell : r.rep = k
    <3> SUFFICES ASSUME NEW k \in R PROVE \E r \in cell : r.rep = k
      OBVIOUS
    <3>1. PICK r \in block : r.stack = sid /\ r.scenario = sc /\ r.config = c /\ r.rep = k
      BY <1>4
    <3>2. r \in cell
      BY <1>3, <2>1, <3>1 DEF Cell
    <3> QED BY <3>1, <3>2
  <2> HIDE DEF cell
  <2> DEFINE f == [k \in R |-> CHOOSE r \in cell : r.rep = k]
  <2>4. \A k \in R : f[k] \in cell /\ f[k].rep = k
    BY <2>3
  <2>5. \A r \in cell : f[r.rep] = r
    BY <1>5, <2>2, <2>4
  <2> HIDE DEF f
  <2>6. f \in Bijection(R, cell)
    <3>1. f \in [R -> cell]
      BY <2>4 DEF f
    <3>2. \A j, k \in R : f[j] = f[k] => j = k
      BY <2>4
    <3>3. \A r \in cell : \E k \in R : f[k] = r
      BY <2>2, <2>5
    <3> QED BY <3>1, <3>2, <3>3 DEF Bijection, Injection, Surjection, IsInjective
  <2>7. ExistsBijection(R, cell)
    BY <2>6 DEF ExistsBijection
  <2>8. Cardinality(cell) = n
    BY <1>2, <2>7, FS_Bijection
  <2>9. {r.rep : r \in cell} = R
    BY <2>2, <2>3
  <2> QED BY <2>8, <2>9 DEF cell
<1> QED
  BY <1>9, <1>10 DEF block, configs, R, n

\* ------------------------------------------------------------------------
\* The critical-difference diagram

\* A finite set of integers has a greatest one and a least one.
LEMMA GreatestOf ==
  ASSUME NEW S \in SUBSET Int, IsFiniteSet(S), S # {}
  PROVE  \E m \in S : \A k \in S : k <= m
<1> DEFINE above(m) == {k \in S : k > m}
           counts == {Cardinality(above(m)) : m \in S}
<1>1. ASSUME NEW m \in S PROVE IsFiniteSet(above(m)) /\ Cardinality(above(m)) \in Nat
  <2>1. above(m) \in SUBSET S
    OBVIOUS
  <2> HIDE DEF above
  <2> QED BY <2>1, FS_Subset, FS_CardinalityType
<1>2. counts \in SUBSET Nat /\ counts # {}
  <2> HIDE DEF above
  <2> QED BY <1>1
<1>3. PICK c \in counts : \A d \in counts : c <= d
  <2> HIDE DEF counts
  <2> QED BY <1>2, LeastOf
<1>4. PICK m \in S : c = Cardinality(above(m))
  OBVIOUS
<1>5. ASSUME NEW k \in S, k > m PROVE FALSE
  <2>1. above(k) \in SUBSET above(m) /\ k \in above(m) /\ k \notin above(k)
    <3>1. k \in Int /\ m \in Int /\ \A x \in S : x \in Int
      OBVIOUS
    <3>2. \A x \in S : x > k => x > m
      BY <1>5, <3>1
    <3>3. ~(k > k)
      BY <3>1
    <3> QED BY <1>5, <3>2, <3>3
  <2>2. Cardinality(above(k)) \in counts
    OBVIOUS
  <2> HIDE DEF above, counts
  <2>3. Cardinality(above(m)) <= Cardinality(above(k))
    BY <1>3, <1>4, <2>2
  <2>4. Cardinality(above(k)) <= Cardinality(above(m)) /\ Cardinality(above(k)) # Cardinality(above(m))
    BY <1>1, <2>1, FS_Subset
  <2> QED BY <1>1, <2>3, <2>4
<1>6. \A k \in S : k <= m
  BY <1>5
<1> QED
  BY <1>6

LEMMA LeastOfAll ==
  ASSUME NEW S \in SUBSET Int, IsFiniteSet(S), S # {}
  PROVE  \E m \in S : \A k \in S : m <= k
<1> DEFINE N == {-k : k \in S}
           f == [k \in S |-> -k]
<1>1. f \in Surjection(S, N)
  BY DEF Surjection
<1>2. IsFiniteSet(N) /\ N \in SUBSET Int /\ N # {}
  <2>1. N \in SUBSET Int /\ N # {}
    OBVIOUS
  <2> HIDE DEF f, N
  <2> QED BY <1>1, <2>1, FS_Surjection
<1>3. PICK g \in N : \A k \in N : k <= g
  <2> HIDE DEF N
  <2> QED BY <1>2, GreatestOf
<1>4. PICK m \in S : g = -m
  OBVIOUS
<1>5. \A k \in S : m <= k
  <2> SUFFICES ASSUME NEW k \in S PROVE m <= k
    OBVIOUS
  <2>1. -k \in N /\ k \in Int /\ m \in Int
    OBVIOUS
  <2>2. -k <= -m
    BY <1>3, <1>4, <2>1
  <2> HIDE DEF N
  <2> QED BY <2>1, <2>2
<1> QED
  BY <1>5

\* Max and Min of the values of a finite set of things.
Values(f, g) == {f[t] : t \in g}

LEMMA Extremes ==
  ASSUME NEW g, IsFiniteSet(g), g # {}, NEW f, \A s \in g : f[s] \in Int
  PROVE  /\ \A s \in g : f[s] <= Max(Values(f, g)) /\ Min(Values(f, g)) <= f[s]
         /\ \E s \in g : Max(Values(f, g)) = f[s]
         /\ \E s \in g : Min(Values(f, g)) = f[s]
<1> DEFINE V == {f[t] : t \in g}
           F == [t \in g |-> f[t]]
<1>1. F \in Surjection(g, V)
  BY DEF Surjection
<1>2. V \in SUBSET Int /\ V # {} /\ (\A s \in g : f[s] \in V) /\ \A v \in V : \E s \in g : v = f[s]
  OBVIOUS
<1> HIDE DEF V, F
<1>3. IsFiniteSet(V)
  BY <1>1, FS_Surjection
<1>4. Max(V) \in V /\ \A v \in V : v <= Max(V)
  <2>1. PICK m \in V : \A k \in V : k <= m
    BY <1>2, <1>3, GreatestOf
  <2>2. \A k \in V : m >= k
    BY <1>2, <2>1
  <2>3. Max(V) \in V /\ \A k \in V : Max(V) >= k
    BY <2>2 DEF Max
  <2> QED BY <1>2, <2>3
<1>5. Min(V) \in V /\ \A v \in V : Min(V) <= v
  <2>1. PICK m \in V : \A k \in V : m <= k
    BY <1>2, <1>3, LeastOfAll
  <2> QED BY <2>1 DEF Min
<1>6. /\ \A s \in g : f[s] <= Max(V) /\ Min(V) <= f[s]
      /\ \E s \in g : Max(V) = f[s]
      /\ \E s \in g : Min(V) = f[s]
  BY <1>2, <1>4, <1>5
<1> QED
  BY <1>6 DEF V, Values

LEMMA StacksFinite == IsFiniteSet(Stacks)
<1>1. SIDS \in Seq(Stacks) /\ ToSet(SIDS) = Stacks
  BY SIDSAssumption DEF Range, ToSet
<1> QED
  BY <1>1, NoMoreThanPlaces

\* A set of two things at least, and one of exactly two.
LEMMA MoreThanOne ==
  ASSUME NEW g, IsFiniteSet(g), NEW a \in g, NEW b \in g, a # b
  PROVE  Cardinality(g) > 1
<1>1. IsFiniteSet(g \ {a}) /\ Cardinality(g \ {a}) = Cardinality(g) - 1
  BY FS_RemoveElement
<1>2. IsFiniteSet((g \ {a}) \ {b}) /\ Cardinality((g \ {a}) \ {b}) = Cardinality(g \ {a}) - 1
  BY <1>1, FS_RemoveElement
<1>3. Cardinality(g) \in Nat /\ Cardinality((g \ {a}) \ {b}) \in Nat
  BY <1>2, FS_CardinalityType
<1> QED
  BY <1>1, <1>2, <1>3

LEMMA PairsAre ==
  ASSUME NEW S, IsFiniteSet(S)
  PROVE  /\ \A a, b \in S : a # b => {a, b} \in kSubset(2, S)
         /\ \A pair \in kSubset(2, S) : \E a, b \in S : a # b /\ pair = {a, b}
<1>1. ASSUME NEW a \in S, NEW b \in S, a # b PROVE {a, b} \in kSubset(2, S)
  <2>1. IsFiniteSet({a}) /\ Cardinality({a}) = 1
    BY FS_Singleton
  <2>2. IsFiniteSet({a} \cup {b}) /\ Cardinality({a} \cup {b}) = Cardinality({a}) + 1
    BY <1>1, <2>1, FS_AddElement
  <2>3. {a} \cup {b} = {a, b}
    OBVIOUS
  <2> QED BY <2>1, <2>2, <2>3 DEF kSubset
<1>2. ASSUME NEW pair \in kSubset(2, S) PROVE \E a, b \in S : a # b /\ pair = {a, b}
  <2>1. pair \in SUBSET S /\ Cardinality(pair) = 2
    BY DEF kSubset
  <2>2. IsFiniteSet(pair)
    BY <2>1, FS_Subset
  <2>3. ExistsBijection(1..2, pair)
    BY <2>1, <2>2, FS_CardinalityType
  <2>4. PICK f \in Bijection(1..2, pair) : TRUE
    BY <2>3 DEF ExistsBijection
  <2>5. /\ f[1] \in pair /\ f[2] \in pair /\ f[1] # f[2]
        /\ \A x \in pair : \E i \in 1..2 : f[i] = x
    BY DEF Bijection, Injection, Surjection, IsInjective
  <2>6. \A x \in pair : x = f[1] \/ x = f[2]
    <3>1. \A i \in 1..2 : i = 1 \/ i = 2
      OBVIOUS
    <3> QED BY <2>5, <3>1
  <2>7. pair = {f[1], f[2]}
    BY <2>5, <2>6
  <2> QED BY <2>1, <2>5, <2>7
<1> QED
  BY <1>1, <1>2

\* What the loop over the stacks has found of any groups g[1..n]: some of them, and
\* for each of two or more one it lies within.
LEMMA SeenIs ==
  ASSUME NEW S, NEW order \in Seq(S), NEW ranks, NEW CD
  PROVE  /\ \A h \in Seen(order, ranks, CD)[Len(order)] : \E i \in 1..Len(order) : h = Group(order, ranks, CD, i)
         /\ \A i \in 1..Len(order) : Cardinality(Group(order, ranks, CD, i)) > 1 =>
              \E h \in Seen(order, ranks, CD)[Len(order)] : Group(order, ranks, CD, i) \subseteq h
<1> DEFINE n == Len(order)
           g(i) == Group(order, ranks, CD, i)
           V == SUBSET SUBSET S
           base == {}
           More(i, s) == IF Taken(g(i), s) THEN s \cup {g(i)} ELSE s
           step == [q \in (1..n) \X V |-> More(q[1], q[2])]
           Is(f) == f = [i \in 0..n |-> IF i = 0 THEN {}
                                        ELSE IF Taken(g(i), f[i - 1]) THEN f[i - 1] \cup {g(i)} ELSE f[i - 1]]
<1>1. n \in Nat /\ base \in V /\ \A i \in 1..n : order[i] \in S
  OBVIOUS
<1>2. \A i \in 1..n, s \in V : More(i, s) \in V
  <2>1. \A i \in 1..n : g(i) \in SUBSET S
    <3>1. \A i \in 1..n : \A j \in i..n : j \in 1..n
      BY <1>1
    <3> QED BY <1>1, <3>1 DEF Group
  <2> HIDE DEF g
  <2> QED BY <2>1
<1> HIDE DEF g
<1>3. step \in Steps(n, V) /\ \A i \in 1..n, s \in V : step[<<i, s>>] = More(i, s)
  <2> HIDE DEF V, n, More
  <2> QED BY <1>2 DEF Steps
<1>4. PICK f \in [0..n -> V] : f[0] = base /\ \A i \in 1..n : f[i] = step[<<i, f[i - 1]>>]
  <2> HIDE DEF step, n, V, base
  <2>1. \E f \in [0..n -> V] : IsLoop(f, n, base, step)
    BY <1>1, <1>3, LoopExists
  <2> QED BY <2>1 DEF IsLoop
<1>5. \A i \in 1..n : f[i] = More(i, f[i - 1])
  <2> SUFFICES ASSUME NEW i \in 1..n PROVE f[i] = More(i, f[i - 1])
    OBVIOUS
  <2> HIDE DEF step, V, More
  <2>1. i - 1 \in 0..n
    BY <1>1
  <2> QED BY <1>3, <1>4, <2>1
<1>6. Is(f)
  <2>1. \A i \in 0..n : i # 0 => i \in 1..n
    BY <1>1
  <2> HIDE DEF step, V
  <2> QED BY <1>4, <1>5, <2>1
<1>7. Seen(order, ranks, CD) = CHOOSE h : Is(h)
  BY DEF Seen, g
<1>8. Is(Seen(order, ranks, CD))
  <2> HIDE DEF Is
  <2> QED BY <1>6, <1>7
<1> DEFINE seen == Seen(order, ranks, CD)
<1>9. seen[0] = {} /\ \A i \in 1..n : seen[i] = More(i, seen[i - 1])
  <2>1. \A i \in 0..n : seen[i] = IF i = 0 THEN {}
                                  ELSE IF Taken(g(i), seen[i - 1]) THEN seen[i - 1] \cup {g(i)} ELSE seen[i - 1]
    <3> HIDE DEF seen
    <3> QED BY <1>8 DEF seen
  <2>2. \A i \in 1..n : i \in 0..n /\ i # 0
    BY <1>1
  <2>3. 0 \in 0..n
    BY <1>1
  <2> HIDE DEF seen
  <2> QED BY <2>1, <2>2, <2>3
<1> HIDE DEF seen, Is, step, n
<1> DEFINE Good(i, s) == /\ \A h \in s : \E j \in 1..n : h = g(j)
                         /\ \A j \in 1..i : Cardinality(g(j)) > 1 => \E h \in s : g(j) \subseteq h
           T == {i \in 0..n : Good(i, seen[i])}
<1>10. 0 \in T
  BY <1>1, <1>9
<1>11. ASSUME NEW i \in 0..(n - 1), i \in T PROVE i + 1 \in T
  <2> DEFINE s == seen[i]
  <2>1. i + 1 \in 1..n /\ (i + 1) - 1 = i /\ i + 1 \in 0..n /\ \A j \in 1..(i + 1) : j \in 1..i \/ j = i + 1
    BY <1>1
  <2>2. seen[i + 1] = (IF Taken(g(i + 1), s) THEN s \cup {g(i + 1)} ELSE s)
    BY <1>9, <2>1
  <2>3. Good(i, s)
    BY <1>11
  <2> HIDE DEF s
  <2>4. \A h \in seen[i + 1] : \E j \in 1..n : h = g(j)
    BY <2>1, <2>2, <2>3
  <2>5. \A h \in s : h \in seen[i + 1]
    BY <2>2
  <2>6. Cardinality(g(i + 1)) > 1 => \E h \in seen[i + 1] : g(i + 1) \subseteq h
    BY <2>2, <2>5 DEF Taken, Inside
  <2>7. \A j \in 1..(i + 1) : Cardinality(g(j)) > 1 => \E h \in seen[i + 1] : g(j) \subseteq h
    BY <2>1, <2>3, <2>5, <2>6
  <2> QED BY <2>1, <2>4, <2>7
<1>12. \A i \in 0..n : i \in T
  <2> HIDE DEF T
  <2> QED BY <1>1, <1>10, <1>11, LoopInduction
<1>13. Good(n, seen[n])
  BY <1>1, <1>12
<1> QED
  BY <1>13 DEF n, g, seen

\* What the diagram shows of ranks that are integers: the groups are of stacks no
\* more than CD apart, and any two such stacks are in a group.
LEMMA CliquesAre ==
  ASSUME NEW avg, \A s \in Stacks : avg[s] \in Int, NEW CD \in Nat
  PROVE  /\ \A g \in Cliques(avg, CD) : g \in SUBSET Stacks /\ g # {} /\ \A a, b \in g : avg[a] - avg[b] <= CD
         /\ \A a, b \in Stacks : a # b /\ avg[a] <= avg[b] /\ avg[b] - avg[a] <= CD =>
              \E g \in Cliques(avg, CD) : a \in g /\ b \in g
<1> DEFINE n == Len(SIDS)
           order == CdOrder(avg)
           g(i) == Group(order, avg, CD, i)
           seen == Seen(order, avg, CD)[n]
<1>1. /\ n \in Nat /\ order \in Seq(Stacks) /\ Len(order) = n
      /\ \A s \in Stacks : \E i \in 1..n : order[i] = s
      /\ \A i, j \in 1..n : /\ order[i] = order[j] => i = j
                            /\ i < j => avg[order[i]] <= avg[order[j]]
  BY StacksInOrder DEF CdOrder
<1>2. \A i \in 1..n : order[i] \in Stacks /\ avg[order[i]] \in Int
  BY <1>1
<1>3. /\ \A h \in seen : \E i \in 1..n : h = g(i)
      /\ \A i \in 1..n : Cardinality(g(i)) > 1 => \E h \in seen : g(i) \subseteq h
  <2> HIDE DEF order, n
  <2>1. /\ \A h \in Seen(order, avg, CD)[Len(order)] : \E i \in 1..Len(order) : h = Group(order, avg, CD, i)
        /\ \A i \in 1..Len(order) : Cardinality(Group(order, avg, CD, i)) > 1 =>
             \E h \in Seen(order, avg, CD)[Len(order)] : Group(order, avg, CD, i) \subseteq h
    BY <1>1, SeenIs
  <2> QED BY <1>1, <2>1
<1>4. Cliques(avg, CD) = {h \in seen : ~Inside(h, seen)}
  BY DEF Cliques
<1> HIDE DEF n, order, seen
<1>5. ASSUME NEW i \in 1..n
      PROVE  /\ g(i) \in SUBSET Stacks /\ order[i] \in g(i)
             /\ \A s \in g(i) : avg[order[i]] <= avg[s] /\ avg[s] - avg[order[i]] <= CD
             /\ \A j \in i..n : avg[order[j]] - avg[order[i]] <= CD => order[j] \in g(i)
  <2>1. g(i) = {order[j] : j \in {j \in i..n : avg[order[j]] - avg[order[i]] <= CD}}
    BY <1>1 DEF Group
  <2>2. \A j \in i..n : j \in 1..n /\ (j = i \/ i < j)
    BY <1>1
  <2>3. i \in i..n /\ avg[order[i]] - avg[order[i]] <= CD
    BY <1>1, <1>2
  <2>4. ASSUME NEW s \in g(i) PROVE s \in Stacks /\ avg[order[i]] <= avg[s] /\ avg[s] - avg[order[i]] <= CD
    <3>1. PICK j \in i..n : s = order[j] /\ avg[order[j]] - avg[order[i]] <= CD
      BY <2>1
    <3>2. j \in 1..n /\ (j = i \/ i < j)
      BY <2>2
    <3>3. avg[order[i]] <= avg[order[j]]
      BY <1>1, <1>2, <3>2
    <3> QED BY <1>2, <3>1, <3>2, <3>3
  <2> HIDE DEF g
  <2> QED BY <2>1, <2>3, <2>4
<1>6. ASSUME NEW h \in seen PROVE \E m \in Cliques(avg, CD) : h \subseteq m
  <2> DEFINE over == {m \in seen : h \subseteq m}
             sizes == {Cardinality(m) : m \in over}
  <2>1. \A m \in seen : m \in SUBSET Stacks /\ IsFiniteSet(m) /\ Cardinality(m) \in Nat
    BY <1>3, <1>5, StacksFinite, FS_Subset, FS_CardinalityType
  <2>2. Cardinality(Stacks) \in Nat /\ \A m \in seen : Cardinality(m) <= Cardinality(Stacks)
    BY <2>1, StacksFinite, FS_Subset, FS_CardinalityType
  <2> DEFINE rest == {Cardinality(Stacks) - k : k \in sizes}
  <2>3. rest \in SUBSET Nat /\ rest # {}
    <3>1. \A k \in sizes : k \in Nat /\ k <= Cardinality(Stacks)
      BY <2>1, <2>2
    <3>2. Cardinality(h) \in sizes
      OBVIOUS
    <3> HIDE DEF sizes
    <3>3. \A k \in sizes : Cardinality(Stacks) - k \in Nat
      BY <2>2, <3>1
    <3> QED BY <3>2, <3>3
  <2>4. PICK r \in rest : \A q \in rest : r <= q
    <3> HIDE DEF rest
    <3> QED BY <2>3, LeastOf
  <2>5. PICK m \in over : r = Cardinality(Stacks) - Cardinality(m)
    OBVIOUS
  <2>6. ASSUME NEW o \in seen, m \subseteq o, m # o PROVE FALSE
    <3>1. o \in over
      BY <2>6
    <3>2. Cardinality(Stacks) - Cardinality(o) \in rest
      BY <3>1
    <3> HIDE DEF over, sizes, rest
    <3>3. Cardinality(Stacks) - Cardinality(m) <= Cardinality(Stacks) - Cardinality(o)
      BY <2>4, <2>5, <3>2
    <3>4. m \in seen
      BY DEF over
    <3>5. Cardinality(m) <= Cardinality(o) /\ Cardinality(m) # Cardinality(o)
      BY <2>1, <2>6, FS_Subset
    <3> QED BY <2>1, <2>2, <3>3, <3>4, <3>5
  <2>7. m \in Cliques(avg, CD)
    BY <1>4, <2>6 DEF Inside
  <2> QED BY <2>7
<1>7. ASSUME NEW h \in Cliques(avg, CD)
      PROVE  h \in SUBSET Stacks /\ h # {} /\ \A a, b \in h : avg[a] - avg[b] <= CD
  <2>1. PICK i \in 1..n : h = g(i)
    BY <1>3, <1>4
  <2>2. h \in SUBSET Stacks /\ h # {}
    BY <1>5, <2>1
  <2>3. ASSUME NEW a \in h, NEW b \in h PROVE avg[a] - avg[b] <= CD
    <3>1. avg[a] - avg[order[i]] <= CD /\ avg[order[i]] <= avg[b]
      BY <1>5, <2>1
    <3>2. avg[a] \in Int /\ avg[b] \in Int /\ avg[order[i]] \in Int
      BY <1>2, <2>2
    <3> QED BY <3>1, <3>2
  <2> QED BY <2>2, <2>3
<1>8. ASSUME NEW a \in Stacks, NEW b \in Stacks, a # b, avg[a] <= avg[b], avg[b] - avg[a] <= CD
      PROVE  \E h \in Cliques(avg, CD) : a \in h /\ b \in h
  <2>1. PICK i \in 1..n : order[i] = a
    BY <1>1
  <2>2. PICK j \in 1..n : order[j] = b
    BY <1>1
  <2>3. ASSUME NEW k \in 1..n, NEW l \in 1..n, k < l, avg[order[l]] - avg[order[k]] <= CD
        PROVE  \E h \in Cliques(avg, CD) : order[k] \in h /\ order[l] \in h
    <3>1. l \in k..n
      BY <1>1, <2>3
    <3>2. order[k] \in g(k) /\ order[l] \in g(k) /\ g(k) \in SUBSET Stacks
      BY <1>5, <2>3, <3>1
    <3>3. order[k] # order[l]
      BY <1>1, <2>3
    <3>4. IsFiniteSet(g(k))
      BY <3>2, StacksFinite, FS_Subset
    <3>5. Cardinality(g(k)) > 1
      BY <3>2, <3>3, <3>4, MoreThanOne
    <3>6. PICK h \in seen : g(k) \subseteq h
      BY <1>3, <3>5
    <3>7. PICK m \in Cliques(avg, CD) : h \subseteq m
      BY <1>6
    <3> QED BY <3>2, <3>6, <3>7
  <2>4. avg[a] \in Int /\ avg[b] \in Int
    OBVIOUS
  <2>5. avg[a] - avg[b] <= CD
    BY <1>8, <2>4
  <2>6. i # j
    BY <1>8, <2>1, <2>2
  <2>7. i < j \/ j < i
    BY <2>6
  <2> QED BY <1>8, <2>1, <2>2, <2>3, <2>5, <2>7
<1> QED
  BY <1>7, <1>8

LEMMA RanksAre ==
  ASSUME NEW medians \in Seq([Stacks -> Int])
  PROVE  AvgRank(medians) \in [Stacks -> Int]
<1>1. ASSUME NEW row \in [Stacks -> Int], NEW sid \in Stacks PROVE Rank(row, sid) \in Int
  <2> DEFINE L == {s \in Stacks : row[s] < row[sid]}
             E == {s \in Stacks : row[s] = row[sid]}
  <2>1. L \in SUBSET Stacks /\ E \in SUBSET Stacks
    OBVIOUS
  <2>2. Rank(row, sid) = 2 * Cardinality(L) + Cardinality(E) + 1
    BY DEF Rank
  <2> HIDE DEF L, E
  <2>3. Cardinality(L) \in Nat /\ Cardinality(E) \in Nat
    BY <2>1, StacksFinite, FS_Subset, FS_CardinalityType
  <2> QED BY <2>2, <2>3
<1>2. ASSUME NEW sid \in Stacks PROVE SumOf([t \in DOMAIN medians |-> Rank(medians[t], sid)]) \in Int
  <2> DEFINE s == [t \in DOMAIN medians |-> Rank(medians[t], sid)]
  <2>1. \A t \in DOMAIN medians : medians[t] \in [Stacks -> Int]
    OBVIOUS
  <2>2. s \in Seq(Int)
    <3>1. \A t \in 1..Len(medians) : Rank(medians[t], sid) \in Int
      BY <1>1, <2>1
    <3>2. DOMAIN medians = 1..Len(medians) /\ Len(medians) \in Nat
      OBVIOUS
    <3> QED BY <3>1, <3>2
  <2> HIDE DEF s
  <2>3. SumOf(s) \in Int
    BY <2>2, SumType
  <2> QED BY <2>3 DEF s
<1> QED
  BY <1>2 DEF AvgRank

\* Stacks are within CD of one another iff none of the pairs reported is among them.
LEMMA SpansAre ==
  ASSUME NEW avg, \A s \in Stacks : avg[s] \in Int, NEW CD \in Nat, NEW ids \in kSubset(3, Stacks)
  PROVE  rk(avg, ids) <= CD <=> \A pair \in SignificantPairs(avg, CD) : ~(pair \subseteq ids)
<1>1. ids \in SUBSET Stacks /\ Cardinality(ids) = 3
  BY DEF kSubset
<1>2. IsFiniteSet(ids) /\ ids # {}
  BY <1>1, StacksFinite, FS_Subset, FS_EmptySet
<1>3. \A s \in ids : avg[s] \in Int
  BY <1>1
<1> DEFINE most == Max(Values(avg, ids))
           least == Min(Values(avg, ids))
<1>4. /\ \A s \in ids : avg[s] <= most /\ least <= avg[s]
      /\ \E s \in ids : most = avg[s]
      /\ \E s \in ids : least = avg[s]
  BY <1>2, <1>3, Extremes
<1>5. rk(avg, ids) = most - least
  BY DEF rk, Values
<1> HIDE DEF most, least
<1>6. PICK s \in ids : most = avg[s]
  BY <1>4
<1>7. PICK t \in ids : least = avg[t]
  BY <1>4
<1>8. most \in Int /\ least \in Int
  BY <1>3, <1>6, <1>7
<1>9. ASSUME rk(avg, ids) <= CD, NEW pair \in SignificantPairs(avg, CD), pair \subseteq ids PROVE FALSE
  <2>1. PICK a \in pair, b \in pair : avg[a] - avg[b] > CD
    BY DEF SignificantPairs
  <2>2. a \in ids /\ b \in ids
    BY <1>9
  <2>3. avg[a] \in Int /\ avg[b] \in Int /\ avg[a] <= most /\ least <= avg[b]
    BY <1>3, <1>4, <2>2
  <2> QED BY <1>5, <1>8, <1>9, <2>1, <2>3
<1>10. ASSUME ~(rk(avg, ids) <= CD) PROVE \E pair \in SignificantPairs(avg, CD) : pair \subseteq ids
  <2>1. avg[s] - avg[t] > CD
    BY <1>5, <1>6, <1>7, <1>8, <1>10
  <2>2. s # t
    BY <1>6, <1>7, <1>8, <2>1
  <2>3. {s, t} \in kSubset(2, Stacks)
    BY <1>1, <2>2, StacksFinite, PairsAre
  <2>4. {s, t} \in SignificantPairs(avg, CD)
    BY <2>1, <2>3 DEF SignificantPairs
  <2> QED BY <2>4
<1> QED
  BY <1>9, <1>10

\* A pair is not reported iff a bar reaches from one of the two to the other.
LEMMA BarsAre ==
  ASSUME NEW avg, \A s \in Stacks : avg[s] \in Int, NEW CD \in Nat, NEW pair \in kSubset(2, Stacks)
  PROVE  pair \notin SignificantPairs(avg, CD) <=>
           \E g \in Cliques(avg, CD) : \A s \in pair : Bar(g, avg).from <= avg[s] /\ avg[s] <= Bar(g, avg).to
<1>1. PICK a \in Stacks, b \in Stacks : a # b /\ pair = {a, b}
  BY StacksFinite, PairsAre
<1>2. avg[a] \in Int /\ avg[b] \in Int
  OBVIOUS
<1>3. pair \notin SignificantPairs(avg, CD) <=> avg[a] - avg[b] <= CD /\ avg[b] - avg[a] <= CD
  BY <1>1, <1>2 DEF SignificantPairs
<1>4. ASSUME NEW g \in Cliques(avg, CD)
      PROVE  /\ \A s \in g : Bar(g, avg).from <= avg[s] /\ avg[s] <= Bar(g, avg).to
             /\ Bar(g, avg).to - Bar(g, avg).from <= CD
             /\ Bar(g, avg).to \in Int /\ Bar(g, avg).from \in Int
  <2>1. g \in SUBSET Stacks /\ g # {} /\ \A c, d \in g : avg[c] - avg[d] <= CD
    BY CliquesAre
  <2>2. IsFiniteSet(g) /\ \A s \in g : avg[s] \in Int
    BY <2>1, StacksFinite, FS_Subset
  <2>3. /\ \A s \in g : avg[s] <= Max(Values(avg, g)) /\ Min(Values(avg, g)) <= avg[s]
        /\ \E s \in g : Max(Values(avg, g)) = avg[s]
        /\ \E s \in g : Min(Values(avg, g)) = avg[s]
    BY <2>1, <2>2, Extremes
  <2>4. Bar(g, avg).from = Min(Values(avg, g)) /\ Bar(g, avg).to = Max(Values(avg, g))
    BY DEF Bar, Values
  <2> QED BY <2>1, <2>2, <2>3, <2>4
<1>5. ASSUME pair \notin SignificantPairs(avg, CD)
      PROVE  \E g \in Cliques(avg, CD) : \A s \in pair : Bar(g, avg).from <= avg[s] /\ avg[s] <= Bar(g, avg).to
  <2>1. avg[a] - avg[b] <= CD /\ avg[b] - avg[a] <= CD /\ (avg[a] <= avg[b] \/ avg[b] <= avg[a])
    BY <1>2, <1>3, <1>5
  <2>2. PICK g \in Cliques(avg, CD) : a \in g /\ b \in g
    BY <1>1, <2>1, CliquesAre
  <2> QED BY <1>1, <1>4, <2>2
<1>6. ASSUME NEW g \in Cliques(avg, CD),
             \A s \in pair : Bar(g, avg).from <= avg[s] /\ avg[s] <= Bar(g, avg).to
      PROVE  pair \notin SignificantPairs(avg, CD)
  <2> DEFINE from == Bar(g, avg).from
             to == Bar(g, avg).to
  <2>1. from <= avg[a] /\ avg[a] <= to /\ from <= avg[b] /\ avg[b] <= to
    BY <1>1, <1>6
  <2>2. to - from <= CD /\ from \in Int /\ to \in Int
    BY <1>4
  <2> HIDE DEF from, to
  <2> QED BY <1>2, <1>3, <2>1, <2>2
<1> QED
  BY <1>5, <1>6

\* ------------------------------------------------------------------------
\* Stems, bars and tails

LEMMA StemsAre ==
  ASSUME NEW avg, \A s \in Stacks : avg[s] \in Int, NEW i \in 1..Len(SIDS)
  PROVE  /\ Stem(avg, i).row \in 0..(Half - 1)
         /\ \A j \in 1..Len(SIDS) :
              /\ i # j /\ Stem(avg, i).left = Stem(avg, j).left => Stem(avg, i).row # Stem(avg, j).row
              /\ (IF Stem(avg, i).left THEN Stem(avg, j).x < Stem(avg, i).x ELSE Stem(avg, j).x > Stem(avg, i).x) =>
                   Stem(avg, j).row < Stem(avg, i).row
<1> DEFINE n == Len(SIDS)
           order == CdOrder(avg)
           x(k) == avg[order[k]]
           row(k) == IF k <= Half THEN k - 1 ELSE n - k
<1>1. /\ n \in Nat /\ order \in Seq(Stacks) /\ Len(order) = n
      /\ \A j, k \in 1..n : j < k => x(j) <= x(k)
  BY StacksInOrder DEF CdOrder
<1>2. \A k \in 1..n : x(k) \in Int
  <2>1. \A k \in 1..n : order[k] \in Stacks
    BY <1>1
  <2> QED BY <2>1
<1>3. Half \in Nat /\ n <= 2 * Half /\ 2 * Half <= n + 1
  BY <1>1 DEF Half
<1>4. \A k \in 1..n : Stem(avg, k).x = x(k) /\ Stem(avg, k).left = (k <= Half) /\ Stem(avg, k).row = row(k)
  BY DEF Stem
<1> HIDE DEF n, order, x
<1>5. i \in 1..n
  BY DEF n
<1>6. row(i) \in Int /\ 0 <= row(i) /\ row(i) <= Half - 1
  BY <1>1, <1>3, <1>5
<1>7. ASSUME NEW j \in 1..n, i # j, (i <= Half) = (j <= Half) PROVE row(i) # row(j)
  BY <1>1, <1>3, <1>5, <1>7
<1>8. ASSUME NEW j \in 1..n, IF i <= Half THEN x(j) < x(i) ELSE x(j) > x(i) PROVE row(j) < row(i)
  <2>1. j \in Int /\ i \in Int /\ x(i) \in Int /\ x(j) \in Int
    BY <1>2, <1>5
  <2>2. CASE i <= Half
    <3>1. j < i
      BY <1>1, <1>5, <1>8, <2>1, <2>2
    <3> QED BY <1>3, <2>1, <2>2, <3>1
  <2>3. CASE ~(i <= Half)
    <3>1. i < j
      BY <1>1, <1>5, <1>8, <2>1, <2>3
    <3> QED BY <1>1, <1>3, <2>1, <2>3, <3>1
  <2> QED BY <2>2, <2>3
<1> HIDE DEF row
<1>9. row(i) \in 0..(Half - 1)
  BY <1>3, <1>6
<1> QED
  BY <1>4, <1>5, <1>7, <1>8, <1>9 DEF n

\* A length on a track is what is shared out, rounded down.
LEMMA ShareIs ==
  ASSUME NEW v \in Nat, NEW mx \in Nat \ {0}
  PROVE  Share(v, mx) \in Nat /\ \A k \in Nat : k * mx <= v * 1000 <=> k <= Share(v, mx)
<1> DEFINE a == v * 1000
           q == a \div mx
           r == a % mx
<1>1. a \in Nat /\ mx \in Nat /\ mx > 0
  OBVIOUS
<1>2. Share(v, mx) = q
  BY DEF Share
<1> HIDE DEF a
<1>3. q \in Nat /\ r \in Nat /\ a = mx * q + r /\ r < mx
  BY <1>1
<1> HIDE DEF q, r
<1>4. ASSUME NEW k \in Nat PROVE k * mx <= a <=> k <= q
  <2>1. k * mx \in Nat /\ mx * q \in Nat /\ q * mx = mx * q
    BY <1>1, <1>3
  <2>2. CASE k <= q
    <3>1. PICK d \in Nat : q = k + d
      <4>1. q - k \in Nat /\ q = k + (q - k)
        BY <1>3, <2>2
      <4> QED BY <4>1
    <3>2. (k + d) * mx = k * mx + d * mx /\ d * mx \in Nat
      BY <1>1
    <3>3. q * mx = k * mx + d * mx
      BY <3>1, <3>2
    <3> QED BY <1>3, <2>1, <2>2, <3>2, <3>3
  <2>3. CASE ~(k <= q)
    <3>1. PICK d \in Nat : k = q + 1 + d
      <4>1. k - q - 1 \in Nat /\ k = q + 1 + (k - q - 1)
        BY <1>3, <2>3
      <4> QED BY <4>1
    <3>2. (q + 1 + d) * mx = q * mx + mx + d * mx /\ d * mx \in Nat
      BY <1>1, <1>3
    <3>3. k * mx = q * mx + mx + d * mx
      BY <3>1, <3>2
    <3> QED BY <1>1, <1>3, <2>1, <2>3, <3>2, <3>3
  <2> QED BY <2>2, <2>3
<1>5. \A k \in Nat : k * mx <= a <=> k <= q
  BY <1>4
<1> QED
  BY <1>2, <1>3, <1>5 DEF a

LEMMA ShareCounts ==
  ASSUME NEW v \in Nat, NEW mx \in Nat \ {0}
  PROVE  Share(v, mx) \in Nat
BY ShareIs

LEMMA ShareReaches ==
  ASSUME NEW v \in Nat, NEW mx \in Nat \ {0}, NEW k \in Nat, k * mx <= v * 1000
  PROVE  k <= Share(v, mx)
BY ShareIs

LEMMA SharesAre ==
  ASSUME NEW mx \in Nat \ {0}
  PROVE  /\ \A v, w \in Nat : v <= w => Share(v, mx) <= Share(w, mx)
         /\ \A v \in Nat : v <= mx => Share(v, mx) <= 1000
         /\ \A v \in Nat : Share(v, mx) > 1000 => v > mx
         /\ Share(mx, mx) = 1000
<1>1. ASSUME NEW v \in Nat, NEW w \in Nat, v <= w PROVE Share(v, mx) <= Share(w, mx)
  <2>1. Share(v, mx) \in Nat /\ Share(v, mx) * mx <= v * 1000
    BY ShareIs
  <2>2. Share(v, mx) * mx <= w * 1000
    <3>1. PICK k \in Nat : k = Share(v, mx) * mx
      BY <2>1
    <3> QED BY <1>1, <2>1, <3>1
  <2> QED BY <2>1, <2>2, ShareIs
<1>2. ASSUME NEW v \in Nat, v <= mx PROVE Share(v, mx) <= 1000
  <2>1. Share(v, mx) \in Nat /\ (1001 * mx <= v * 1000 <=> 1001 <= Share(v, mx))
    BY ShareIs
  <2> QED BY <1>2, <2>1
<1>3. Share(mx, mx) >= 1000
  <2>1. Share(mx, mx) \in Nat /\ (1000 * mx <= mx * 1000 <=> 1000 <= Share(mx, mx))
    BY ShareIs
  <2> QED BY <2>1
<1>4. Share(mx, mx) = 1000
  <2>1. Share(mx, mx) \in Nat /\ mx <= mx
    BY ShareIs
  <2> QED BY <1>2, <1>3, <2>1
<1>5. ASSUME NEW v \in Nat, Share(v, mx) > 1000 PROVE v > mx
  <2>1. Share(v, mx) \in Nat
    BY ShareIs
  <2> QED BY <1>2, <1>5, <2>1
<1> QED
  BY <1>1, <1>2, <1>4, <1>5

LEMMA ShareWithin ==
  ASSUME NEW v \in Nat, NEW mx \in Nat \ {0}, v <= mx
  PROVE  Share(v, mx) <= 1000
BY SharesAre

LEMMA WidthsAre ==
  ASSUME NEW mx \in Nat \ {0}, NEW v \in Nat, NEW w \in Nat
  PROVE  /\ Width(v, mx) \in Nat /\ 12 <= Width(v, mx)
         /\ v <= mx => Width(v, mx) <= 1000
         /\ v <= w => Width(v, mx) <= Width(w, mx)
         /\ v = mx => Width(v, mx) = 1000
<1>1. /\ Share(v, mx) \in Nat /\ Share(w, mx) \in Nat
      /\ v <= w => Share(v, mx) <= Share(w, mx)
      /\ v <= mx => Share(v, mx) <= 1000
      /\ v = mx => Share(v, mx) = 1000
  <2>1. Share(v, mx) \in Nat /\ Share(w, mx) \in Nat
    BY ShareCounts
  <2>2. /\ v <= w => Share(v, mx) <= Share(w, mx)
        /\ v <= mx => Share(v, mx) <= 1000
        /\ v = mx => Share(v, mx) = 1000
    BY SharesAre
  <2> QED BY <2>1, <2>2
<1>2. ASSUME NEW x \in Nat PROVE Max({12, x}) = IF 12 >= x THEN 12 ELSE x
  BY GreatestOfTwo
<1>3. /\ Width(v, mx) = IF 12 >= Share(v, mx) THEN 12 ELSE Share(v, mx)
      /\ Width(w, mx) = IF 12 >= Share(w, mx) THEN 12 ELSE Share(w, mx)
  BY <1>1, <1>2 DEF Width
<1> QED
  BY <1>1, <1>3

\* The rows of a chart with whiskers.
LEMMA UpTo ==
  ASSUME NEW m \in Nat, NEW v \in Nat, v <= m
  PROVE  v \in 0..m
OBVIOUS

LEMMA BarsInTrackAre ==
  ASSUME NEW rows, BarInput(rows)
  PROVE  InTrack(rows, BarRows(rows))
<1>. DOMAIN BarRows(rows) = DOMAIN rows
  BY DEF BarRows
<1> SUFFICES ASSUME NEW i \in DOMAIN BarRows(rows), NEW j \in DOMAIN BarRows(rows)
             PROVE  /\ Visible(BarRows(rows)[i]) /\ OnTrack(BarRows(rows)[i])
                    /\ Longer(rows, BarRows(rows), i, j)
  BY DEF InTrack
<1> DEFINE R == [value : Nat \ {0}, ci : Nat \X Nat]
           upper == [r \in Range(rows) |-> r.ci[2]]
           mx == BarScale(rows)
<1>1. /\ rows \in Seq(R) /\ Range(rows) = ToSet(rows) /\ \A k \in DOMAIN rows : rows[k] \in Range(rows)
      /\ \A r \in Range(rows) : /\ r.value \in Nat \ {0} /\ r.ci[1] \in Nat /\ r.ci[2] \in Nat
                                /\ r.ci[1] <= r.value /\ r.value <= r.ci[2]
  <2>1. /\ rows \in Seq(R)
        /\ \A k \in DOMAIN rows : rows[k].ci[1] <= rows[k].value /\ rows[k].value <= rows[k].ci[2]
    BY DEF BarInput
  <2>2. \A k \in DOMAIN rows : rows[k] \in R
    <3> HIDE DEF R
    <3> QED BY <2>1
  <2>3. \A k \in DOMAIN rows : rows[k].value \in Nat \ {0} /\ rows[k].ci[1] \in Nat /\ rows[k].ci[2] \in Nat
    BY <2>2
  <2> QED BY <2>1, <2>3 DEF Range, ToSet
<1>2. IsFiniteSet(Range(rows)) /\ Range(rows) # {}
  BY <1>1, NoMoreThanPlaces
<1>3. \A r \in Range(rows) : upper[r] = r.ci[2] /\ upper[r] \in Int
  BY <1>1, SMTT(30)
<1>4. mx = Max(Values(upper, Range(rows)))
  <2>1. Values(upper, Range(rows)) = {r.ci[2] : r \in Range(rows)}
    BY DEF Values
  <2> QED BY <2>1 DEF BarScale
<1> HIDE DEF mx, upper
<1>5. (\A r \in Range(rows) : upper[r] <= mx) /\ \E r \in Range(rows) : mx = upper[r]
  BY <1>2, <1>3, <1>4, Extremes
<1>6. \A r \in Range(rows) : r.ci[2] <= mx /\ mx \in Nat
  BY <1>1, <1>3, <1>5
<1>7. rows[i] \in Range(rows) /\ rows[j] \in Range(rows)
  BY <1>1
<1>8. ASSUME NEW r \in Range(rows)
      PROVE  /\ r.value \in Nat /\ r.value <= mx /\ r.ci[1] \in Nat /\ r.ci[1] <= mx
             /\ r.ci[2] \in Nat /\ r.ci[2] <= mx /\ mx \in Nat \ {0}
  <2>1. /\ r.value \in Nat \ {0} /\ r.ci[1] \in Nat /\ r.ci[2] \in Nat
        /\ r.ci[1] <= r.value /\ r.value <= r.ci[2]
    BY <1>1
  <2>2. r.ci[2] <= mx /\ mx \in Nat
    BY <1>6
  <2> QED BY <2>1, <2>2
<1>9. /\ BarRows(rows)[i].width = Width(rows[i].value, mx)
      /\ BarRows(rows)[j].width = Width(rows[j].value, mx)
      /\ BarRows(rows)[i].whiskers = <<Share(rows[i].ci[1], mx), Share(rows[i].ci[2], mx)>>
  BY DEF BarRows, BarRow, mx
<1>10. ASSUME NEW r \in Range(rows)
       PROVE  /\ Width(r.value, mx) \in Nat /\ 12 <= Width(r.value, mx) /\ Width(r.value, mx) <= 1000
  <2>1. PICK v \in Nat : v = r.value /\ v <= mx /\ mx \in Nat \ {0}
    BY <1>8
  <2>2. Width(v, mx) \in Nat /\ 12 <= Width(v, mx) /\ Width(v, mx) <= 1000
    BY <2>1, WidthsAre
  <2> QED BY <2>1, <2>2
<1>11. ASSUME NEW v \in Nat, v <= mx PROVE Share(v, mx) \in Nat /\ Share(v, mx) <= 1000
  <2>1. PICK m \in Nat \ {0} : m = mx
    BY <1>7, <1>8
  <2>2. Share(v, m) \in Nat
    BY ShareCounts
  <2>3. Share(v, m) <= 1000
    <3>1. v <= m
      BY <1>11, <2>1
    <3> QED BY <3>1, ShareWithin
  <2> QED BY <2>1, <2>2, <2>3
<1>12. Range(BarRows(rows)[i].whiskers) \subseteq 0..1000
  <2> DEFINE x == Share(rows[i].ci[1], mx)
             y == Share(rows[i].ci[2], mx)
  <2>1. x \in 0..1000 /\ y \in 0..1000
    <3>1. PICK v \in Nat : v = rows[i].ci[1] /\ v <= mx
      BY <1>7, <1>8
    <3>2. PICK w \in Nat : w = rows[i].ci[2] /\ w <= mx
      BY <1>7, <1>8
    <3>3. Share(v, mx) \in Nat /\ Share(v, mx) <= 1000
      BY <1>11, <3>1
    <3>4. Share(w, mx) \in Nat /\ Share(w, mx) <= 1000
      BY <1>11, <3>2
    <3>5. x = Share(v, mx) /\ y = Share(w, mx)
      BY <3>1, <3>2
    <3> HIDE DEF x, y
    <3>6. x \in Nat /\ x <= 1000
      BY <3>3, <3>5
    <3>7. y \in Nat /\ y <= 1000
      BY <3>4, <3>5
    <3> QED BY <3>6, <3>7, UpTo
  <2> HIDE DEF x, y
  <2>2. Range(<<x, y>>) = {x, y}
    <3>1. DOMAIN <<x, y>> = 1..2 /\ \A k \in 1..2 : k = 1 \/ k = 2
      OBVIOUS
    <3> QED BY <3>1 DEF Range
  <2>3. Range(BarRows(rows)[i].whiskers) = {x, y}
    BY <1>9, <2>2 DEF x, y
  <2> QED BY <2>1, <2>3
<1>13. ASSUME rows[i].value >= rows[j].value
       PROVE  Width(rows[i].value, mx) >= Width(rows[j].value, mx)
  <2>1. PICK v \in Nat : v = rows[i].value
    BY <1>7, <1>8
  <2>2. PICK w \in Nat : w = rows[j].value
    BY <1>7, <1>8
  <2>3. mx \in Nat \ {0} /\ w <= v
    BY <1>7, <1>8, <1>13, <2>1, <2>2
  <2>4. Width(w, mx) <= Width(v, mx) /\ Width(w, mx) \in Nat /\ Width(v, mx) \in Nat
    BY <2>3, WidthsAre
  <2> QED BY <2>1, <2>2, <2>4
<1>14. BarRows(rows)[i].width \in 12..1000
  <2>1. PICK k \in Nat : k = Width(rows[i].value, mx) /\ 12 <= k /\ k <= 1000
    BY <1>7, <1>10
  <2>2. BarRows(rows)[i].width = k
    BY <1>9, <2>1
  <2>3. k \in 12..1000
    BY <2>1
  <2> QED BY <2>2, <2>3
<1>15. ASSUME rows[i].value >= rows[j].value
       PROVE  BarRows(rows)[i].width >= BarRows(rows)[j].width
  BY <1>9, <1>13, <1>15
<1>16. Visible(BarRows(rows)[i])
  BY <1>14, Zenon DEF Visible
<1>17. OnTrack(BarRows(rows)[i])
  BY <1>12, Zenon DEF OnTrack
<1>18. Longer(rows, BarRows(rows), i, j)
  BY <1>15 DEF Longer
<1> QED
  BY <1>16, <1>17, <1>18

\* The middle one of three values is at most v iff two of them are.
Middle(c) == Sorted(c, [v \in Range(c) |-> v])[2]

LEMMA MiddleIs ==
  ASSUME NEW c \in [1..3 -> Nat]
  PROVE  /\ Middle(c) \in Range(c) /\ Middle(c) \in Nat
         /\ \A v \in Nat : Middle(c) <= v <=> Cardinality(Below(c, v)) >= 2
<1> DEFINE key == [v \in Range(c) |-> v]
           D == 1..3
<1>1. c \in Seq(Nat) /\ Len(c) = 3 /\ DOMAIN c = D
  <2> HIDE DEF key
  <2>1. PICK n \in Nat : n = 3
    OBVIOUS
  <2>2. c \in [1..n -> Nat]
    BY <2>1
  <2>3. c \in Seq(Nat) /\ Len(c) = n
    BY <2>2
  <2> QED BY <2>1, <2>3
<1>2. \A i \in D : c[i] \in Range(c) /\ key[c[i]] = c[i] /\ c[i] \in Int
  BY DEF Range
<1>3. PICK order \in Bijection(D, D) :
        /\ Sorted(c, key) = [k \in D |-> c[order[k]]]
        /\ \A i, j \in D : i < j => key[c[order[i]]] <= key[c[order[j]]]
  <2> HIDE DEF key
  <2>1. \A i \in 1..Len(c) : key[c[i]] \in Int
    BY <1>1, <1>2
  <2> QED BY <1>1, <2>1, SortedIs
<1>4. /\ order \in [D -> D] /\ \A i, j \in D : order[i] = order[j] => i = j
      /\ \A k \in D : \E i \in D : order[i] = k
  BY DEF Bijection, Injection, Surjection, IsInjective
<1> DEFINE a == order[1]
           b == order[2]
           d == order[3]
<1>5. a \in D /\ b \in D /\ d \in D /\ a # b /\ \A w \in D : w = a \/ w = b \/ w = d
  BY <1>4
<1>6. Middle(c) = c[b]
  BY <1>3 DEF Middle
<1>7. c[a] <= c[b] /\ c[b] <= c[d]
  <2>1. key[c[a]] <= key[c[b]] /\ key[c[b]] <= key[c[d]]
    BY <1>3
  <2> HIDE DEF key, a, b, d
  <2> QED BY <1>2, <1>5, <2>1
<1> HIDE DEF a, b, d, key
<1>8. c[a] \in Nat /\ c[b] \in Nat /\ c[d] \in Nat
  BY <1>5
<1>9. ASSUME NEW v \in Nat PROVE IsFiniteSet(Below(c, v))
  <2>1. IsFiniteSet(D) /\ Below(c, v) \in SUBSET D
    BY FirstNumbers DEF Below
  <2> QED BY <2>1, FS_Subset
<1>10. ASSUME NEW v \in Nat, c[b] <= v PROVE Cardinality(Below(c, v)) >= 2
  <2>1. a \in Below(c, v) /\ b \in Below(c, v)
    BY <1>5, <1>7, <1>8, <1>10 DEF Below
  <2>2. Cardinality(Below(c, v)) > 1 /\ Cardinality(Below(c, v)) \in Nat
    BY <1>5, <1>9, <2>1, MoreThanOne, FS_CardinalityType
  <2> QED BY <2>2
<1>11. ASSUME NEW v \in Nat, ~(c[b] <= v) PROVE ~(Cardinality(Below(c, v)) >= 2)
  <2>1. Below(c, v) \in SUBSET {a}
    <3>1. ~(c[d] <= v)
      BY <1>7, <1>8, <1>11
    <3> QED BY <1>5, <1>11, <3>1 DEF Below
  <2>2. IsFiniteSet({a}) /\ Cardinality({a}) = 1
    BY FS_Singleton
  <2>3. Cardinality(Below(c, v)) <= 1 /\ Cardinality(Below(c, v)) \in Nat
    BY <1>9, <2>1, <2>2, FS_Subset, FS_CardinalityType, ZenonT(30)
  <2> QED BY <2>3
<1> QED
  BY <1>2, <1>5, <1>6, <1>8, <1>10, <1>11

\* The rows of the chart of costs.
LEMMA CostsAre ==
  ASSUME NEW cost \in [Stacks -> [1..3 -> Nat \ {0}]]
  PROVE  CheapestFirst(cost, f_cost(cost))
<1> DEFINE n == Len(SIDS)
           med(s) == Sorted(cost[s], [v \in Range(cost[s]) |-> v])[2]
           key == [s \in Stacks |-> med(s)]
           order == Sorted(SIDS, key)
           mx == Max({med(s) : s \in Stacks})
           rows == f_cost(cost)
<1>1. \A s \in Stacks : key[s] = Middle(cost[s])
  BY DEF Middle
<1>2. rows = [i \in DOMAIN order |-> [stack |-> order[i], width |-> Width(key[order[i]], mx)]]
  <2>1. rows = [i \in DOMAIN order |-> [stack |-> order[i], width |-> Width(med(order[i]), mx)]]
    BY DEF f_cost
  <2>2. \A i \in DOMAIN order : order[i] \in Stacks
    <3>1. \A s \in Stacks : key[s] \in Int
      <4> HIDE DEF key
      <4> SUFFICES ASSUME NEW s \in Stacks PROVE Middle(cost[s]) \in Int
        BY <1>1
      <4>1. cost[s] \in [1..3 -> Nat]
        OBVIOUS
      <4>2. Middle(cost[s]) \in Nat
        BY <4>1, MiddleIs
      <4> QED BY <4>2
    <3> HIDE DEF key
    <3>2. order \in Seq(Stacks)
      BY <3>1, StacksInOrder
    <3> HIDE DEF order
    <3> QED BY <3>2
  <2>3. \A i \in DOMAIN order : med(order[i]) = key[order[i]]
    <3> HIDE DEF order, med
    <3> QED BY <2>2
  <2> HIDE DEF order, med, key, mx, rows
  <2> QED BY <2>1, <2>3
<1>3. {med(s) : s \in Stacks} = {key[s] : s \in Stacks}
  OBVIOUS
<1>4. mx = Max({key[s] : s \in Stacks})
  <2> HIDE DEF key, med
  <2> QED BY <1>3
<1> HIDE DEF key, order, mx, rows
<1>5. \A s \in Stacks : key[s] \in Nat \ {0}
  <2> SUFFICES ASSUME NEW s \in Stacks PROVE Middle(cost[s]) \in Nat \ {0}
    BY <1>1
  <2>1. cost[s] \in [1..3 -> Nat] /\ \A v \in Range(cost[s]) : v \in Nat \ {0}
    BY DEF Range
  <2> QED BY <2>1, MiddleIs
<1>6. /\ n \in Nat /\ order \in Seq(Stacks) /\ Len(order) = n
      /\ \A s \in Stacks : \E i \in 1..n : order[i] = s
      /\ \A i, j \in 1..n : i < j => key[order[i]] <= key[order[j]]
  BY <1>5, StacksInOrder DEF order
<1> HIDE DEF n
<1>7. /\ DOMAIN rows = 1..n /\ Len(rows) = n
      /\ \A i \in 1..n : rows[i].stack = order[i] /\ rows[i].width = Width(key[order[i]], mx)
  <2>1. DOMAIN order = 1..n
    BY <1>6
  <2>2. DOMAIN rows = 1..n
    BY <1>2, <2>1
  <2>3. Len(rows) = n
    <3> DEFINE V == {[stack |-> order[i], width |-> Width(key[order[i]], mx)] : i \in 1..n}
    <3>1. rows \in [1..n -> V]
      BY <1>2, <2>1
    <3> HIDE DEF V
    <3>2. rows \in Seq(V)
      BY <1>6, <3>1
    <3> QED BY <1>6, <2>2, <3>2
  <2> QED BY <1>2, <2>1, <2>2, <2>3
<1>8. Stacks # {} /\ (\A s \in Stacks : key[s] <= mx) /\ \E s \in Stacks : mx = key[s]
  <2>1. Stacks # {} /\ \A s \in Stacks : key[s] \in Int
    BY <1>5, PlanAssumption
  <2>2. mx = Max(Values(key, Stacks))
    BY <1>4 DEF Values
  <2> HIDE DEF key
  <2> QED BY <2>1, <2>2, StacksFinite, Extremes
<1>9. mx \in Nat \ {0} /\ \A i \in 1..n : order[i] \in Stacks
  BY <1>5, <1>6, <1>8
<1>10. ASSUME NEW i \in 1..n, NEW j \in 1..n, i < j PROVE rows[i].width <= rows[j].width
  <2>1. key[order[i]] \in Nat /\ key[order[j]] \in Nat /\ key[order[i]] <= key[order[j]]
    BY <1>5, <1>6, <1>9, <1>10
  <2>2. PICK v \in Nat : v = key[order[i]]
    BY <2>1
  <2>3. PICK w \in Nat : w = key[order[j]]
    BY <2>1
  <2>4. v <= w /\ mx \in Nat \ {0}
    BY <1>9, <2>1, <2>2, <2>3
  <2>5. Width(v, mx) <= Width(w, mx)
    BY <2>4, WidthsAre
  <2> QED BY <1>7, <2>2, <2>3, <2>5
<1>11. ASSUME NEW i \in 1..n, NEW j \in 1..n, i < j, NEW v \in Range(cost[order[j]]),
              Cardinality(Below(cost[order[j]], v)) >= 2
       PROVE  Cardinality(Below(cost[order[i]], v)) >= 2
  <2>1. cost[order[i]] \in [1..3 -> Nat] /\ cost[order[j]] \in [1..3 -> Nat] /\ v \in Nat
    BY <1>9 DEF Range
  <2>2. Middle(cost[order[j]]) <= v
    BY <1>11, <2>1, MiddleIs
  <2>3. key[order[i]] = Middle(cost[order[i]]) /\ key[order[j]] = Middle(cost[order[j]])
    BY <1>1, <1>9
  <2>4. key[order[i]] <= key[order[j]] /\ key[order[i]] \in Nat /\ key[order[j]] \in Nat
    BY <1>5, <1>6, <1>9, <1>11
  <2>5. Middle(cost[order[i]]) <= v
    BY <2>1, <2>2, <2>3, <2>4
  <2> QED BY <2>1, <2>5, MiddleIs
<1>12. rows[n].width = 1000
  <2>1. PICK s \in Stacks : mx = key[s]
    BY <1>8
  <2>2. PICK i \in 1..n : order[i] = s
    BY <1>6
  <2>3. n \in 1..n /\ (i = n \/ i < n)
    BY <1>6
  <2>4. key[order[n]] = mx
    <3>1. key[order[n]] <= mx /\ key[order[n]] \in Nat
      BY <1>5, <1>8, <1>9, <2>3
    <3>2. mx <= key[order[n]]
      BY <1>6, <1>9, <2>1, <2>2, <2>3, <3>1
    <3> QED BY <1>9, <3>1, <3>2
  <2>5. PICK v \in Nat : v = key[order[n]]
    BY <1>9, <2>4
  <2>6. Width(v, mx) = 1000
    BY <1>9, <2>4, <2>5, WidthsAre
  <2> QED BY <1>7, <2>3, <2>5, <2>6
<1>13. ASSUME NEW i \in DOMAIN rows, NEW j \in DOMAIN rows, i < j
       PROVE  /\ rows[i].width <= rows[j].width
              /\ \A v \in Range(cost[rows[j].stack]) :
                   Cardinality(Below(cost[rows[j].stack], v)) >= 2 => Cardinality(Below(cost[rows[i].stack], v)) >= 2
  <2>1. i \in 1..n /\ j \in 1..n /\ rows[i].stack = order[i] /\ rows[j].stack = order[j]
    BY <1>7
  <2> QED BY <1>10, <1>11, <1>13, <2>1
<1> QED
  BY <1>7, <1>12, <1>13 DEF rows, CheapestFirst

\* The rows of the chart of tails.
LEMMA TailsAre ==
  ASSUME NEW d, TailInput(d), Len(SIDS) > 1
  PROVE  LET rows == TailRows(d.p50, d.p99)
             n == Len(rows)
         IN /\ \A i \in 1..n : rows[i].clipped => i = n
            /\ rows[n - 1].w99 >= 900 /\ rows[n].w99 <= 1000
<1> DEFINE n == Len(SIDS)
           p50 == d.p50
           p99 == d.p99
           order == Sorted(SIDS, p99)
           key == [s \in Stacks |-> -p99[s]]
           down == Sorted(SIDS, key)
           scale == TailScale(p99)
           rows == TailRows(p50, p99)
           Cut(v) == Min({1000, v})
<1>1. p50 \in [Stacks -> Nat] /\ p99 \in [Stacks -> Nat \ {0}]
  BY DEF TailInput
<1>2. /\ \A s \in Stacks : key[s] = -p99[s]
      /\ scale = 106 * p99[down[2]]
      /\ rows = [i \in DOMAIN order |-> TailRow(order[i], p50, p99)]
  BY DEF TailScale, TailRows
<1> HIDE DEF p50, p99, key
<1>3. /\ n \in Nat /\ order \in Seq(Stacks) /\ Len(order) = n
      /\ \A s \in Stacks : \E i \in 1..n : order[i] = s
      /\ \A i, j \in 1..n : order[i] = order[j] => i = j
      /\ \A i, j \in 1..n : i < j => p99[order[i]] <= p99[order[j]]
  <2>1. ASSUME NEW s \in Stacks PROVE p99[s] \in Int
    <3>1. p99[s] \in Nat \ {0}
      BY <1>1
    <3> QED BY <3>1
  <2> QED BY <2>1, StacksInOrder
<1>4. /\ down \in Seq(Stacks) /\ Len(down) = n
      /\ \A s \in Stacks : \E i \in 1..n : down[i] = s
      /\ \A i, j \in 1..n : down[i] = down[j] => i = j
      /\ \A i, j \in 1..n : i < j => key[down[i]] <= key[down[j]]
  <2>1. \A s \in Stacks : key[s] \in Int
    <3> HIDE DEF order, down, scale, rows
    <3> SUFFICES ASSUME NEW s \in Stacks PROVE key[s] \in Int
      OBVIOUS
    <3>1. p99[s] \in Nat /\ key[s] = -p99[s]
      BY <1>1, <1>2
    <3> QED BY <3>1
  <2> QED BY <2>1, StacksInOrder
<1> HIDE DEF n, order, down, scale, rows
<1>5. n > 1 /\ n \in Nat
  BY <1>3 DEF n
<1>6. \A i \in 1..n : order[i] \in Stacks /\ down[i] \in Stacks
  BY <1>3, <1>4
<1>7. \A s \in Stacks : p99[s] \in Nat \ {0}
  BY <1>1
<1>8. PICK first \in Stacks : first = down[1]
  BY <1>5, <1>6
<1>9. PICK second \in Stacks : second = down[2]
  BY <1>5, <1>6
<1>10. /\ first # second /\ p99[first] >= p99[second]
       /\ \A s \in Stacks : p99[s] > p99[second] => s = first
  <2>1. 1 \in 1..n /\ 2 \in 1..n
    BY <1>5
  <2>2. first # second
    BY <1>4, <1>8, <1>9, <2>1
  <2>3. key[first] <= key[second]
    BY <1>4, <1>8, <1>9, <2>1
  <2>4. p99[first] >= p99[second]
    BY <1>2, <1>7, <2>3
  <2>5. ASSUME NEW s \in Stacks, p99[s] > p99[second] PROVE s = first
    <3>1. PICK k \in 1..n : down[k] = s
      BY <1>4
    <3>2. CASE k = 1
      BY <1>8, <3>1, <3>2
    <3>3. CASE k = 2
      BY <1>7, <1>9, <2>5, <3>1, <3>3
    <3>4. CASE k > 2
      <4>1. key[second] <= key[s]
        BY <1>4, <1>9, <2>1, <3>1, <3>4
      <4> QED BY <1>2, <1>7, <2>5, <4>1
    <3> QED BY <1>5, <3>2, <3>3, <3>4
  <2> QED BY <2>2, <2>4, <2>5
<1>11. scale \in Nat \ {0} /\ scale = 106 * p99[second]
  BY <1>2, <1>7, <1>9
<1>12. DOMAIN rows = 1..n /\ Len(rows) = n
  <2> DEFINE V == {TailRow(order[i], p50, p99) : i \in 1..n}
  <2>1. rows \in [1..n -> V]
    BY <1>2, <1>3
  <2> HIDE DEF V
  <2>2. rows \in Seq(V)
    BY <1>5, <2>1
  <2> QED BY <1>5, <2>1, <2>2
<1>13. ASSUME NEW i \in 1..n PROVE rows[i] = TailRow(order[i], p50, p99)
  BY <1>2, <1>3
<1>18. ASSUME NEW i \in 1..n PROVE rows[i].clipped = (100 * p99[order[i]] > scale)
  <2>1. \A s : TailRow(s, p50, p99).clipped = (100 * p99[s] > scale)
    BY Zenon DEF TailRow, scale
  <2>2. rows[i] = TailRow(order[i], p50, p99)
    BY <1>13
  <2>3. TailRow(order[i], p50, p99).clipped = (100 * p99[order[i]] > scale)
    BY <2>1, Zenon
  <2> QED BY <2>2, <2>3, Zenon
<1>20. ASSUME NEW i \in 1..n PROVE rows[i].w99 = Cut(Share(100 * p99[order[i]], scale))
  <2>1. \A s : TailRow(s, p50, p99).w99 = Cut(Share(100 * p99[s], scale))
    BY Zenon DEF TailRow, scale
  <2> HIDE DEF Cut
  <2>2. rows[i] = TailRow(order[i], p50, p99)
    BY <1>13
  <2> QED BY <2>1, <2>2
<1>14. ASSUME NEW i \in 1..n, rows[i].clipped PROVE i = n
  <2>1. 100 * p99[order[i]] > scale /\ order[i] \in Stacks
    <3>1. order[i] \in Stacks
      BY <1>6
    <3>2. rows[i].clipped = (100 * p99[order[i]] > scale)
      BY <1>18, Zenon
    <3>3. 100 * p99[order[i]] > scale
      BY <1>14, <3>2, Zenon
    <3> QED BY <3>1, <3>3
  <2>2. p99[order[i]] > p99[second]
    BY <1>7, <1>11, <2>1
  <2>3. order[i] = first
    BY <1>10, <2>1, <2>2
  <2>4. n \in 1..n /\ order[n] \in Stacks /\ (i = n \/ i < n)
    BY <1>5, <1>6
  <2>5. CASE i < n
    <3>1. p99[order[i]] <= p99[order[n]]
      BY <1>3, <2>4, <2>5
    <3>2. p99[order[n]] > p99[second]
      BY <1>7, <2>1, <2>2, <2>4, <3>1
    <3>3. order[n] = first
      BY <1>10, <2>4, <3>2
    <3> QED BY <1>3, <2>3, <2>4, <3>3
  <2> QED BY <2>4, <2>5
<1>16. rows[n - 1].w99 >= 900
  <2>1. n - 1 \in 1..n
    BY <1>5
  <2>2. p99[order[n - 1]] >= p99[second]
    <3>1. PICK i \in 1..n : order[i] = first
      BY <1>3
    <3>2. PICK j \in 1..n : order[j] = second
      BY <1>3
    <3>3. i # j
      BY <1>10, <3>1, <3>2
    <3>4. PICK k \in 1..n : k <= n - 1 /\ p99[order[k]] >= p99[second]
      <4>1. i <= n - 1 \/ j <= n - 1
        BY <1>5, <3>3
      <4>2. p99[second] >= p99[second]
        BY <1>7
      <4> QED BY <1>10, <3>1, <3>2, <4>1, <4>2
    <3>5. CASE k = n - 1
      BY <3>4, <3>5
    <3>6. CASE k < n - 1
      <4>1. p99[order[k]] <= p99[order[n - 1]]
        BY <1>3, <2>1, <3>6
      <4>2. order[k] \in Stacks /\ order[n - 1] \in Stacks
        BY <1>6, <2>1
      <4> QED BY <1>7, <3>4, <4>1, <4>2
    <3> QED BY <1>5, <3>4, <3>5, <3>6
  <2>3. PICK v \in Nat : v = 100 * p99[order[n - 1]]
    BY <1>6, <1>7, <2>1
  <2>4. 900 * scale <= v * 1000
    <3>1. PICK x \in Nat : x = p99[second]
      BY <1>7
    <3>2. PICK y \in Nat : y = p99[order[n - 1]]
      BY <1>6, <1>7, <2>1
    <3>3. scale = 106 * x /\ v = 100 * y /\ x <= y
      BY <1>11, <2>2, <2>3, <3>1, <3>2
    <3> QED BY <3>3
  <2>5. Share(v, scale) \in Nat /\ 900 <= Share(v, scale)
    <3>1. Share(v, scale) \in Nat
      BY <1>11, ShareCounts
    <3>2. 900 <= Share(v, scale)
      BY <1>11, <2>4, ShareReaches
    <3> QED BY <3>1, <3>2
  <2>6. Cut(Share(v, scale)) = IF 1000 <= Share(v, scale) THEN 1000 ELSE Share(v, scale)
    BY <2>5, LeastOfTwo
  <2>7. rows[n - 1].w99 = Cut(Share(v, scale))
    <3> DEFINE k == n - 1
    <3> HIDE DEF k, Cut
    <3>1. k \in 1..n
      BY <2>1 DEF k
    <3>2. rows[k].w99 = Cut(Share(100 * p99[order[k]], scale))
      BY <1>20, <3>1
    <3> QED BY <2>3, <3>2 DEF k
  <2> QED BY <2>5, <2>6, <2>7
<1>17. rows[n].w99 <= 1000
  <2>1. n \in 1..n
    BY <1>5
  <2>2. PICK v \in Nat : v = 100 * p99[order[n]]
    BY <1>6, <1>7, <2>1
  <2>3. Share(v, scale) \in Nat
    BY <1>11, ShareCounts
  <2>4. Cut(Share(v, scale)) = IF 1000 <= Share(v, scale) THEN 1000 ELSE Share(v, scale)
    BY <2>3, LeastOfTwo
  <2>5. rows[n].w99 = Cut(Share(v, scale))
    <3>1. rows[n].w99 = Cut(Share(100 * p99[order[n]], scale))
      <4> HIDE DEF Cut
      <4> QED BY <1>20, <2>1
    <3> QED BY <2>2, <3>1
  <2> QED BY <2>3, <2>4, <2>5
<1>21. rows = TailRows(d.p50, d.p99)
  BY DEF rows, p50, p99
<1> QED
  BY <1>12, <1>14, <1>16, <1>17, <1>21

\* ------------------------------------------------------------------------
\* The corpus

\* The loop of gen_price_requests picks n products, none twice, if n different
\* ones are drawn.
LEMMA CartIs ==
  ASSUME NEW S, NEW drawn \in Seq(S), NEW n \in Nat, n <= Cardinality(ToSet(drawn))
  PROVE  /\ Cart(drawn, n) \in Seq(S) /\ Len(Cart(drawn, n)) = n
         /\ \A i, j \in 1..n : Cart(drawn, n)[i] = Cart(drawn, n)[j] => i = j
<1> DEFINE m == Len(drawn)
           V == Seq(S)
           base == <<>>
           More(i, s) == IF Len(s) = n \/ drawn[i] \in ToSet(s) THEN s ELSE Append(s, drawn[i])
           step == [q \in (1..m) \X V |-> More(q[1], q[2])]
           Is(f) == f = [i \in 0..m |-> IF i = 0 THEN <<>>
                                        ELSE IF Len(f[i - 1]) = n \/ drawn[i] \in ToSet(f[i - 1]) THEN f[i - 1]
                                        ELSE Append(f[i - 1], drawn[i])]
<1>1. m \in Nat /\ base \in V /\ \A i \in 1..m : drawn[i] \in S
  OBVIOUS
<1>2. \A i \in 1..m, s \in V : More(i, s) \in V
  BY <1>1
<1>3. step \in Steps(m, V) /\ \A i \in 1..m, s \in V : step[<<i, s>>] = More(i, s)
  <2> HIDE DEF V, m, More
  <2> QED BY <1>2 DEF Steps
<1>4. PICK g \in [0..m -> V] : g[0] = base /\ \A i \in 1..m : g[i] = step[<<i, g[i - 1]>>]
  <2> HIDE DEF step, m, V, base
  <2>1. \E f \in [0..m -> V] : IsLoop(f, m, base, step)
    BY <1>1, <1>3, LoopExists
  <2> QED BY <2>1 DEF IsLoop
<1>5. \A i \in 1..m : g[i - 1] \in V /\ g[i] = More(i, g[i - 1])
  <2> SUFFICES ASSUME NEW i \in 1..m PROVE g[i - 1] \in V /\ g[i] = More(i, g[i - 1])
    OBVIOUS
  <2> HIDE DEF step, V, More
  <2>1. i - 1 \in 0..m
    BY <1>1
  <2> QED BY <1>3, <1>4, <2>1
<1>6. Is(g)
  <2>1. \A i \in 0..m : i # 0 => i \in 1..m
    BY <1>1
  <2> HIDE DEF step, V
  <2> QED BY <1>4, <1>5, <2>1
<1>7. Picked(drawn, n) = CHOOSE f : Is(f)
  BY DEF Picked
<1>8. Is(Picked(drawn, n))
  <2> HIDE DEF Is
  <2> QED BY <1>6, <1>7
<1> DEFINE picked == Picked(drawn, n)
<1>9. picked[0] = <<>> /\ \A i \in 1..m : picked[i] = More(i, picked[i - 1])
  <2>1. \A i \in 0..m : picked[i] = IF i = 0 THEN <<>>
                                    ELSE IF Len(picked[i - 1]) = n \/ drawn[i] \in ToSet(picked[i - 1]) THEN picked[i - 1]
                                    ELSE Append(picked[i - 1], drawn[i])
    <3> HIDE DEF picked
    <3> QED BY <1>8 DEF picked
  <2>2. \A i \in 1..m : i \in 0..m /\ i # 0
    BY <1>1
  <2>3. 0 \in 0..m
    BY <1>1
  <2> HIDE DEF picked
  <2> QED BY <2>1, <2>2, <2>3
<1> HIDE DEF picked, Is, step
<1> DEFINE Good(i, s) == /\ s \in Seq(S) /\ Len(s) <= n
                         /\ \A j, k \in 1..Len(s) : s[j] = s[k] => j = k
                         /\ Len(s) = n \/ \A j \in 1..i : drawn[j] \in ToSet(s)
           T == {i \in 0..m : Good(i, picked[i])}
<1>10. 0 \in T
  <2>1. Len(<<>>) = 0 /\ <<>> \in Seq(S) /\ 0 <= n
    OBVIOUS
  <2>2. \A j \in 1..0 : FALSE
    OBVIOUS
  <2>3. Good(0, <<>>)
    BY <2>1, <2>2
  <2>4. 0 \in 0..m
    BY <1>1
  <2> HIDE DEF Good
  <2> QED BY <1>9, <2>3, <2>4
<1>11. ASSUME NEW i \in 0..(m - 1), i \in T PROVE i + 1 \in T
  <2> DEFINE s == picked[i]
             x == drawn[i + 1]
  <2>1. i + 1 \in 1..m /\ (i + 1) - 1 = i /\ i + 1 \in 0..m /\ i \in Nat /\ x \in S
    BY <1>1
  <2>2. picked[i + 1] = (IF Len(s) = n \/ x \in ToSet(s) THEN s ELSE Append(s, x))
    BY <1>9, <2>1
  <2>3. Good(i, s)
    BY <1>11
  <2>4. \A j \in 1..(i + 1) : j \in 1..i \/ j = i + 1
    BY <2>1
  <2> HIDE DEF s
  <2>5. CASE Len(s) = n \/ x \in ToSet(s)
    BY <2>1, <2>2, <2>3, <2>4, <2>5
  <2>6. CASE ~(Len(s) = n \/ x \in ToSet(s))
    <3> DEFINE t == Append(s, x)
    <3>1. /\ t \in Seq(S) /\ Len(t) = Len(s) + 1 /\ t[Len(s) + 1] = x
          /\ \A j \in 1..Len(s) : t[j] = s[j]
      BY <2>1, <2>3
    <3>2. Len(t) <= n /\ Len(s) \in Nat
      BY <2>3, <2>6, <3>1
    <3> HIDE DEF t, x
    <3>3. \A j \in 1..Len(s) : s[j] # x
      BY <2>3, <2>6 DEF ToSet
    <3>4. \A j \in 1..Len(t) : j \in 1..Len(s) \/ j = Len(s) + 1
      BY <3>1, <3>2
    <3>5. \A j, k \in 1..Len(t) : t[j] = t[k] => j = k
      BY <2>3, <3>1, <3>3, <3>4
    <3>6. \A y \in ToSet(s) : y \in ToSet(t)
      <4>1. \A j \in 1..Len(s) : j \in 1..Len(t)
        BY <3>1, <3>2
      <4>2. DOMAIN t = 1..Len(t) /\ DOMAIN s = 1..Len(s)
        BY <2>3, <3>1
      <4> QED BY <3>1, <4>1, <4>2 DEF ToSet
    <3>7. x \in ToSet(t)
      <4>1. Len(s) + 1 \in 1..Len(t) /\ DOMAIN t = 1..Len(t)
        BY <3>1, <3>2
      <4> QED BY <3>1, <4>1 DEF ToSet
    <3>8. \A j \in 1..(i + 1) : drawn[j] \in ToSet(t)
      BY <2>3, <2>4, <2>6, <3>6, <3>7 DEF x
    <3>9. picked[i + 1] = t
      BY <2>2, <2>6 DEF t
    <3> QED BY <2>1, <3>1, <3>2, <3>5, <3>8, <3>9
  <2> QED BY <2>5, <2>6
<1>12. \A i \in 0..m : i \in T
  <2> HIDE DEF T, m
  <2> QED BY <1>1, <1>10, <1>11, LoopInduction
<1> DEFINE c == picked[m]
<1>13. Good(m, c)
  <2>1. m \in 0..m
    BY <1>1
  <2> HIDE DEF m
  <2> QED BY <1>12, <2>1
<1>14. c = Cart(drawn, n)
  BY DEF Cart, picked
<1> HIDE DEF c
<1>15. Len(c) = n
  <2> SUFFICES ASSUME Len(c) # n PROVE FALSE
    OBVIOUS
  <2>1. ToSet(drawn) \subseteq ToSet(c)
    <3>1. \A j \in 1..m : drawn[j] \in ToSet(c)
      BY <1>13
    <3> QED BY <3>1 DEF ToSet
  <2>2. IsFiniteSet(ToSet(c)) /\ Cardinality(ToSet(c)) <= Len(c) /\ Len(c) \in Nat /\ Len(c) <= n
    BY <1>13, NoMoreThanPlaces
  <2>3. IsFiniteSet(ToSet(drawn)) /\ Cardinality(ToSet(drawn)) <= Cardinality(ToSet(c))
    BY <2>1, <2>2, FS_Subset
  <2>4. Cardinality(ToSet(drawn)) \in Nat /\ Cardinality(ToSet(c)) \in Nat
    BY <2>2, <2>3, FS_CardinalityType
  <2> QED BY <2>2, <2>3, <2>4
<1> QED
  BY <1>13, <1>14, <1>15

\* ------------------------------------------------------------------------
\* The reset

\* Rows as seed.py writes them.
SeedRows(rows) ==
  /\ \A r \in rows.orders \cup rows.items \cup rows.loyalty : r.order \in 1..N_ORDERS
  /\ \A r \in rows.orders : r.id = r.order
  /\ \A x \in rows.items : \E o \in rows.orders : o.id = x.order
  /\ MaxId(rows.orders) = N_ORDERS /\ MaxId(rows.items) \in Nat /\ MaxId(rows.loyalty) \in Nat

\* What checkouts can make of a database: the seeded rows are as they were loaded,
\* those added belong to later orders, and an order an item belongs to is there.
Row(rows) == rows.orders \cup rows.items \cup rows.loyalty \cup [id : Nat, order : Nat]
Database(rows) ==
  [orders : SUBSET Row(rows), items : SUBSET Row(rows), loyalty : SUBSET Row(rows), ledger : SUBSET Row(rows),
   reserved : [Inventory -> Nat], used : [1..N_COUPONS -> Nat],
   next : [orders : Nat, items : Nat, loyalty : Nat, ledger : Nat]]
SeedThere(rows, db) ==
  /\ Seeded(db.orders) = rows.orders /\ Seeded(db.items) = rows.items
  /\ Seeded(db.loyalty) = rows.loyalty /\ Seeded(db.ledger) = {}
  /\ db.next.orders >= N_ORDERS
References(db) ==
  /\ \A x \in db.items : \E o \in db.orders : o.id = x.order
  /\ \A o \in db.orders : o.id = o.order
InUse(rows) == {db \in Database(rows) : SeedThere(rows, db) /\ References(db)}
Asked == [commits : BOOLEAN, row : Inventory, coupon : 1..N_COUPONS \cup {None}]

LEMMA LoadedInUse ==
  ASSUME NEW rows, SeedRows(rows)
  PROVE  Load(rows) \in InUse(rows)
<1> DEFINE db == Load(rows)
<1>1. /\ db.orders = rows.orders /\ db.items = rows.items /\ db.loyalty = rows.loyalty /\ db.ledger = {}
      /\ db.next.orders = MaxId(rows.orders)
  BY DEF Load
<1>2. N_ORDERS \in Nat
  BY SizesAssumption
<1>3. db \in Database(rows)
  <2>1. /\ [r \in Inventory |-> 0] \in [Inventory -> Nat]
        /\ [c \in 1..N_COUPONS |-> 0] \in [1..N_COUPONS -> Nat]
    OBVIOUS
  <2>2. [orders |-> MaxId(rows.orders), items |-> MaxId(rows.items), loyalty |-> MaxId(rows.loyalty), ledger |-> 0]
          \in [orders : Nat, items : Nat, loyalty : Nat, ledger : Nat]
    BY <1>2 DEF SeedRows
  <2>3. rows.orders \subseteq Row(rows) /\ rows.items \subseteq Row(rows) /\ rows.loyalty \subseteq Row(rows)
    BY DEF Row
  <2> HIDE DEF MaxId, Row
  <2> QED BY <2>1, <2>2, <2>3 DEF Load, Database
<1> HIDE DEF db
<1>4. \A g : g \subseteq rows.orders \cup rows.items \cup rows.loyalty => Seeded(g) = g
  BY <1>2 DEF SeedRows, Seeded
<1>5. Seeded({}) = {}
  BY DEF Seeded
<1>6. SeedThere(rows, db)
  BY <1>1, <1>2, <1>4, <1>5 DEF SeedThere, SeedRows
<1>7. References(db)
  BY <1>1 DEF References, SeedRows
<1> QED
  BY <1>3, <1>6, <1>7 DEF InUse, db

LEMMA OrderKeepsSeed ==
  ASSUME NEW rows, SeedRows(rows), NEW db \in InUse(rows), NEW c \in Asked
  PROVE  Order(db, c) \in InUse(rows)
<1> DEFINE id == [orders |-> db.next.orders + 1, items |-> db.next.items + 1,
                  loyalty |-> db.next.loyalty + 1, ledger |-> db.next.ledger + 1]
           New(n) == IF c.commits THEN {[id |-> n, order |-> id.orders]} ELSE {}
           reserved == [r \in Inventory |-> db.reserved[r] + IF c.commits /\ r = c.row THEN 1 ELSE 0]
           used == [k \in 1..N_COUPONS |-> db.used[k] + IF c.commits /\ k = c.coupon THEN 1 ELSE 0]
           new == Order(db, c)
<1>1. /\ db \in Database(rows) /\ SeedThere(rows, db) /\ References(db)
  BY DEF InUse
<1>2. db.next \in [orders : Nat, items : Nat, loyalty : Nat, ledger : Nat]
  BY <1>1 DEF Database
<1>3. id \in [orders : Nat, items : Nat, loyalty : Nat, ledger : Nat] /\ id.orders > N_ORDERS
      /\ N_ORDERS \in Nat
  <2>1. db.next.orders >= N_ORDERS /\ N_ORDERS \in Nat
    BY <1>1, SizesAssumption DEF SeedThere
  <2> QED BY <1>2, <2>1
<1>4. new = [orders |-> db.orders \cup New(id.orders), items |-> db.items \cup New(id.items),
             loyalty |-> db.loyalty \cup New(id.loyalty), ledger |-> db.ledger \cup New(id.ledger),
             reserved |-> reserved, used |-> used, next |-> id]
  BY DEF Order
<1> HIDE DEF id, reserved, used, new
<1>5. /\ new.orders = db.orders \cup New(id.orders) /\ new.items = db.items \cup New(id.items)
      /\ new.loyalty = db.loyalty \cup New(id.loyalty) /\ new.ledger = db.ledger \cup New(id.ledger)
      /\ new.next = id
  BY <1>4
<1>6. ASSUME NEW n \in Nat
      PROVE  /\ New(n) \subseteq [id : Nat, order : Nat] /\ (\A x \in New(n) : x.order = id.orders)
             /\ (\A x \in New(id.orders) : x.id = x.order)
             /\ \A x \in New(n) : \E o \in New(id.orders) : o.id = x.order
  <2>1. id.orders \in Nat
    BY <1>3
  <2>2. CASE c.commits
    <3>1. New(n) = {[id |-> n, order |-> id.orders]} /\ New(id.orders) = {[id |-> id.orders, order |-> id.orders]}
      BY <2>2
    <3> HIDE DEF New
    <3> QED BY <2>1, <3>1
  <2>3. CASE ~c.commits
    <3>1. New(n) = {} /\ New(id.orders) = {}
      BY <2>3
    <3> HIDE DEF New
    <3> QED BY <3>1
  <2> QED BY <2>2, <2>3
<1> HIDE DEF New
<1>7. id.orders \in Nat /\ id.items \in Nat /\ id.loyalty \in Nat /\ id.ledger \in Nat
  BY <1>3
<1>8. reserved \in [Inventory -> Nat]
  <2>1. ASSUME NEW r \in Inventory PROVE db.reserved[r] + (IF c.commits /\ r = c.row THEN 1 ELSE 0) \in Nat
    <3>1. db.reserved[r] \in Nat
      BY <1>1 DEF Database
    <3> QED BY <3>1
  <2> QED BY <2>1 DEF reserved
<1>9. used \in [1..N_COUPONS -> Nat]
  <2>1. ASSUME NEW k \in 1..N_COUPONS PROVE db.used[k] + (IF c.commits /\ k = c.coupon THEN 1 ELSE 0) \in Nat
    <3>1. db.used[k] \in Nat
      BY <1>1 DEF Database
    <3> QED BY <3>1
  <2> QED BY <2>1 DEF used
<1>10. ASSUME NEW g, g \subseteq Row(rows), NEW n \in Nat PROVE g \cup New(n) \subseteq Row(rows)
  BY <1>6, <1>10 DEF Row
<1>11. new \in Database(rows)
  <2>1. db.orders \subseteq Row(rows) /\ db.items \subseteq Row(rows) /\ db.loyalty \subseteq Row(rows)
        /\ db.ledger \subseteq Row(rows)
    BY <1>1 DEF Database
  <2>2. /\ db.orders \cup New(id.orders) \subseteq Row(rows) /\ db.items \cup New(id.items) \subseteq Row(rows)
        /\ db.loyalty \cup New(id.loyalty) \subseteq Row(rows) /\ db.ledger \cup New(id.ledger) \subseteq Row(rows)
    BY <1>7, <1>10, <2>1
  <2> QED BY <1>3, <1>4, <1>8, <1>9, <2>2 DEF Database
<1>12. ASSUME NEW g, NEW n \in Nat PROVE Seeded(g \cup New(n)) = Seeded(g)
  BY <1>3, <1>6, <1>7 DEF Seeded
<1>13. SeedThere(rows, new)
  <2>1. id.orders >= N_ORDERS
    BY <1>3, <1>7
  <2> QED BY <1>1, <1>5, <1>7, <1>12, <2>1 DEF SeedThere
<1>14. References(new)
  BY <1>1, <1>5, <1>6, <1>7 DEF References
<1> QED
  BY <1>11, <1>13, <1>14 DEF InUse, new

\* Whatever checkouts are sent to a freshly loaded database.
LEMMA AfterKeepsSeed ==
  ASSUME NEW rows, SeedRows(rows), NEW checkouts \in Seq(Asked)
  PROVE  After(Load(rows), checkouts) \in InUse(rows)
<1> DEFINE n == Len(checkouts)
           V == InUse(rows)
           base == Load(rows)
           step == [p \in (1..n) \X V |-> Order(p[2], checkouts[p[1]])]
           Is(f) == f = [i \in 0..n |-> IF i = 0 THEN base ELSE Order(f[i - 1], checkouts[i])]
<1>1. n \in Nat /\ \A i \in 1..n : checkouts[i] \in Asked
  OBVIOUS
<1> HIDE DEF n
<1>2. base \in V
  BY LoadedInUse
<1>3. ASSUME NEW db \in V, NEW i \in 1..n PROVE Order(db, checkouts[i]) \in V
  BY <1>1, OrderKeepsSeed
<1> HIDE DEF V, base
<1>4. step \in Steps(n, V)
  BY <1>3 DEF Steps
<1>5. \A i \in 1..n : \A db \in V : step[<<i, db>>] = Order(db, checkouts[i])
  OBVIOUS
<1> HIDE DEF step
<1>6. PICK f \in [0..n -> V] : IsLoop(f, n, base, step)
  BY <1>1, <1>2, <1>4, LoopExists
<1>7. ASSUME NEW i \in 0..n PROVE f[i] = IF i = 0 THEN base ELSE Order(f[i - 1], checkouts[i])
  <2>1. CASE i = 0
    BY <1>6, <2>1 DEF IsLoop
  <2>2. CASE i # 0
    <3>1. i \in 1..n /\ i - 1 \in 0..n
      BY <1>1, <2>2
    <3>2. f[i] = step[<<i, f[i - 1]>>] /\ f[i - 1] \in V
      BY <1>6, <3>1 DEF IsLoop
    <3> QED BY <1>5, <2>2, <3>1, <3>2
  <2> QED BY <2>1, <2>2
<1>8. Is(f)
  BY <1>6, <1>7
<1> DEFINE g == CHOOSE h : Is(h)
<1>9. Is(g)
  <2> HIDE DEF Is
  <2> QED BY <1>8
<1> HIDE DEF g
<1>10. After(Load(rows), checkouts) = g[n]
  BY DEF After, g, n, base
<1>11. \A i \in 0..n : g[i] = IF i = 0 THEN base ELSE Order(g[i - 1], checkouts[i])
  BY <1>9
<1> DEFINE T == {i \in 0..n : g[i] \in V}
<1>12. 0 \in T
  BY <1>1, <1>2, <1>11
<1>13. ASSUME NEW i \in 0..(n - 1), i \in T PROVE i + 1 \in T
  <2>1. i + 1 \in 1..n /\ (i + 1) - 1 = i /\ i + 1 \in 0..n /\ i + 1 # 0
    BY <1>1
  <2>2. g[i + 1] = Order(g[i], checkouts[i + 1])
    BY <1>11, <2>1
  <2> QED BY <1>3, <1>13, <2>1, <2>2
<1>14. \A i \in 0..n : i \in T
  <2> HIDE DEF T
  <2> QED BY <1>1, <1>12, <1>13, LoopInduction
<1> QED
  BY <1>1, <1>10, <1>14 DEF V

\* One statement of the reset.
LEMMA DeleteDoes ==
  ASSUME NEW rows, NEW db \in Database(rows), NEW table
  PROVE  /\ Delete(db, table) \in Database(rows)
         /\ Delete(db, table).orders = (IF table = "orders" THEN Seeded(db.orders) ELSE db.orders)
         /\ Delete(db, table).items = (IF table = "items" THEN Seeded(db.items) ELSE db.items)
         /\ Delete(db, table).ledger = (IF table = "ledger" THEN Seeded(db.ledger) ELSE db.ledger)
         /\ Delete(db, table).loyalty = (IF table = "loyalty" THEN Seeded(db.loyalty) ELSE db.loyalty)
         /\ Delete(db, table).next = db.next
<1> DEFINE R == Row(rows)
<1>1. \A g : Seeded(g) \subseteq g
  BY DEF Seeded
<1>2. db \in [orders : SUBSET R, items : SUBSET R, loyalty : SUBSET R, ledger : SUBSET R,
              reserved : [Inventory -> Nat], used : [1..N_COUPONS -> Nat],
              next : [orders : Nat, items : Nat, loyalty : Nat, ledger : Nat]]
  BY DEF Database
<1> HIDE DEF R
<1>3. /\ Delete(db, table).orders = (IF table = "orders" THEN Seeded(db.orders) ELSE db.orders)
      /\ Delete(db, table).items = (IF table = "items" THEN Seeded(db.items) ELSE db.items)
      /\ Delete(db, table).ledger = (IF table = "ledger" THEN Seeded(db.ledger) ELSE db.ledger)
      /\ Delete(db, table).loyalty = (IF table = "loyalty" THEN Seeded(db.loyalty) ELSE db.loyalty)
      /\ Delete(db, table).next = db.next
  BY <1>2 DEF Delete
<1>4. Delete(db, table) \in [orders : SUBSET R, items : SUBSET R, loyalty : SUBSET R, ledger : SUBSET R,
              reserved : [Inventory -> Nat], used : [1..N_COUPONS -> Nat],
              next : [orders : Nat, items : Nat, loyalty : Nat, ledger : Nat]]
  BY <1>1, <1>2 DEF Delete
<1> QED
  BY <1>3, <1>4 DEF Database, R

\* The records of the later statements.
LEMMA ReservedSet ==
  ASSUME NEW db, NEW o, NEW i, NEW l, NEW g, NEW r, NEW u, NEW n, NEW z,
         db = [orders |-> o, items |-> i, loyalty |-> l, ledger |-> g, reserved |-> r, used |-> u, next |-> n]
  PROVE  [db EXCEPT !.reserved = z] =
           [orders |-> o, items |-> i, loyalty |-> l, ledger |-> g, reserved |-> z, used |-> u, next |-> n]
OBVIOUS

LEMMA UsedSet ==
  ASSUME NEW db, NEW o, NEW i, NEW l, NEW g, NEW r, NEW u, NEW n, NEW z,
         db = [orders |-> o, items |-> i, loyalty |-> l, ledger |-> g, reserved |-> r, used |-> u, next |-> n]
  PROVE  [db EXCEPT !.used = z] =
           [orders |-> o, items |-> i, loyalty |-> l, ledger |-> g, reserved |-> r, used |-> z, next |-> n]
OBVIOUS

LEMMA NextSet ==
  ASSUME NEW db, NEW o, NEW i, NEW l, NEW g, NEW r, NEW u, NEW n, NEW z,
         db = [orders |-> o, items |-> i, loyalty |-> l, ledger |-> g, reserved |-> r, used |-> u, next |-> n]
  PROVE  [db EXCEPT !.next = z] =
           [orders |-> o, items |-> i, loyalty |-> l, ledger |-> g, reserved |-> r, used |-> u, next |-> z]
OBVIOUS

LEMMA LedgerSet ==
  ASSUME NEW next, NEW o, NEW i, NEW l, NEW g, NEW z, next = [orders |-> o, items |-> i, loyalty |-> l, ledger |-> g]
  PROVE  [next EXCEPT !.ledger = z] = [orders |-> o, items |-> i, loyalty |-> l, ledger |-> z]
OBVIOUS

\* The reset undoes whatever was done to the seed, and no statement of it breaks a
\* reference.
LEMMA ResetUndoes ==
  ASSUME NEW rows, SeedRows(rows), NEW db \in InUse(rows)
  PROVE  /\ DOMAIN Reset(db) = 1..7 /\ Len(Reset(db)) = 7
         /\ [Reset(db)[7] EXCEPT !.next.ledger = 0] = Load(rows)
         /\ \A i \in 1..7 : \A x \in Reset(db)[i].items : \E o \in Reset(db)[i].orders : o.id = x.order
<1> DEFINE first    == Delete(db, "items")
           second   == Delete(first, "ledger")
           third    == Delete(second, "loyalty")
           deleted  == Delete(third, "orders")
           released == Release(deleted)
           unused   == Unuse(released)
           rewound  == Rewind(unused)
           free     == [r \in Inventory |-> 0]
           unspent  == [c \in 1..N_COUPONS |-> 0]
<1>1. db \in Database(rows) /\ SeedThere(rows, db) /\ References(db)
  BY DEF InUse
<1>2. Reset(db) = <<first, second, third, deleted, released, unused, rewound>>
  <2>1. Deletes[1] = "items" /\ Deletes[2] = "ledger" /\ Deletes[3] = "loyalty" /\ Deletes[4] = "orders"
    BY DEF Deletes
  <2> HIDE DEF first
  <2> QED BY <2>1 DEF Reset, first
<1> HIDE DEF first, second, third, deleted, released, unused, rewound, free, unspent
<1>3. /\ first \in Database(rows) /\ first.orders = db.orders /\ first.items = rows.items
      /\ first.ledger = db.ledger /\ first.loyalty = db.loyalty /\ first.next = db.next
  BY <1>1, DeleteDoes DEF first, SeedThere
<1>4. /\ second \in Database(rows) /\ second.orders = db.orders /\ second.items = rows.items
      /\ second.ledger = {} /\ second.loyalty = db.loyalty /\ second.next = db.next
  BY <1>1, <1>3, DeleteDoes DEF second, SeedThere
<1>5. /\ third \in Database(rows) /\ third.orders = db.orders /\ third.items = rows.items
      /\ third.ledger = {} /\ third.loyalty = rows.loyalty /\ third.next = db.next
  BY <1>1, <1>4, DeleteDoes DEF third, SeedThere
<1>6. /\ deleted \in Database(rows) /\ deleted.orders = rows.orders /\ deleted.items = rows.items
      /\ deleted.ledger = {} /\ deleted.loyalty = rows.loyalty /\ deleted.next = db.next
  BY <1>1, <1>5, DeleteDoes DEF deleted, SeedThere
<1>7. \A x \in rows.items : \E o \in db.orders : o.id = x.order
  BY <1>1 DEF References, SeedThere, Seeded
<1>8. \A x \in rows.items : \E o \in rows.orders : o.id = x.order
  BY DEF SeedRows
<1>9. /\ db.next \in [orders : Nat, items : Nat, loyalty : Nat, ledger : Nat]
  BY <1>1 DEF Database
<1>10. deleted = [orders |-> rows.orders, items |-> rows.items, loyalty |-> rows.loyalty, ledger |-> {},
                  reserved |-> deleted.reserved, used |-> deleted.used, next |-> db.next]
  BY <1>6 DEF Database
<1>11. released = [orders |-> rows.orders, items |-> rows.items, loyalty |-> rows.loyalty, ledger |-> {},
                   reserved |-> free, used |-> deleted.used, next |-> db.next]
  BY <1>10 DEF released, Release, free
<1>12. unused = [orders |-> rows.orders, items |-> rows.items, loyalty |-> rows.loyalty, ledger |-> {},
                 reserved |-> free, used |-> unspent, next |-> db.next]
  <2>1. unused = [released EXCEPT !.used = unspent]
    BY DEF unused, Unuse, unspent
  <2> QED BY <1>11, <2>1, UsedSet
<1>13. rewound = [orders |-> rows.orders, items |-> rows.items, loyalty |-> rows.loyalty, ledger |-> {},
                  reserved |-> free, used |-> unspent,
                  next |-> [orders |-> N_ORDERS, items |-> MaxId(rows.items), loyalty |-> MaxId(rows.loyalty),
                            ledger |-> db.next.ledger]]
  <2> DEFINE next == [orders |-> N_ORDERS, items |-> MaxId(rows.items), loyalty |-> MaxId(rows.loyalty),
                      ledger |-> db.next.ledger]
  <2>1. unused.next = db.next /\ unused.items = rows.items /\ unused.loyalty = rows.loyalty
    BY <1>12
  <2>2. rewound = [unused EXCEPT !.next = next]
    BY <2>1 DEF rewound, Rewind
  <2> HIDE DEF next
  <2>3. rewound = [orders |-> rows.orders, items |-> rows.items, loyalty |-> rows.loyalty, ledger |-> {},
                   reserved |-> free, used |-> unspent, next |-> next]
    BY <1>12, <2>2, NextSet
  <2> QED BY <2>3 DEF next
<1>14. [rewound EXCEPT !.next.ledger = 0] = Load(rows)
  <2>1. MaxId(rows.orders) = N_ORDERS
    BY DEF SeedRows
  <2>2. [rewound EXCEPT !.next.ledger = 0] = [rewound EXCEPT !.next = [rewound.next EXCEPT !.ledger = 0]]
    OBVIOUS
  <2>3. rewound.next = [orders |-> N_ORDERS, items |-> MaxId(rows.items), loyalty |-> MaxId(rows.loyalty),
                        ledger |-> db.next.ledger]
    BY <1>13
  <2> DEFINE next == [orders |-> N_ORDERS, items |-> MaxId(rows.items), loyalty |-> MaxId(rows.loyalty), ledger |-> 0]
  <2>4. [rewound.next EXCEPT !.ledger = 0] = next
    BY <2>3, LedgerSet
  <2> HIDE DEF next
  <2>5. [rewound EXCEPT !.next = next] =
          [orders |-> rows.orders, items |-> rows.items, loyalty |-> rows.loyalty, ledger |-> {},
           reserved |-> free, used |-> unspent, next |-> next]
    BY <1>13, NextSet
  <2>6. [rewound EXCEPT !.next.ledger = 0] = [rewound EXCEPT !.next = next]
    BY <2>2, <2>4
  <2> QED BY <2>1, <2>5, <2>6 DEF Load, next, free, unspent
<1>15. DOMAIN Reset(db) = 1..7 /\ Len(Reset(db)) = 7 /\ Reset(db)[7] = rewound
  BY <1>2
<1>16. ASSUME NEW i \in 1..7 PROVE \A x \in Reset(db)[i].items : \E o \in Reset(db)[i].orders : o.id = x.order
  <2>1. CASE i = 1
    BY <1>2, <1>3, <1>7, <2>1
  <2>2. CASE i = 2
    BY <1>2, <1>4, <1>7, <2>2
  <2>3. CASE i = 3
    BY <1>2, <1>5, <1>7, <2>3
  <2>4. CASE i = 4
    BY <1>2, <1>6, <1>8, <2>4
  <2>5. CASE i = 5
    BY <1>2, <1>8, <1>11, <2>5
  <2>6. CASE i = 6
    BY <1>2, <1>8, <1>12, <2>6
  <2>7. CASE i = 7
    BY <1>2, <1>8, <1>13, <2>7
  <2> QED BY <2>1, <2>2, <2>3, <2>4, <2>5, <2>6, <2>7
<1> QED
  BY <1>14, <1>15, <1>16

\* ------------------------------------------------------------------------
\* The seed

\* Rows with the ids 1..n, no two alike, are n rows and the last has the highest id.
LEMMA NumberedRows ==
  ASSUME NEW n \in Nat, NEW T, {r.id : r \in T} = 1..n, \A r \in T : \A s \in T : r.id = s.id => r = s
  PROVE  /\ IsFiniteSet(T) /\ {r.id : r \in T} = 1..Cardinality(T)
         /\ n # 0 => MaxId(T) = n
<1> DEFINE D == 1..n
           f == [k \in D |-> CHOOSE r \in T : r.id = k]
<1>1. IsFiniteSet(D) /\ Cardinality(D) = n
  BY FirstNumbers
<1>2. ASSUME NEW k \in D PROVE f[k] \in T /\ f[k].id = k
  BY <1>2
<1>3. ASSUME NEW r \in T PROVE r.id \in D /\ f[r.id] = r
  <2>1. r.id \in D
    OBVIOUS
  <2> QED BY <1>2, <2>1
<1>4. f \in [D -> T]
  BY <1>2
<1> HIDE DEF f
<1>5. f \in Surjection(D, T)
  BY <1>3, <1>4 DEF Surjection
<1>6. IsInjective(f)
  BY <1>2, <1>4 DEF IsInjective
<1>7. f \in Injection(D, T)
  BY <1>4, <1>6 DEF Injection
<1>8. IsFiniteSet(T) /\ Cardinality(T) = n
  <2> HIDE DEF D
  <2> QED BY <1>1, <1>5, <1>7, FS_Surjection
<1>9. ASSUME n # 0 PROVE MaxId(T) = n
  <2>1. n \in {r.id : r \in T} /\ \A r \in T : r.id \in 1..n
    BY <1>9
  <2>2. \A r \in T : r.id <= n
    BY <2>1
  <2>3. ASSUME NEW m \in {r.id : r \in T}, \A r \in T : r.id <= m PROVE m = n
    BY <1>2, <1>9, <2>3
  <2> QED BY <2>1, <2>2, <2>3 DEF MaxId
<1> QED
  BY <1>8, <1>9

\* The elements of a list without duplicates, in the order of the list.
LEMMA ListOfItsRange ==
  ASSUME NEW S, NEW s \in Seq(S), IsInjective(s)
  PROVE  s \in SetToSeqs(Range(s))
<1> DEFINE n == Len(s)
           D == 1..n
           T == Range(s)
<1>1. n \in Nat /\ DOMAIN s = D
  OBVIOUS
<1>2. IsFiniteSet(D) /\ Cardinality(D) = n
  BY <1>1, FirstNumbers
<1>3. s \in [D -> T]
  BY <1>1 DEF Range
<1>4. s \in Surjection(D, T)
  BY <1>1, <1>3 DEF Surjection, Range
<1>5. s \in Injection(D, T)
  BY <1>3 DEF Injection
<1>6. Cardinality(T) = n
  <2> HIDE DEF D, T
  <2> QED BY <1>2, <1>4, <1>5, FS_Surjection
<1>7. \A i, j \in D : i # j => s[i] # s[j]
  BY <1>1 DEF IsInjective
<1> HIDE DEF n, T
<1> QED
  BY <1>3, <1>6, <1>7 DEF SetToSeqs, T

\* The ids of the lines of the i-th order are B[i - 1] + 1 to B[i].
LEMMA BlockEnds ==
  ASSUME NEW lens \in Seq(Nat)
  PROVE  /\ Running(lens) \in [0..Len(lens) -> Nat] /\ Running(lens)[0] = 0
         /\ \A i \in 1..Len(lens) : Running(lens)[i] = Running(lens)[i - 1] + lens[i]
<1> DEFINE n == Len(lens)
           B == Running(lens)
           T == {i \in 0..n : B[i] \in Nat}
<1>1. n \in Nat /\ lens \in Seq(Int) /\ \A i \in 1..n : lens[i] \in Nat
  OBVIOUS
<1>2. B \in [0..n -> Int] /\ B[0] = 0 /\ \A i \in 1..n : B[i] = B[i - 1] + lens[i]
  BY <1>1, RunningIs
<1> HIDE DEF n, B
<1>3. 0 \in T
  BY <1>1, <1>2
<1>4. ASSUME NEW i \in 0..(n - 1), i \in T PROVE i + 1 \in T
  <2>1. i + 1 \in 1..n /\ i + 1 \in 0..n /\ (i + 1) - 1 = i
    BY <1>1
  <2>2. B[i + 1] = B[i] + lens[i + 1] /\ lens[i + 1] \in Nat /\ B[i] \in Nat
    BY <1>1, <1>2, <1>4, <2>1
  <2> QED BY <2>1, <2>2
<1>5. \A i \in 0..n : i \in T
  <2> HIDE DEF T
  <2> QED BY <1>1, <1>3, <1>4, LoopInduction
<1> QED
  BY <1>2, <1>5 DEF n, B

LEMMA BlocksRise ==
  ASSUME NEW lens \in Seq(Nat), NEW i \in 0..Len(lens), NEW j \in 0..Len(lens), i <= j
  PROVE  Running(lens)[i] <= Running(lens)[j]
<1> DEFINE n == Len(lens)
           B == Running(lens)
           T == {k \in 0..n : i <= k => B[i] <= B[k]}
<1>1. n \in Nat /\ \A k \in 1..n : lens[k] \in Nat
  OBVIOUS
<1>2. B \in [0..n -> Nat] /\ \A k \in 1..n : B[k] = B[k - 1] + lens[k]
  BY BlockEnds
<1> HIDE DEF n, B
<1>3. i \in 0..n /\ j \in 0..n /\ i \in Nat /\ j \in Nat
  BY DEF n
<1>4. 0 \in T
  BY <1>1, <1>2, <1>3
<1>5. ASSUME NEW k \in 0..(n - 1), k \in T PROVE k + 1 \in T
  <2>1. k + 1 \in 1..n /\ k + 1 \in 0..n /\ (k + 1) - 1 = k /\ k \in 0..n
    BY <1>1
  <2>2. B[k + 1] = B[k] + lens[k + 1] /\ lens[k + 1] \in Nat /\ B[k] \in Nat /\ B[i] \in Nat /\ B[k + 1] \in Nat
    BY <1>1, <1>2, <1>3, <2>1
  <2>3. CASE i <= k
    <3>1. B[i] <= B[k]
      BY <1>5, <2>3
    <3> QED BY <2>1, <2>2, <3>1, SMTT(30)
  <2>4. CASE ~(i <= k)
    <3>1. i <= k + 1 => i = k + 1
      BY <1>3, <2>1, <2>4
    <3> QED BY <2>1, <2>2, <3>1
  <2> QED BY <2>3, <2>4
<1>6. \A k \in 0..n : k \in T
  <2> HIDE DEF T
  <2> QED BY <1>1, <1>4, <1>5, LoopInduction
<1> QED
  BY <1>3, <1>6 DEF n, B

\* Every id belongs to a block.
LEMMA BlocksCover ==
  ASSUME NEW lens \in Seq(Nat), NEW x \in 1..Running(lens)[Len(lens)]
  PROVE  \E i \in 1..Len(lens) : \E l \in 1..lens[i] : x = Running(lens)[i - 1] + l
<1> DEFINE n == Len(lens)
           B == Running(lens)
           G(k) == \E i \in 1..n : \E l \in 1..lens[i] : x = B[i - 1] + l
           T == {k \in 0..n : x <= B[k] => G(k)}
<1>1. n \in Nat /\ \A k \in 1..n : lens[k] \in Nat
  OBVIOUS
<1>2. B \in [0..n -> Nat] /\ B[0] = 0 /\ \A k \in 1..n : B[k] = B[k - 1] + lens[k]
  BY BlockEnds
<1>3. x \in 1..B[n]
  OBVIOUS
<1> HIDE DEF n, B
<1>4. B[n] \in Nat /\ x \in Nat /\ 1 <= x /\ x <= B[n]
  BY <1>1, <1>2, <1>3
<1>5. 0 \in T
  BY <1>1, <1>2, <1>4
<1>6. ASSUME NEW k \in 0..(n - 1), k \in T PROVE k + 1 \in T
  <2>1. k + 1 \in 1..n /\ k + 1 \in 0..n /\ (k + 1) - 1 = k /\ k \in 0..n
    BY <1>1
  <2>2. B[k + 1] = B[k] + lens[k + 1] /\ lens[k + 1] \in Nat /\ B[k] \in Nat
    BY <1>1, <1>2, <2>1
  <2>3. CASE x <= B[k]
    BY <1>6, <2>1, <2>3
  <2>4. CASE ~(x <= B[k])
    <3> DEFINE l == x - B[k]
    <3>1. ASSUME x <= B[k + 1] PROVE l \in 1..lens[k + 1] /\ x = B[k] + l
      <4>1. PICK b \in Nat, c \in Nat, e \in Nat : b = B[k] /\ c = lens[k + 1] /\ e = B[k + 1] /\ e = b + c
        BY <2>2
      <4>2. x > b /\ x <= b + c
        BY <1>4, <2>4, <3>1, <4>1
      <4>3. x - b \in 1..c /\ x = b + (x - b)
        BY <1>4, <4>1, <4>2, SMTT(30)
      <4> QED BY <4>1, <4>3
    <3> HIDE DEF l
    <3>2. ASSUME x <= B[k + 1] PROVE G(k + 1)
      BY <2>1, <3>1, <3>2
    <3> QED BY <2>1, <3>2
  <2> QED BY <2>3, <2>4
<1>7. \A k \in 0..n : k \in T
  <2> HIDE DEF T
  <2> QED BY <1>1, <1>5, <1>6, LoopInduction
<1> QED
  BY <1>1, <1>4, <1>7 DEF n, B

\* And to one only.
LEMMA BlocksApart ==
  ASSUME NEW lens \in Seq(Nat), NEW i \in 1..Len(lens), NEW j \in 1..Len(lens),
         NEW l \in 1..lens[i], NEW m \in 1..lens[j], Running(lens)[i - 1] + l = Running(lens)[j - 1] + m
  PROVE  i = j /\ l = m
<1> DEFINE B == Running(lens)
<1>1. /\ i \in Nat /\ j \in Nat /\ lens[i] \in Nat /\ lens[j] \in Nat /\ l \in Nat /\ m \in Nat
      /\ i - 1 \in 0..Len(lens) /\ j - 1 \in 0..Len(lens) /\ i \in 0..Len(lens) /\ j \in 0..Len(lens)
  OBVIOUS
<1>2. 1 <= l /\ l <= lens[i] /\ 1 <= m /\ m <= lens[j]
  OBVIOUS
<1>3. B[i] = B[i - 1] + lens[i] /\ B[j] = B[j - 1] + lens[j]
  BY BlockEnds
<1>4. B[i] \in Nat /\ B[j] \in Nat /\ B[i - 1] \in Nat /\ B[j - 1] \in Nat
  BY <1>1, BlockEnds
<1>5. i < j => B[i] <= B[j - 1]
  BY <1>1, BlocksRise
<1>6. j < i => B[j] <= B[i - 1]
  BY <1>1, BlocksRise
<1> HIDE DEF B
<1>7. B[i - 1] + l = B[j - 1] + m
  BY DEF B
<1>8. PICK p \in Nat, q \in Nat, b \in Nat, c \in Nat :
        p = B[i - 1] /\ q = B[j - 1] /\ b = lens[i] /\ c = lens[j]
  BY <1>1, <1>4
<1>9. ~(i < j)
  <2>1. i < j => p + b <= q
    BY <1>3, <1>5, <1>8
  <2>2. l <= b /\ 1 <= m /\ p + l = q + m
    BY <1>2, <1>7, <1>8
  <2> QED BY <1>1, <2>1, <2>2
<1>10. ~(j < i)
  <2>1. j < i => q + c <= p
    BY <1>3, <1>6, <1>8
  <2>2. m <= c /\ 1 <= l /\ p + l = q + m
    BY <1>2, <1>7, <1>8
  <2> QED BY <1>1, <2>1, <2>2
<1>11. i = j
  BY <1>1, <1>9, <1>10
<1> QED
  BY <1>1, <1>4, <1>7, <1>11

\* How many lines each order has.
Lens(draws) == [k \in DOMAIN draws |-> Len(draws[k].lines)]

LEMMA LensAre ==
  ASSUME NEW draws, OrderDraws(draws)
  PROVE  /\ N_ORDERS \in Nat /\ N_ORDERS # 0 /\ DOMAIN draws = 1..N_ORDERS
         /\ Lens(draws) \in Seq(Nat) /\ Len(Lens(draws)) = N_ORDERS
         /\ \A i \in 1..N_ORDERS : Lens(draws)[i] = Len(draws[i].lines) /\ Lens(draws)[i] # 0
<1>1. N_ORDERS \in Nat /\ N_ORDERS # 0
  BY SizesAssumption
<1>2. /\ draws \in [1..N_ORDERS -> [customer : 1..N_CUSTOMERS, warehouse : 1..N_WAREHOUSES, ship : Nat, lines : Seq(DrawnLines)]]
      /\ \A i \in 1..N_ORDERS : draws[i].lines # <<>>
  BY DEF OrderDraws
<1>3. \A i \in 1..N_ORDERS : draws[i].lines \in Seq(DrawnLines) /\ draws[i].lines # <<>>
  BY <1>2
<1>4. \A i \in 1..N_ORDERS : Len(draws[i].lines) \in Nat /\ Len(draws[i].lines) # 0
  BY <1>3
<1>5. DOMAIN draws = 1..N_ORDERS
  BY <1>2
<1> QED
  BY <1>1, <1>4, <1>5 DEF Lens

LEMMA DrawIs ==
  ASSUME NEW draws, OrderDraws(draws), NEW i \in 1..N_ORDERS
  PROVE  /\ draws[i].ship \in Nat /\ draws[i].lines \in Seq(DrawnLines)
<1>1. draws \in [1..N_ORDERS -> [customer : 1..N_CUSTOMERS, warehouse : 1..N_WAREHOUSES, ship : Nat, lines : Seq(DrawnLines)]]
  BY DEF OrderDraws
<1> QED
  BY <1>1

\* A line is of whole cents, its net is what is left of its price.
LEMMA ItemIs ==
  ASSUME NEW l \in DrawnLines, NEW iid, NEW oid
  PROVE  /\ Item(iid, oid, l).id = iid /\ Item(iid, oid, l).order = oid
         /\ Item(iid, oid, l).net = Price[Item(iid, oid, l).product] * Item(iid, oid, l).qty - Item(iid, oid, l).disc
         /\ Item(iid, oid, l).net \in Int /\ Item(iid, oid, l).tax \in Int
<1> DEFINE base == Price[l.product] * l.qty
           disc == (base * l.off) \div 1000
           net  == base - disc
           tax  == (net * l.rate) \div 1000
           x    == Item(iid, oid, l)
<1>1. x = [id |-> iid, order |-> oid, product |-> l.product, qty |-> l.qty, disc |-> disc,
           net |-> net, tax |-> tax]
  BY DEF Item
<1>2. Price[l.product] \in Nat /\ l.qty \in Nat /\ l.off \in Nat /\ l.rate \in Nat
  <2>1. l.product \in 1..N_PRODUCTS /\ l.qty \in Nat /\ l.rate \in Nat
    BY DEF DrawnLines
  <2>2. l.off \in 0..1000
    BY DEF DrawnLines
  <2>3. l.off \in Nat
    BY <2>2, SMTT(30)
  <2> QED BY <2>1, <2>3, PriceAssumption
<1>3. base \in Int
  BY <1>2
<1>4. disc \in Int
  <2> HIDE DEF base
  <2>1. base * l.off \in Int
    BY <1>2, <1>3
  <2> QED BY <2>1
<1>5. net \in Int
  <2> HIDE DEF base, disc
  <2> QED BY <1>3, <1>4
<1>6. tax \in Int
  <2> HIDE DEF net
  <2>1. net * l.rate \in Int
    BY <1>2, <1>5
  <2> QED BY <2>1
<1> HIDE DEF disc, tax
<1>7. /\ x.id = iid /\ x.order = oid /\ x.product = l.product /\ x.qty = l.qty /\ x.disc = disc /\ x.net = net /\ x.tax = tax
  BY <1>1
<1> HIDE DEF x
<1>8. x.net = Price[x.product] * x.qty - x.disc /\ x.net \in Int /\ x.tax \in Int
  BY <1>5, <1>6, <1>7
<1> QED
  BY <1>7, <1>8 DEF x

LEMMA LinesAre ==
  ASSUME NEW draws, OrderDraws(draws), NEW i \in 1..N_ORDERS
  PROVE  /\ DOMAIN Lines(draws, i) = 1..Lens(draws)[i] /\ Lines(draws, i) \in Seq(Range(Lines(draws, i)))
         /\ Len(Lines(draws, i)) = Lens(draws)[i]
         /\ \A l \in 1..Lens(draws)[i] :
              /\ Lines(draws, i)[l].id = Running(Lens(draws))[i - 1] + l /\ Lines(draws, i)[l].order = i
              /\ Lines(draws, i)[l].net = Price[Lines(draws, i)[l].product] * Lines(draws, i)[l].qty - Lines(draws, i)[l].disc
              /\ Lines(draws, i)[l].net \in Int /\ Lines(draws, i)[l].tax \in Int
<1> DEFINE before == Running(Lens(draws))[i - 1]
           n == Lens(draws)[i]
           s == Lines(draws, i)
<1>1. Len(draws[i].lines) = n /\ n \in Nat
  BY LensAre
<1>2. draws[i].lines \in Seq(DrawnLines)
  BY DrawIs
<1>3. LinesBefore(draws, i) = before
  BY DEF LinesBefore, Lens
<1> HIDE DEF before, n
<1>4. DOMAIN draws[i].lines = 1..n /\ \A l \in 1..n : draws[i].lines[l] \in DrawnLines
  BY <1>1, <1>2
<1>5. DOMAIN s = 1..n /\ \A l \in 1..n : s[l] = Item(before + l, i, draws[i].lines[l])
  BY <1>3, <1>4 DEF Lines
<1>6. s \in Seq(Range(s)) /\ Len(s) = n
  <2>1. s = [l \in 1..n |-> s[l]]
    BY <1>3, <1>4 DEF Lines
  <2> HIDE DEF s
  <2>2. \A l \in 1..n : s[l] \in Range(s)
    BY <1>5 DEF Range
  <2>3. [l \in 1..n |-> s[l]] \in Seq(Range(s)) /\ Len([l \in 1..n |-> s[l]]) = n
    BY <1>1, <2>2
  <2> QED BY <2>1, <2>3, Zenon
<1>7. ASSUME NEW l \in 1..n
      PROVE  /\ s[l].id = before + l /\ s[l].order = i
             /\ s[l].net = Price[s[l].product] * s[l].qty - s[l].disc
             /\ s[l].net \in Int /\ s[l].tax \in Int
  <2> HIDE DEF s
  <2>1. draws[i].lines[l] \in DrawnLines /\ s[l] = Item(before + l, i, draws[i].lines[l])
    BY <1>4, <1>5
  <2> QED BY <2>1, ItemIs
<1> QED
  BY <1>5, <1>6, <1>7 DEF before, n

LEMMA LineIs ==
  ASSUME NEW draws, OrderDraws(draws), NEW i \in 1..N_ORDERS, NEW l \in 1..Lens(draws)[i], NEW x, x = Lines(draws, i)[l]
  PROVE  /\ x.id = Running(Lens(draws))[i - 1] + l /\ x.order = i
         /\ x.net = Price[x.product] * x.qty - x.disc
         /\ x.net \in Int /\ x.tax \in Int
BY LinesAre

\* Each line of the seed is the l-th line of the i-th order.
LEMMA ItemsAre ==
  ASSUME NEW draws, OrderDraws(draws)
  PROVE  \A x : x \in Seed(draws).items <=> \E i \in 1..N_ORDERS : \E l \in 1..Lens(draws)[i] : x = Lines(draws, i)[l]
<1>1. Seed(draws).items = UNION {Range(Lines(draws, i)) : i \in 1..N_ORDERS}
  BY LensAre DEF Seed
<1>2. ASSUME NEW i \in 1..N_ORDERS PROVE Range(Lines(draws, i)) = {Lines(draws, i)[l] : l \in 1..Lens(draws)[i]}
  BY LinesAre DEF Range
<1> QED
  BY <1>1, <1>2

\* The ids of each table are 1, 2, 3, ...
LEMMA ItemIds ==
  ASSUME NEW draws, OrderDraws(draws)
  PROVE  /\ {x.id : x \in Seed(draws).items} = 1..Running(Lens(draws))[N_ORDERS]
         /\ \A x \in Seed(draws).items : \A y \in Seed(draws).items : x.id = y.id => x = y
         /\ Running(Lens(draws))[N_ORDERS] \in Nat /\ Running(Lens(draws))[N_ORDERS] # 0
<1> DEFINE n == N_ORDERS
           lens == Lens(draws)
           B == Running(lens)
           items == Seed(draws).items
<1>1. n \in Nat /\ n # 0 /\ lens \in Seq(Nat) /\ Len(lens) = n /\ \A i \in 1..n : lens[i] # 0
  BY LensAre
<1>2. \A i \in 1..n : lens[i] \in Nat
  BY <1>1
<1>3. B \in [0..n -> Nat] /\ \A i \in 1..n : B[i] = B[i - 1] + lens[i]
  BY <1>1, BlockEnds
<1> HIDE DEF lens, B, items
<1>4. ASSUME NEW x \in items PROVE \E i \in 1..n : \E l \in 1..lens[i] : x = Lines(draws, i)[l] /\ x.id = B[i - 1] + l
  <2>a. PICK i \in 1..n : \E l \in 1..lens[i] : x = Lines(draws, i)[l]
    BY ItemsAre DEF items, lens
  <2>1. PICK l \in 1..lens[i] : x = Lines(draws, i)[l]
    BY <2>a
  <2>2. x.id = B[i - 1] + l
    BY <2>1, LineIs DEF lens, B
  <2> QED BY <2>1, <2>2
<1>5. ASSUME NEW i \in 1..n, NEW l \in 1..lens[i]
      PROVE  Lines(draws, i)[l] \in items /\ Lines(draws, i)[l].id = B[i - 1] + l
  <2>1. Lines(draws, i)[l] \in items
    BY ItemsAre DEF items, lens
  <2>2. Lines(draws, i)[l].id = B[i - 1] + l
    BY LineIs DEF lens, B
  <2> QED BY <2>1, <2>2
<1>6. ASSUME NEW x \in items PROVE x.id \in 1..B[n]
  <2>a. PICK i \in 1..n : \E l \in 1..lens[i] : x.id = B[i - 1] + l
    BY <1>4
  <2>1. PICK l \in 1..lens[i] : x.id = B[i - 1] + l
    BY <2>a
  <2>2. B[i] <= B[n]
    BY <1>1, BlocksRise DEF lens, B
  <2>3. B[i] = B[i - 1] + lens[i] /\ lens[i] \in Nat /\ B[i] \in Nat /\ B[n] \in Nat /\ B[i - 1] \in Nat
    BY <1>1, <1>2, <1>3
  <2> QED BY <2>1, <2>2, <2>3
<1>7. ASSUME NEW k \in 1..B[n] PROVE k \in {x.id : x \in items}
  <2>a. PICK i \in 1..n : \E l \in 1..lens[i] : k = B[i - 1] + l
    BY <1>1, BlocksCover DEF lens, B
  <2>1. PICK l \in 1..lens[i] : k = B[i - 1] + l
    BY <2>a
  <2> QED BY <1>5, <2>1
<1>8. {x.id : x \in items} = 1..B[n]
  <2> DEFINE ids == {x.id : x \in items}
             all == 1..B[n]
  <2>1. \A k \in ids : k \in all
    BY <1>6
  <2>2. \A k \in all : k \in ids
    BY <1>7
  <2> HIDE DEF ids, all
  <2>3. ids = all
    BY <2>1, <2>2
  <2> QED BY <2>3 DEF ids, all
<1>9. ASSUME NEW x \in items, NEW y \in items, x.id = y.id PROVE x = y
  <2>a. PICK i \in 1..n : \E l \in 1..lens[i] : x = Lines(draws, i)[l] /\ x.id = B[i - 1] + l
    BY <1>4
  <2>1. PICK l \in 1..lens[i] : x = Lines(draws, i)[l] /\ x.id = B[i - 1] + l
    BY <2>a
  <2>b. PICK j \in 1..n : \E m \in 1..lens[j] : y = Lines(draws, j)[m] /\ y.id = B[j - 1] + m
    BY <1>4
  <2>2. PICK m \in 1..lens[j] : y = Lines(draws, j)[m] /\ y.id = B[j - 1] + m
    BY <2>b
  <2>3. i \in 1..Len(lens) /\ j \in 1..Len(lens)
    BY <1>1
  <2>4. Running(lens)[i - 1] + l = Running(lens)[j - 1] + m
    BY <1>9, <2>1, <2>2 DEF B
  <2>5. i = j /\ l = m
    BY <1>1, <2>3, <2>4, BlocksApart, SMTT(30)
  <2> QED BY <2>1, <2>2, <2>5
<1>10. B[n] \in Nat /\ B[n] # 0
  <2>1. 1 \in 1..n /\ n \in 0..n
    BY <1>1
  <2>2. PICK k : k \in 1..lens[1]
    BY <1>1, <1>2, <2>1
  <2>3. Lines(draws, 1)[k] \in items
    BY <1>5, <2>1, <2>2
  <2> QED BY <1>3, <1>6, <2>1, <2>3
<1> QED
  BY <1>8, <1>9, <1>10 DEF items, B, lens

LEMMA HeaderIs ==
  ASSUME NEW draws, NEW i
  PROVE  /\ Header(draws, i).id = i /\ Header(draws, i).order = i /\ Header(draws, i).customer = draws[i].customer
         /\ Header(draws, i).subtotal = Subtotal(draws, i)
         /\ Header(draws, i).total = Subtotal(draws, i) + TaxTotal(draws, i) + draws[i].ship
         /\ Header(draws, i).points = Subtotal(draws, i) \div 100
         /\ Earned(draws, i).id = i /\ Earned(draws, i).order = i /\ Earned(draws, i).customer = draws[i].customer
         /\ Earned(draws, i).points = Subtotal(draws, i) \div 100
BY DEF Header, Earned

LEMMA OrderIds ==
  ASSUME NEW draws, OrderDraws(draws)
  PROVE  /\ {r.id : r \in Seed(draws).orders} = 1..N_ORDERS
         /\ \A x \in Seed(draws).orders : \A y \in Seed(draws).orders : x.id = y.id => x = y
         /\ {r.id : r \in Seed(draws).loyalty} = 1..N_ORDERS
         /\ \A x \in Seed(draws).loyalty : \A y \in Seed(draws).loyalty : x.id = y.id => x = y
<1>1. Seed(draws).orders = {Header(draws, i) : i \in 1..N_ORDERS}
  BY LensAre DEF Seed
<1>2. Seed(draws).loyalty = {Earned(draws, i) : i \in 1..N_ORDERS}
  BY LensAre DEF Seed
<1>3. \A i \in 1..N_ORDERS : Header(draws, i).id = i /\ Earned(draws, i).id = i
  BY HeaderIs
<1> DEFINE orders == Seed(draws).orders
           loyalty == Seed(draws).loyalty
           all == 1..N_ORDERS
<1>4. {r.id : r \in orders} = all
  <2> HIDE DEF orders, all
  <2> QED BY <1>1, <1>3 DEF orders, all
<1>5. {r.id : r \in loyalty} = all
  BY <1>2, <1>3
<1>6. \A x \in orders : \A y \in orders : x.id = y.id => x = y
  BY <1>1, <1>3
<1>7. \A x \in loyalty : \A y \in loyalty : x.id = y.id => x = y
  BY <1>2, <1>3
<1> QED
  BY <1>4, <1>5, <1>6, <1>7

LEMMA SeedIsRows ==
  ASSUME NEW draws, OrderDraws(draws)
  PROVE  SeedRows(Seed(draws))
<1> DEFINE S == Seed(draws)
           n == N_ORDERS
<1>1. n \in Nat /\ n # 0
  BY SizesAssumption
<1>2. S.orders = {Header(draws, i) : i \in 1..n} /\ S.loyalty = {Earned(draws, i) : i \in 1..n}
  BY LensAre DEF Seed
<1>3. \A r \in S.orders \cup S.loyalty : r.id = r.order /\ r.order \in 1..n
  BY <1>2, HeaderIs
<1>4. ASSUME NEW x \in S.items PROVE x.order \in 1..n
  BY ItemsAre, LineIs
<1>5. ASSUME NEW x \in S.items PROVE \E o \in S.orders : o.id = x.order
  <2>1. Header(draws, x.order) \in S.orders
    BY <1>2, <1>4
  <2>2. Header(draws, x.order).id = x.order
    BY HeaderIs
  <2> QED BY <2>1, <2>2
<1>6. MaxId(S.orders) = n /\ MaxId(S.loyalty) = n
  BY <1>1, OrderIds, NumberedRows
<1>7. MaxId(S.items) \in Nat
  <2>1. PICK m \in Nat : m # 0 /\ {x.id : x \in S.items} = 1..m /\ \A x \in S.items : \A y \in S.items : x.id = y.id => x = y
    BY ItemIds
  <2> HIDE DEF S
  <2> QED BY <2>1, NumberedRows
<1> HIDE DEF S
<1> QED
  BY <1>1, <1>3, <1>4, <1>5, <1>6, <1>7 DEF SeedRows, S

\* The lines that refer to an order are those it was added up from.
LEMMA LinesOf ==
  ASSUME NEW draws, OrderDraws(draws), NEW i \in 1..N_ORDERS
  PROVE  /\ {x \in Seed(draws).items : x.order = i} = Range(Lines(draws, i))
         /\ IsInjective(Lines(draws, i))
<1> DEFINE n == Lens(draws)[i]
           items == Seed(draws).items
           s == Lines(draws, i)
<1>1. DOMAIN s = 1..n
  BY LinesAre
<1>2. Range(s) = {s[l] : l \in 1..n}
  BY <1>1 DEF Range
<1>3. ASSUME NEW l \in 1..n PROVE s[l] \in items /\ s[l].order = i
  <2>1. s[l] \in items
    BY ItemsAre
  <2> QED BY <2>1, LineIs
<1>4. ASSUME NEW x \in items, x.order = i PROVE x \in Range(s)
  <2>1. PICK j \in 1..N_ORDERS : \E l \in 1..Lens(draws)[j] : x = Lines(draws, j)[l]
    BY ItemsAre
  <2>2. PICK l \in 1..Lens(draws)[j] : x = Lines(draws, j)[l]
    BY <2>1
  <2>3. x.order = j
    BY <2>2, LineIs
  <2> QED BY <1>2, <1>4, <2>2, <2>3
<1>5. IsInjective(s)
  <2>1. Running(Lens(draws))[i - 1] \in Nat
    <3>1. i - 1 \in 0..N_ORDERS
      BY LensAre
    <3> QED BY <3>1, LensAre, BlockEnds
  <2>2. ASSUME NEW l \in 1..n, NEW m \in 1..n, s[l] = s[m] PROVE l = m
    <3>1. s[l].id = Running(Lens(draws))[i - 1] + l
      BY LineIs
    <3>2. s[m].id = Running(Lens(draws))[i - 1] + m
      BY LineIs
    <3>3. l \in Int /\ m \in Int
      OBVIOUS
    <3> QED BY <2>1, <2>2, <3>1, <3>2, <3>3
  <2> HIDE DEF s, n
  <2> QED BY <1>1, <2>2 DEF IsInjective
<1> HIDE DEF s, n, items
<1>6. {x \in items : x.order = i} = Range(s)
  BY <1>2, <1>3, <1>4
<1> QED
  BY <1>5, <1>6 DEF s, items

\* A header adds up its lines.
LEMMA HeaderAddsUp ==
  ASSUME NEW draws, OrderDraws(draws), NEW i \in 1..N_ORDERS
  PROVE  LET s == Lines(draws, i) IN
         /\ Subtotal(draws, i) = SumOf([l \in DOMAIN s |-> Price[s[l].product] * s[l].qty - s[l].disc])
         /\ Subtotal(draws, i) + TaxTotal(draws, i) = SumOf([l \in DOMAIN s |-> s[l].net + s[l].tax])
         /\ Subtotal(draws, i) \in Int /\ TaxTotal(draws, i) \in Int
<1> DEFINE s == Lines(draws, i)
           n == Lens(draws)[i]
           D == 1..n
           net == [l \in D |-> s[l].net]
           tax == [l \in D |-> s[l].tax]
           both == [l \in D |-> s[l].net + s[l].tax]
           owed == [l \in D |-> Price[s[l].product] * s[l].qty - s[l].disc]
<1>1. n \in Nat /\ DOMAIN s = D
  BY LensAre, LinesAre
<1>2. ASSUME NEW l \in D PROVE s[l].net = Price[s[l].product] * s[l].qty - s[l].disc /\ s[l].net \in Int /\ s[l].tax \in Int
  BY LineIs
<1> HIDE DEF s, n
<1>3. net \in Seq(Int) /\ Len(net) = n /\ tax \in Seq(Int) /\ Len(tax) = n
  BY <1>1, <1>2
<1>4. both \in Seq(Int) /\ Len(both) = n
  BY <1>1, <1>2
<1>5. owed = net
  BY <1>2
<1>6. Subtotal(draws, i) = SumOf(net) /\ TaxTotal(draws, i) = SumOf(tax)
  <2>1. Subtotal(draws, i) = SumOf([l \in DOMAIN s |-> s[l].net]) /\ TaxTotal(draws, i) = SumOf([l \in DOMAIN s |-> s[l].tax])
    BY DEF Subtotal, TaxTotal, Added, s
  <2> QED BY <1>1, <2>1
<1>7. \A l \in 1..n : both[l] = net[l] + tax[l]
  OBVIOUS
<1> HIDE DEF net, tax, both, owed
<1>8. SumOf(both) = SumOf(net) + SumOf(tax)
  <2>1. Paired(both, net, tax)
    BY <1>3, <1>7 DEF Paired
  <2> QED BY <1>3, <1>4, <2>1, SumPlus
<1>9. SumOf(net) \in Int /\ SumOf(tax) \in Int
  BY <1>3, SumType
<1>10. /\ SumOf([l \in DOMAIN s |-> Price[s[l].product] * s[l].qty - s[l].disc]) = SumOf(owed)
       /\ SumOf([l \in DOMAIN s |-> s[l].net + s[l].tax]) = SumOf(both)
  BY <1>1 DEF owed, both
<1> QED
  BY <1>5, <1>6, <1>8, <1>9, <1>10 DEF s

LEMMA SeedAddsUp ==
  ASSUME NEW draws, OrderDraws(draws), NEW seed, seed = Seed(draws)
  PROVE  OrdersAddUp(seed)
<1> DEFINE n == N_ORDERS
<1>1. n \in Nat /\ DOMAIN seed = {"orders", "items", "loyalty"}
  BY SizesAssumption DEF Seed
<1>2. seed.orders = {Header(draws, i) : i \in 1..n} /\ seed.loyalty = {Earned(draws, i) : i \in 1..n}
  BY LensAre DEF Seed
<1>3. ASSUME NEW t \in DOMAIN seed PROVE {r.id : r \in seed[t]} = 1..Cardinality(seed[t])
  <2>1. CASE t = "orders"
    BY <1>1, <2>1, OrderIds, NumberedRows
  <2>2. CASE t = "loyalty"
    BY <1>1, <2>2, OrderIds, NumberedRows
  <2>3. CASE t = "items"
    <3> DEFINE items == seed.items
    <3>1. PICK m \in Nat : {x.id : x \in items} = 1..m /\ \A x \in items : \A y \in items : x.id = y.id => x = y
      BY ItemIds
    <3> HIDE DEF items
    <3>2. {r.id : r \in items} = 1..Cardinality(items)
      BY <3>1, NumberedRows
    <3> QED BY <2>3, <3>2 DEF items
  <2> QED BY <1>1, <2>1, <2>2, <2>3
<1>4. ASSUME NEW x \in seed.items \cup seed.loyalty PROVE \E o \in seed.orders : o.id = x.order
  <2>1. CASE x \in seed.items
    BY <2>1, SeedIsRows DEF SeedRows
  <2>2. CASE x \in seed.loyalty
    <3>1. PICK i \in 1..n : x = Earned(draws, i)
      BY <1>2, <2>2
    <3>2. Header(draws, i) \in seed.orders /\ Header(draws, i).id = i /\ x.order = i
      BY <1>2, <3>1, HeaderIs
    <3> QED BY <3>2
  <2> QED BY <2>1, <2>2
<1>5. ASSUME NEW o \in seed.orders
      PROVE  \E s \in SetToSeqs({x \in seed.items : x.order = o.id}) :
               /\ o.subtotal = SumOf([l \in DOMAIN s |-> Price[s[l].product] * s[l].qty - s[l].disc])
               /\ o.total = o.shipping + SumOf([l \in DOMAIN s |-> s[l].net + s[l].tax])
  <2>1. PICK i \in 1..n : o = Header(draws, i)
    BY <1>2
  <2> DEFINE s == Lines(draws, i)
  <2>2. o.id = i /\ o.subtotal = Subtotal(draws, i) /\ o.shipping = draws[i].ship
        /\ o.total = Subtotal(draws, i) + TaxTotal(draws, i) + draws[i].ship
    BY <2>1 DEF Header
  <2>3. {x \in seed.items : x.order = o.id} = Range(s)
    BY <2>2, LinesOf
  <2>4. s \in SetToSeqs(Range(s))
    BY LinesAre, LinesOf, ListOfItsRange
  <2>5. draws[i].ship \in Nat
    BY DrawIs
  <2>6. o.subtotal = SumOf([l \in DOMAIN s |-> Price[s[l].product] * s[l].qty - s[l].disc])
    BY <2>2, HeaderAddsUp
  <2>7. /\ Subtotal(draws, i) + TaxTotal(draws, i) = SumOf([l \in DOMAIN s |-> s[l].net + s[l].tax])
        /\ Subtotal(draws, i) \in Int /\ TaxTotal(draws, i) \in Int
    BY HeaderAddsUp
  <2> HIDE DEF s
  <2>8. o.total = o.shipping + SumOf([l \in DOMAIN s |-> s[l].net + s[l].tax])
    BY <2>2, <2>5, <2>7
  <2> QED BY <2>3, <2>4, <2>6, <2>8
<1>6. ASSUME NEW o \in seed.orders
      PROVE  {<<x.customer, x.points>> : x \in {y \in seed.loyalty : y.order = o.id}} = {<<o.customer, o.points>>}
  <2>1. PICK i \in 1..n : o = Header(draws, i)
    BY <1>2
  <2> DEFINE e == Earned(draws, i)
             own == {y \in seed.loyalty : y.order = o.id}
  <2>2. o.id = i /\ e.customer = o.customer /\ e.points = o.points /\ e.order = i
    BY <2>1, HeaderIs
  <2>3. e \in own
    BY <1>2, <2>2
  <2>4. ASSUME NEW y \in own PROVE y = e
    <3>1. PICK j \in 1..n : y = Earned(draws, j)
      BY <1>2
    <3>2. y.order = j /\ y.order = i
      BY <2>2, <3>1, HeaderIs
    <3> QED BY <3>1, <3>2
  <2>5. own = {e}
    BY <2>3, <2>4
  <2> HIDE DEF own, e
  <2>6. {<<x.customer, x.points>> : x \in own} = {<<e.customer, e.points>>}
    BY <2>5
  <2> QED BY <2>2, <2>6 DEF own
<1> QED
  BY <1>3, <1>4, <1>5, <1>6 DEF OrdersAddUp

\* The customers' tiers and the rules' keys are there.
LEMMA TiersAre ==
  ASSUME NEW d, TableDraws(d), NEW c \in customer(d.tiers)
  PROVE  c.tier \in DOMAIN TIERS
<1>1. PICK i \in 1..N_CUSTOMERS : c.tier = Tier(d.tiers[i])
  BY DEF customer
<1>2. d.tiers[i] \in (Nat \ {0}) \cup {None}
  BY DEF TableDraws
<1>3. Tier(d.tiers[i]) \in 1..4
  <2> DEFINE drawn == d.tiers[i]
  <2>1. CASE drawn = None
    BY <2>1 DEF Tier
  <2>2. CASE drawn # None
    <3>1. drawn \in Nat \ {0}
      BY <1>2, <2>2
    <3> HIDE DEF drawn
    <3>2. 1 + (IF drawn = None \/ drawn > 4 THEN 3 ELSE drawn - 1) \in 1..4
      BY <2>2, <3>1
    <3> QED BY <3>2 DEF Tier, drawn
  <2> QED BY <2>1, <2>2
<1>4. DOMAIN TIERS = 1..4
  BY DEF TIERS
<1> QED
  BY <1>1, <1>3, <1>4

LEMMA RulesAre ==
  ASSUME NEW d, TableDraws(d), NEW r \in rules(d.specials)
  PROVE  /\ "tier" \in DOMAIN r => r.tier \in DOMAIN TIERS
         /\ "category" \in DOMAIN r => r.category \in Range(CATEGORIES)
         /\ "sku" \in DOMAIN r => \E p \in product(d.exempt) : r.sku = p.id
<1>1. Range(d.specials) \subseteq 1..N_PRODUCTS
  <2>1. d.specials \in [1..SPECIALS -> 1..N_PRODUCTS]
    BY DEF TableDraws
  <2> QED BY <2>1 DEF Range
<1>2. ASSUME NEW k \in 1..N_PRODUCTS PROVE \E p \in product(d.exempt) : k = p.id
  <2>1. \E p \in product(d.exempt) : p = [id |-> k, category |-> CATEGORIES[1 + (k % Len(CATEGORIES))],
          exempt |-> CATEGORIES[1 + (k % Len(CATEGORIES))] = "grocery" /\ d.exempt]
    BY Zenon DEF product
  <2> QED BY <2>1
<1>3. CASE \E k \in DOMAIN TIERS : r = [column \in {"tier"} |-> k]
  BY <1>3
<1>4. CASE \E k \in Range(CATEGORIES) : r = [column \in {"category"} |-> k]
  BY <1>4
<1>5. CASE \E k \in {3, 5, 10, 25} : r = [column \in {"volume"} |-> k]
  BY <1>5
<1>6. CASE \E k \in Range(d.specials) : r = [column \in {"sku"} |-> k]
  BY <1>1, <1>2, <1>6
<1>7. /\ \/ \E k \in DOMAIN TIERS : r = [column \in {"tier"} |-> k]
         \/ \E k \in Range(CATEGORIES) : r = [column \in {"category"} |-> k]
         \/ \E k \in {3, 5, 10, 25} : r = [column \in {"volume"} |-> k]
         \/ \E k \in Range(d.specials) : r = [column \in {"sku"} |-> k]
  BY DEF rules
<1> QED
  BY <1>3, <1>4, <1>5, <1>6, <1>7

\* The tax rates a line may be given: one default, at most one for the category.
LEMMA RatesAre ==
  ASSUME NEW d, TableDraws(d), NEW reg \in Range(REGIONS), NEW cat \in Range(CATEGORIES) \cup {None}, NEW rates,
         rates = {t \in taxes(d.samples) : t.region = reg /\ t.category = cat}
  PROVE  Cardinality(rates) \in IF cat = None THEN {1} ELSE {0, 1}
<1> DEFINE rate(g, i) ==
             [id |-> (g - 1) * (SAMPLED + 1) + i, region |-> REGIONS[g],
              category |-> IF i = 1 THEN None ELSE d.samples[g][i - 1]]
           J == 1..(SAMPLED + 1)
<1>1. taxes(d.samples) = {rate(g, i) : g \in DOMAIN REGIONS, i \in J}
  BY DEF taxes
<1>2. PICK h \in DOMAIN REGIONS : reg = REGIONS[h]
  BY DEF Range
<1>3. \A g \in DOMAIN REGIONS : REGIONS[g] = reg => g = h
  BY <1>2, ListsAssumption DEF IsInjective
<1>4. SAMPLED \in Nat
  <2>1. PICK n \in Nat : SAMPLED \in 0..n
    BY ListsAssumption
  <2> QED BY <2>1
<1> DEFINE sample == d.samples[h]
<1>5. sample \in [1..SAMPLED -> Range(CATEGORIES)] /\ IsInjective(sample) /\ None \notin Range(CATEGORIES)
  BY ListsAssumption DEF TableDraws
<1>6. \A g \in DOMAIN REGIONS, i \in J :
        /\ rate(g, i).region = REGIONS[g] 
        /\ rate(g, i).category = IF i = 1 THEN None ELSE d.samples[g][i - 1]
  OBVIOUS
<1> HIDE DEF rate
<1>7. ASSUME NEW t \in rates PROVE \E i \in J : t = rate(h, i) /\ cat = IF i = 1 THEN None ELSE sample[i - 1]
  <2>1. PICK g \in DOMAIN REGIONS, i \in J : t = rate(g, i)
    BY <1>1
  <2>2. t.region = reg /\ t.category = cat
    OBVIOUS
  <2>3. g = h
    BY <1>3, <1>6, <2>1, <2>2
  <2> QED BY <1>6, <2>1, <2>2, <2>3
<1>8. ASSUME NEW i \in J, i # 1 PROVE i - 1 \in 1..SAMPLED /\ sample[i - 1] \in Range(CATEGORIES)
  <2>1. i - 1 \in 1..SAMPLED
    BY <1>4, <1>8
  <2> HIDE DEF sample
  <2> QED BY <1>5, <2>1
<1>9. ASSUME NEW t \in rates, NEW u \in rates PROVE t = u
  <2>1. PICK i \in J : t = rate(h, i) /\ cat = IF i = 1 THEN None ELSE sample[i - 1]
    BY <1>7
  <2>2. PICK j \in J : u = rate(h, j) /\ cat = IF j = 1 THEN None ELSE sample[j - 1]
    BY <1>7
  <2> HIDE DEF sample
  <2>3. CASE i = 1
    BY <1>5, <1>8, <2>1, <2>2, <2>3
  <2>4. CASE i # 1
    <3>1. j # 1
      BY <1>5, <1>8, <2>1, <2>2, <2>4
    <3>2. i - 1 = j - 1
      BY <1>5, <1>8, <2>1, <2>2, <2>4, <3>1 DEF IsInjective
    <3>3. i = j
      BY <1>4, <3>2
    <3> QED BY <2>1, <2>2, <3>3
  <2> QED BY <2>3, <2>4
<1>10. ASSUME cat = None PROVE rates # {}
  <2>1. 1 \in J
    BY <1>4
  <2>2. rate(h, 1) \in taxes(d.samples) /\ rate(h, 1).region = reg /\ rate(h, 1).category = None
    BY <1>1, <1>2, <1>6, <2>1
  <2> QED BY <1>10, <2>2
<1>11. CASE rates = {}
  BY <1>10, <1>11, FS_EmptySet
<1>12. CASE rates # {}
  <2>1. PICK t : t \in rates
    BY <1>12
  <2>2. rates = {t}
    BY <1>9, <2>1
  <2>3. Cardinality(rates) = 1
    BY <2>2, FS_Singleton
  <2> QED BY <2>3
<1> QED
  BY <1>11, <1>12

LEMMA ReferenceFits ==
  ASSUME NEW d, TableDraws(d), NEW ref, ref = Reference(d)
  PROVE  TablesFit(ref)
<1>1. /\ ref.customer = customer(d.tiers) /\ ref.product = product(d.exempt) /\ ref.rules = rules(d.specials)
      /\ ref.taxes = taxes(d.samples)
  BY DEF Reference
<1>2. \A c \in ref.customer : c.tier \in DOMAIN TIERS
  BY <1>1, TiersAre
<1>3. ASSUME NEW r \in ref.rules
      PROVE  /\ "tier" \in DOMAIN r => r.tier \in DOMAIN TIERS
             /\ "category" \in DOMAIN r => r.category \in Range(CATEGORIES)
             /\ "sku" \in DOMAIN r => \E p \in ref.product : r.sku = p.id
  BY <1>1, RulesAre
<1>4. ASSUME NEW reg \in Range(REGIONS), NEW cat \in Range(CATEGORIES) \cup {None}
      PROVE  Cardinality({t \in ref.taxes : t.region = reg /\ t.category = cat})
               \in IF cat = None THEN {1} ELSE {0, 1}
  BY <1>1, RatesAre
<1> QED
  BY <1>2, <1>3, <1>4 DEF TablesFit

\* ------------------------------------------------------------------------
\* The documents

\* FlattenSeq joins the lists one after the other: f[i] is the first i of them joined.
IsJoined(f, s) == f[0] = <<>> /\ \A i \in 1..Len(s) : f[i] = f[i - 1] \o s[i]

LEMMA FlattenIs ==
  ASSUME NEW S, NEW s \in Seq(Seq(S))
  PROVE  \E f \in [0..Len(s) -> Seq(S)] : IsJoined(f, s) /\ FlattenSeq(s) = f[Len(s)]
<1> DEFINE n == Len(s)
           V == Seq(S)
           step == [p \in (1..n) \X V |-> p[2] \o s[p[1]]]
           Is(f) == f = [i \in 1..n |-> IF i = 1 THEN s[i] ELSE f[i - 1] \o s[i]]
<1>1. n \in Nat /\ \A i \in 1..n : s[i] \in V
  OBVIOUS
<1>2. <<>> \in V
  OBVIOUS
<1>3. \A d, e \in V : d \o e \in V
  OBVIOUS
<1>4. n = 0 => FlattenSeq(s) = <<>>
  BY DEF FlattenSeq
<1>5. n # 0 => FlattenSeq(s) = (CHOOSE f : Is(f))[n]
  BY DEF FlattenSeq
<1>6. \A e \in V : <<>> \o e = e
  OBVIOUS
<1> HIDE DEF n, V
<1>7. step \in Steps(n, V)
  BY <1>1, <1>3 DEF Steps
<1>8. \A i \in 1..n : \A d \in V : step[<<i, d>>] = d \o s[i]
  OBVIOUS
<1> HIDE DEF step
<1>9. PICK f \in [0..n -> V] : IsLoop(f, n, <<>>, step)
  BY <1>1, <1>2, <1>7, LoopExists
<1>10. f[0] = <<>> /\ \A i \in 1..n : f[i] = f[i - 1] \o s[i]
  <2>1. ASSUME NEW i \in 1..n PROVE f[i] = f[i - 1] \o s[i]
    <3>1. i - 1 \in 0..n
      BY <1>1
    <3>2. f[i] = step[<<i, f[i - 1]>>] /\ f[i - 1] \in V
      BY <1>9, <3>1 DEF IsLoop
    <3> QED BY <1>8, <3>2
  <2> QED BY <1>9, <2>1 DEF IsLoop
<1>11. ASSUME n # 0 PROVE FlattenSeq(s) = f[n]
  <2> DEFINE h == [i \in 1..n |-> f[i]]
             g == CHOOSE x : Is(x)
  <2>1. Is(h)
    <3>1. ASSUME NEW i \in 1..n PROVE h[i] = IF i = 1 THEN s[i] ELSE h[i - 1] \o s[i]
      <4>1. CASE i = 1
        <5>1. f[1] = <<>> \o s[1] /\ s[1] \in V
          <6>1. 1 \in 1..n /\ 1 - 1 = 0
            BY <1>1, <4>1
          <6>2. f[1] = f[1 - 1] \o s[1]
            BY <1>10, <6>1
          <6> QED BY <1>1, <1>10, <6>1, <6>2
        <5> QED BY <1>6, <4>1, <5>1
      <4>2. CASE i # 1
        <5>1. i - 1 \in 1..n
          BY <1>1, <4>2
        <5> QED BY <1>10, <4>2, <5>1
      <4> QED BY <4>1, <4>2
    <3> QED BY <3>1
  <2>2. Is(g)
    <3> HIDE DEF Is, h
    <3> QED BY <2>1
  <2> HIDE DEF g, h
  <2>3. \A i \in 1..n : g[i] = IF i = 1 THEN s[i] ELSE g[i - 1] \o s[i]
    BY <2>2
  <2> DEFINE T == {i \in 0..n : i # 0 => g[i] = f[i]}
  <2>4. 0 \in T
    BY <1>1
  <2>5. ASSUME NEW i \in 0..(n - 1), i \in T PROVE i + 1 \in T
    <3>1. i + 1 \in 1..n /\ (i + 1) - 1 = i /\ i + 1 \in 0..n
      BY <1>1
    <3>2. CASE i = 0
      <4>1. f[1] = <<>> \o s[1] /\ s[1] \in V /\ 1 \in 1..n
        <5>1. 1 \in 1..n /\ 1 - 1 = 0
          BY <3>1, <3>2
        <5>2. f[1] = f[1 - 1] \o s[1]
          BY <1>10, <5>1
        <5> QED BY <1>1, <1>10, <5>1, <5>2
      <4>2. g[1] = s[1]
        BY <2>3, <4>1
      <4> QED BY <1>6, <3>1, <3>2, <4>1, <4>2
    <3>3. CASE i # 0
      <4>1. g[i + 1] = g[i] \o s[i + 1]
        <5>1. i + 1 # 1
          BY <1>1, <2>5, <3>3
        <5>2. g[i + 1] = g[(i + 1) - 1] \o s[i + 1]
          BY <2>3, <3>1, <5>1
        <5> QED BY <3>1, <5>2
      <4> QED BY <1>10, <2>5, <3>1, <3>3, <4>1
    <3> QED BY <3>2, <3>3
  <2>6. \A i \in 0..n : i \in T
    <3> HIDE DEF T
    <3> QED BY <1>1, <2>4, <2>5, LoopInduction
  <2>7. n \in 0..n
    BY <1>1
  <2> QED BY <1>5, <1>11, <2>6, <2>7 DEF g
<1>12. FlattenSeq(s) = f[n]
  BY <1>4, <1>10, <1>11
<1> QED
  BY <1>10, <1>12 DEF n, V, IsJoined

LEMMA JoinedOn ==
  ASSUME NEW S, NEW d \in Seq(S), NEW e \in Seq(S), NEW de, de = d \o e
  PROVE  /\ Len(de) = Len(d) + Len(e) /\ Len(d) <= Len(de)
         /\ \A q \in 1..Len(d) : de[q] = d[q]
         /\ \A q \in 1..Len(e) : de[Len(d) + q] = e[q]
  OBVIOUS

\* What is joined stays where it is.
Before(d, e) == Len(d) <= Len(e) /\ \A q \in 1..Len(d) : e[q] = d[q]
LEMMA JoinedStays ==
  ASSUME NEW S, NEW s \in Seq(Seq(S)), NEW f \in [0..Len(s) -> Seq(S)], IsJoined(f, s)
  PROVE  \A i, j \in 0..Len(s) : i <= j => Before(f[i], f[j])
<1> SUFFICES ASSUME NEW i \in 0..Len(s), NEW j \in 0..Len(s), i <= j
             PROVE  Len(f[i]) <= Len(f[j]) /\ \A q \in 1..Len(f[i]) : f[j][q] = f[i][q]
  BY DEF Before
<1> DEFINE n == Len(s)
           V == Seq(S)
           T == {m \in 0..n : i <= m => Len(f[i]) <= Len(f[m]) /\ \A q \in 1..Len(f[i]) : f[m][q] = f[i][q]}
<1>1. n \in Nat /\ (\A m \in 1..n : s[m] \in V) /\ i \in 0..n /\ j \in 0..n /\ i \in Nat
  OBVIOUS
<1>2. \A d \in V : Len(d) \in Nat
  OBVIOUS
<1>4. \A m \in 1..n : f[m] = f[m - 1] \o s[m]
  BY DEF IsJoined
<1>5. f \in [0..n -> V]
  OBVIOUS
<1> HIDE DEF n, V
<1>6. 0 \in T
  BY <1>1, <1>2, <1>5
<1>7. ASSUME NEW m \in 0..(n - 1), m \in T PROVE m + 1 \in T
  <2>1. m + 1 \in 1..n /\ m + 1 \in 0..n /\ (m + 1) - 1 = m /\ m \in 0..n
    BY <1>1
  <2>2. f[m + 1] = f[m] \o s[m + 1] /\ f[m] \in V /\ s[m + 1] \in V /\ f[m + 1] \in V /\ f[i] \in V
    BY <1>1, <1>4, <1>5, <2>1
  <2>3. CASE i <= m
    <3>1. Len(f[i]) <= Len(f[m]) /\ \A q \in 1..Len(f[i]) : f[m][q] = f[i][q]
      BY <1>7, <2>3
    <3>2. Len(f[m]) <= Len(f[m + 1]) /\ \A q \in 1..Len(f[m]) : f[m + 1][q] = f[m][q]
      <4> HIDE DEF T
      <4>1. f[m] \in Seq(S) /\ s[m + 1] \in Seq(S) /\ f[m + 1] = f[m] \o s[m + 1]
        BY <2>2 DEF V
      <4>2. /\ Len(f[m + 1]) = Len(f[m]) + Len(s[m + 1]) /\ Len(f[m]) <= Len(f[m + 1])
            /\ \A q \in 1..Len(f[m]) : f[m + 1][q] = f[m][q]
            /\ \A q \in 1..Len(s[m + 1]) : f[m + 1][Len(f[m]) + q] = s[m + 1][q]
        <5>1. PICK d \in Seq(S), e \in Seq(S), de \in {f[m + 1]} : d = f[m] /\ e = s[m + 1] /\ de = f[m + 1]
          BY <4>1
        <5>2. de = d \o e
          BY <4>1, <5>1
        <5>3. /\ Len(de) = Len(d) + Len(e) /\ Len(d) <= Len(de)
              /\ \A q \in 1..Len(d) : de[q] = d[q]
              /\ \A q \in 1..Len(e) : de[Len(d) + q] = e[q]
          BY <5>2, JoinedOn
        <5> QED BY <5>1, <5>3
      <4> QED BY <4>2
    <3>3. Len(f[i]) \in Nat /\ Len(f[m]) \in Nat /\ Len(f[m + 1]) \in Nat
      BY <1>2, <2>2
    <3>4. \A q \in 1..Len(f[i]) : q \in 1..Len(f[m])
      BY <3>1, <3>3
    <3>5. Len(f[i]) <= Len(f[m + 1])
      BY <3>1, <3>2, <3>3
    <3> QED BY <2>1, <3>1, <3>2, <3>4, <3>5
  <2>4. CASE ~(i <= m)
    <3>1. i <= m + 1 => i = m + 1
      BY <1>1, <2>1, <2>4
    <3>2. Len(f[i]) \in Nat
      BY <1>2, <2>2
    <3> QED BY <2>1, <3>1, <3>2
  <2> QED BY <2>3, <2>4
<1>8. \A m \in 0..n : m \in T
  <2> HIDE DEF T
  <2> QED BY <1>1, <1>6, <1>7, LoopInduction
<1> QED
  BY <1>1, <1>8

\* The text of the paper is made of tokens, and so are the keys and the values.
KeyTokens == {"NRUNS", "LO300", "HI300", "MS"}
Tokens == STRING \cup KeyTokens \cup {"runs", "lo ms", "hi ms", "lo", "hi"}

\* Replace is a loop over the text.
Scanned == [done : Seq(Tokens), skip : Nat]
LEMMA ScanType ==
  ASSUME NEW text \in Seq(Tokens), NEW k \in Seq(Tokens), k # <<>>, NEW v \in Tokens,
         NEW i \in 1..Len(text), NEW before \in Scanned
  PROVE  Scan(text, k, v, i, before) \in Scanned
<1>1. before.done \in Seq(Tokens) /\ before.skip \in Nat /\ text[i] \in Tokens
  BY DEF Scanned
<1>2. Append(before.done, v) \in Seq(Tokens) /\ Append(before.done, text[i]) \in Seq(Tokens)
  BY <1>1
<1>3. Len(k) - 1 \in Nat
  <2>1. Len(k) \in Nat /\ Len(k) # 0
    OBVIOUS
  <2> QED BY <2>1
<1>4. before.skip > 0 => before.skip - 1 \in Nat
  BY <1>1
<1>5. CASE before.skip > 0
  BY <1>1, <1>4, <1>5 DEF Scan, Scanned
<1>6. CASE ~(before.skip > 0) /\ StartsAt(text, k, i)
  BY <1>2, <1>3, <1>6 DEF Scan, Scanned
<1>7. CASE ~(before.skip > 0) /\ ~StartsAt(text, k, i)
  BY <1>2, <1>7 DEF Scan, Scanned
<1> QED
  BY <1>5, <1>6, <1>7

LEMMA ReplaceLoop ==
  ASSUME NEW text \in Seq(Tokens), NEW k \in Seq(Tokens), k # <<>>, NEW v \in Tokens
  PROVE  \E a \in [0..Len(text) -> Scanned] :
           /\ a[0] = [done |-> <<>>, skip |-> 0]
           /\ \A i \in 1..Len(text) : a[i] = Scan(text, k, v, i, a[i - 1])
           /\ Replace(text, k, v) = a[Len(text)].done
<1> DEFINE n == Len(text)
           V == Scanned
           base == [done |-> <<>>, skip |-> 0]
           step == [p \in (1..n) \X V |-> Scan(text, k, v, p[1], p[2])]
           Is(f) == f = [i \in 0..n |-> IF i = 0 THEN base ELSE Scan(text, k, v, i, f[i - 1])]
<1>1. n \in Nat
  OBVIOUS
<1>2. base \in V
  BY DEF Scanned
<1>3. ASSUME NEW before \in V, NEW i \in 1..n PROVE Scan(text, k, v, i, before) \in V
  BY ScanType
<1>4. Replace(text, k, v) = (CHOOSE f : Is(f))[n].done
  BY DEF Replace
<1> HIDE DEF n, V, base
<1>5. step \in Steps(n, V)
  BY <1>3 DEF Steps
<1>6. \A i \in 1..n : \A d \in V : step[<<i, d>>] = Scan(text, k, v, i, d)
  OBVIOUS
<1> HIDE DEF step
<1>7. PICK f \in [0..n -> V] : IsLoop(f, n, base, step)
  BY <1>1, <1>2, <1>5, LoopExists
<1>8. ASSUME NEW i \in 0..n PROVE f[i] = IF i = 0 THEN base ELSE Scan(text, k, v, i, f[i - 1])
  <2>1. CASE i = 0
    BY <1>7, <2>1 DEF IsLoop
  <2>2. CASE i # 0
    <3>1. i \in 1..n /\ i - 1 \in 0..n
      BY <1>1, <2>2
    <3>2. f[i] = step[<<i, f[i - 1]>>] /\ f[i - 1] \in V
      BY <1>7, <3>1 DEF IsLoop
    <3> QED BY <1>6, <2>2, <3>1, <3>2
  <2> QED BY <2>1, <2>2
<1>9. Is(f)
  BY <1>7, <1>8
<1> DEFINE g == CHOOSE h : Is(h)
<1>10. Is(g)
  <2> HIDE DEF Is
  <2> QED BY <1>9
<1>11. Replace(text, k, v) = g[n].done
  BY <1>4
<1> HIDE DEF g
<1>12. \A i \in 0..n : g[i] = IF i = 0 THEN base ELSE Scan(text, k, v, i, g[i - 1])
  BY <1>10
<1> DEFINE T == {i \in 0..n : g[i] \in V}
<1>13. 0 \in T
  <2>1. 0 \in 0..n
    BY <1>1
  <2>2. g[0] = base
    BY <1>12, <2>1
  <2> QED BY <1>2, <2>1, <2>2
<1>14. ASSUME NEW i \in 0..(n - 1), i \in T PROVE i + 1 \in T
  <2>1. i + 1 \in 1..n /\ (i + 1) - 1 = i /\ i + 1 \in 0..n /\ i + 1 # 0
    BY <1>1
  <2>2. g[i + 1] = Scan(text, k, v, i + 1, g[i])
    BY <1>12, <2>1
  <2> QED BY <1>3, <1>14, <2>1, <2>2
<1>15. \A i \in 0..n : i \in T
  <2> HIDE DEF T
  <2> QED BY <1>1, <1>13, <1>14, LoopInduction
<1>16. g \in [0..n -> V]
  BY <1>10, <1>15
<1>17. g[0] = base /\ \A i \in 1..n : g[i] = Scan(text, k, v, i, g[i - 1])
  <2>1. 0 \in 0..n /\ \A i \in 1..n : i \in 0..n /\ i # 0
    BY <1>1
  <2> HIDE DEF Is
  <2> QED BY <1>12, <2>1
<1> QED
  BY <1>11, <1>16, <1>17 DEF n, V, base

\* Where a piece of a text is: it lies between what was joined before it and after it.
Lies(text, d, piece, e) ==
  /\ Len(d) \in Nat /\ Len(e) = Len(d) + Len(piece) /\ Len(e) <= Len(text)
  /\ \A q \in 1..Len(piece) : text[Len(d) + q] = piece[q]
LEMMA PieceAt ==
  ASSUME NEW S, NEW s \in Seq(Seq(S)), NEW f \in [0..Len(s) -> Seq(S)], IsJoined(f, s),
         NEW text, text = f[Len(s)], NEW i \in 1..Len(s)
  PROVE  Lies(text, f[i - 1], s[i], f[i])
<1>1. i - 1 \in 0..Len(s) /\ i \in 0..Len(s) /\ Len(s) \in 0..Len(s) /\ i <= Len(s)
  OBVIOUS
<1>a. f[i - 1] \in Seq(S) /\ s[i] \in Seq(S) /\ f[i] \in Seq(S)
  <2> DEFINE n == Len(s)
             V == Seq(S)
  <2>1. n \in Nat /\ (\A m \in 1..n : s[m] \in V) /\ f \in [0..n -> V] /\ i - 1 \in 0..n /\ i \in 0..n /\ i \in 1..n
    BY <1>1
  <2> HIDE DEF n, V
  <2>2. f[i - 1] \in V /\ s[i] \in V /\ f[i] \in V
    BY <2>1
  <2> QED BY <2>2 DEF V
<1>2. PICK d \in Seq(S), e \in Seq(S), de \in Seq(S) : d = f[i - 1] /\ e = s[i] /\ de = f[i]
  BY <1>a
<1>3. de = d \o e
  BY <1>2 DEF IsJoined
<1>4. /\ Len(de) = Len(d) + Len(e) /\ Len(d) <= Len(de)
      /\ \A q \in 1..Len(d) : de[q] = d[q]
      /\ \A q \in 1..Len(e) : de[Len(d) + q] = e[q]
  BY <1>3, JoinedOn
<1>5. Len(f[i]) <= Len(f[Len(s)]) /\ \A q \in 1..Len(f[i]) : f[Len(s)][q] = f[i][q]
  <2>1. \A h, j \in 0..Len(s) : h <= j => Before(f[h], f[j])
    BY JoinedStays, Zenon
  <2>2. Before(f[i], f[Len(s)])
    BY <1>1, <2>1
  <2> QED BY <2>2 DEF Before
<1>6. Len(de) <= Len(text) /\ \A q \in 1..Len(de) : text[q] = de[q]
  BY <1>2, <1>5
<1>7. Len(d) \in Nat /\ Len(e) \in Nat /\ Len(de) \in Nat
  OBVIOUS
<1>8. ASSUME NEW q \in 1..Len(e) PROVE text[Len(d) + q] = e[q]
  <2>1. Len(d) + q \in 1..Len(de)
    BY <1>4, <1>7
  <2> QED BY <1>4, <1>6, <2>1
<1> QED
  BY <1>2, <1>4, <1>6, <1>7, <1>8 DEF Lies

\* A piece a key can only be found in by being it: a key of two tokens is not made of
\* the ends of two pieces, nor is a key of one token the beginning of a longer piece.
Sized(k) == k \in Seq(Tokens) /\ Len(k) \in {1, 2}
FitsPiece(piece, k) ==
  /\ Sized(piece)
  /\ Len(piece) = 2 => piece[2] # k[1]
  /\ Len(k) = 2 => piece[1] # k[2]
  /\ Len(k) = 1 /\ piece[1] = k[1] => piece = k
IsScan(a, text, k, v) ==
  /\ a[0] = [done |-> <<>>, skip |-> 0]
  /\ \A i \in 1..Len(text) : a[i] = Scan(text, k, v, i, a[i - 1])

\* One token of a text is read: within a key it is dropped, at the beginning of one
\* the value is written, else it is copied.
At(a, p, done, skip) == a[p] = [done |-> done, skip |-> skip]

LEMMA TokenIs ==
  ASSUME NEW text \in Seq(Tokens), NEW k, NEW v, NEW a, IsScan(a, text, k, v), NEW p \in Nat, p + 1 <= Len(text)
  PROVE  a[p + 1] = Scan(text, k, v, p + 1, a[p])
<1>1. p + 1 \in 1..Len(text) /\ (p + 1) - 1 = p
  OBVIOUS
<1> QED
  BY <1>1 DEF IsScan

LEMMA TokenDropped ==
  ASSUME NEW text \in Seq(Tokens), NEW k, NEW v, NEW a, IsScan(a, text, k, v), NEW p \in Nat, p + 1 <= Len(text),
         NEW done, At(a, p, done, 1)
  PROVE  At(a, p + 1, done, 0)
<1>1. a[p].done = done /\ a[p].skip = 1 /\ 1 > 0 /\ 1 - 1 = 0
  BY DEF At
<1>2. a[p + 1] = Scan(text, k, v, p + 1, a[p])
  BY TokenIs
<1> QED
  BY <1>1, <1>2 DEF Scan, At

LEMMA TokenReplaced ==
  ASSUME NEW text \in Seq(Tokens), NEW k, NEW v, NEW a, IsScan(a, text, k, v), NEW p \in Nat, p + 1 <= Len(text),
         NEW done, At(a, p, done, 0), StartsAt(text, k, p + 1)
  PROVE  At(a, p + 1, Append(done, v), Len(k) - 1)
<1>1. a[p].done = done /\ ~(a[p].skip > 0)
  BY DEF At
<1>2. a[p + 1] = Scan(text, k, v, p + 1, a[p])
  BY TokenIs
<1> QED
  BY <1>1, <1>2 DEF Scan, At

LEMMA TokenCopied ==
  ASSUME NEW text \in Seq(Tokens), NEW k, NEW v, NEW a, IsScan(a, text, k, v), NEW p \in Nat, p + 1 <= Len(text),
         NEW done, At(a, p, done, 0), ~StartsAt(text, k, p + 1)
  PROVE  At(a, p + 1, Append(done, text[p + 1]), 0)
<1>1. a[p].done = done /\ ~(a[p].skip > 0)
  BY DEF At
<1>2. a[p + 1] = Scan(text, k, v, p + 1, a[p])
  BY TokenIs
<1> QED
  BY <1>1, <1>2 DEF Scan, At

LEMMA TwoAppended ==
  ASSUME NEW S, NEW done \in Seq(S), NEW x \in S, NEW y \in S
  PROVE  Append(Append(done, x), y) = done \o <<x, y>>
  OBVIOUS

LEMMA StartsHere ==
  ASSUME NEW text \in Seq(Tokens), NEW k, Sized(k), NEW p \in Nat
  PROVE  StartsAt(text, k, p + 1) <=>
           /\ p + Len(k) <= Len(text) /\ text[p + 1] = k[1]
           /\ Len(k) = 2 => text[p + 2] = k[2]
<1>1. DOMAIN k = 1..Len(k) /\ Len(k) \in {1, 2} /\ Len(text) \in Nat
  BY DEF Sized
<1>2. StartsAt(text, k, p + 1) <=> (p + 1) + Len(k) - 1 <= Len(text) /\ \A j \in 1..Len(k) : text[(p + 1) + j - 1] = k[j]
  BY <1>1 DEF StartsAt
<1>3. (p + 1) + 1 - 1 = p + 1 /\ (p + 1) + 2 - 1 = p + 2
  OBVIOUS
<1>4. CASE Len(k) = 1
  <2>1. \A j : j \in 1..1 <=> j = 1
    OBVIOUS
  <2> QED BY <1>1, <1>2, <1>3, <1>4, <2>1
<1>5. CASE Len(k) = 2
  <2>1. \A j : j \in 1..2 <=> j = 1 \/ j = 2
    OBVIOUS
  <2> QED BY <1>1, <1>2, <1>3, <1>5, <2>1
<1> QED
  BY <1>1, <1>4, <1>5

LEMMA SameOne ==
  ASSUME NEW S, NEW s \in Seq(S), NEW t \in Seq(S), Len(s) = 1
  PROVE  s = t <=> Len(t) = 1 /\ s[1] = t[1]
  OBVIOUS

LEMMA SameTwo ==
  ASSUME NEW S, NEW s \in Seq(S), NEW t \in Seq(S), Len(s) = 2
  PROVE  s = t <=> Len(t) = 2 /\ s[1] = t[1] /\ s[2] = t[2]
  OBVIOUS

\* A piece is read: it is replaced when it is the key, else it stays.
LEMMA PieceRead ==
  ASSUME NEW text \in Seq(Tokens), NEW k, Sized(k), NEW v \in Tokens,
         NEW a, IsScan(a, text, k, v), NEW p \in Nat, NEW piece, FitsPiece(piece, k),
         p + Len(piece) <= Len(text), \A q \in 1..Len(piece) : text[p + q] = piece[q],
         Len(k) = 2 /\ p + Len(piece) < Len(text) => text[p + Len(piece) + 1] # k[2],
         NEW done \in Seq(Tokens), At(a, p, done, 0)
  PROVE  At(a, p + Len(piece), done \o (IF piece = k THEN <<v>> ELSE piece), 0)
<1>1. Sized(piece) /\ Len(piece) \in {1, 2} /\ Len(k) \in {1, 2} /\ Len(text) \in Nat
  BY DEF FitsPiece, Sized
<1>2. text[p + 1] = piece[1] /\ (Len(piece) = 2 => text[p + 2] = piece[2])
  BY <1>1
<1>3. Len(piece) = 1 => (piece = k <=> Len(k) = 1 /\ piece[1] = k[1])
  BY <1>1, SameOne DEF Sized
<1>4. Len(piece) = 2 => (piece = k <=> Len(k) = 2 /\ piece[1] = k[1] /\ piece[2] = k[2])
  BY <1>1, SameTwo DEF Sized
<1>5. \A x \in Tokens : done \o <<x>> = Append(done, x)
  OBVIOUS
<1>6. CASE Len(piece) = 1
  <2>1. StartsAt(text, k, p + 1) <=> piece = k
    <3>1. CASE Len(k) = 1
      BY <1>1, <1>2, <1>3, <1>6, <3>1, StartsHere
    <3>2. CASE Len(k) = 2
      <4>1. p + 2 <= Len(text) => text[p + 2] # k[2]
        <5>1. p + Len(piece) + 1 = p + 2
          BY <1>6
        <5>2. p + 2 <= Len(text) => p + Len(piece) < Len(text)
          BY <1>1, <1>6
        <5> QED BY <3>2, <5>1, <5>2
      <4> QED BY <1>3, <1>6, <3>2, <4>1, StartsHere
    <3> QED BY <1>1, <3>1, <3>2
  <2>2. p + 1 <= Len(text)
    BY <1>6
  <2>3. piece = <<piece[1]>> /\ piece[1] \in Tokens
    BY <1>1, <1>6 DEF Sized
  <2>4. CASE piece = k
    <3>1. At(a, p + 1, Append(done, v), Len(k) - 1)
      BY <2>1, <2>2, <2>4, TokenReplaced
    <3>2. Len(k) - 1 = 0
      BY <1>6, <2>4
    <3> QED BY <1>5, <1>6, <2>4, <3>1, <3>2
  <2>5. CASE piece # k
    <3>1. At(a, p + 1, Append(done, text[p + 1]), 0)
      BY <2>1, <2>2, <2>5, TokenCopied
    <3> QED BY <1>2, <1>5, <1>6, <2>3, <2>5, <3>1
  <2> QED BY <2>4, <2>5
<1>7. CASE Len(piece) = 2
  <2>1. StartsAt(text, k, p + 1) <=> piece = k
    <3>1. CASE Len(k) = 1
      <4>1. piece[1] # k[1]
        BY <1>7, <3>1 DEF FitsPiece
      <4> QED BY <1>2, <1>4, <1>7, <3>1, <4>1, StartsHere
    <3>2. CASE Len(k) = 2
      BY <1>2, <1>4, <1>7, <3>2, StartsHere
    <3> QED BY <1>1, <3>1, <3>2
  <2>2. p + 1 <= Len(text) /\ p + 1 \in Nat /\ (p + 1) + 1 <= Len(text) /\ (p + 1) + 1 = p + 2
    BY <1>1, <1>7
  <2>3. piece = <<piece[1], piece[2]>> /\ piece[1] \in Tokens /\ piece[2] \in Tokens
    BY <1>1, <1>7 DEF Sized
  <2>4. CASE piece = k
    <3>1. At(a, p + 1, Append(done, v), Len(k) - 1)
      BY <2>1, <2>2, <2>4, TokenReplaced
    <3>2. Len(k) - 1 = 1 /\ Append(done, v) \in Seq(Tokens)
      BY <1>7, <2>4
    <3>3. At(a, (p + 1) + 1, Append(done, v), 0)
      BY <2>2, <3>1, <3>2, TokenDropped
    <3> QED BY <1>5, <1>7, <2>2, <2>4, <3>3
  <2>5. CASE piece # k
    <3>1. At(a, p + 1, Append(done, piece[1]), 0)
      BY <1>2, <2>1, <2>2, <2>5, TokenCopied
    <3>2. ~StartsAt(text, k, (p + 1) + 1)
      <4>1. text[(p + 1) + 1] # k[1]
        BY <1>2, <1>7, <2>2 DEF FitsPiece
      <4> QED BY <2>2, <4>1, StartsHere
    <3>3. Append(done, piece[1]) \in Seq(Tokens)
      BY <2>3
    <3>4. At(a, (p + 1) + 1, Append(Append(done, piece[1]), text[(p + 1) + 1]), 0)
      BY <2>2, <3>1, <3>2, <3>3, TokenCopied
    <3>5. Append(Append(done, piece[1]), piece[2]) = done \o <<piece[1], piece[2]>>
      BY <2>3, TwoAppended
    <3> QED BY <1>2, <1>7, <2>2, <2>3, <2>5, <3>4, <3>5
  <2> QED BY <2>4, <2>5
<1> QED
  BY <1>1, <1>6, <1>7

\* Replacing a key in a text is putting the value in place of every piece it is.
Put(s, k, v) == [i \in DOMAIN s |-> IF s[i] = k THEN <<v>> ELSE s[i]]
Fits(s, k) == \A i \in 1..Len(s) : FitsPiece(s[i], k)

LEMMA PutIs ==
  ASSUME NEW s \in Seq(Seq(Tokens)), NEW k, NEW v \in Tokens
  PROVE  /\ Put(s, k, v) \in Seq(Seq(Tokens)) /\ Len(Put(s, k, v)) = Len(s)
         /\ \A i \in 1..Len(s) : Put(s, k, v)[i] = IF s[i] = k THEN <<v>> ELSE s[i]
<1> DEFINE V == Seq(Tokens)
<1>1. <<v>> \in V
  OBVIOUS
<1> HIDE DEF V
<1>2. s \in Seq(V)
  BY DEF V
<1> DEFINE n == Len(s)
           w == Put(s, k, v)
<1>3. n \in Nat /\ DOMAIN s = 1..n /\ \A i \in 1..n : s[i] \in V
  BY <1>2
<1> HIDE DEF n
<1>4. w = [i \in 1..n |-> IF s[i] = k THEN <<v>> ELSE s[i]]
  BY <1>3 DEF Put
<1> HIDE DEF w
<1>5. \A i \in 1..n : w[i] = (IF s[i] = k THEN <<v>> ELSE s[i]) /\ w[i] \in V
  BY <1>1, <1>3, <1>4
<1>6. w \in [1..n -> V]
  BY <1>4, <1>5
<1>7. w \in Seq(V) /\ Len(w) = n
  BY <1>3, <1>6
<1> QED
  BY <1>5, <1>7 DEF V, w, n

LEMMA ReplaceIs ==
  ASSUME NEW s \in Seq(Seq(Tokens)), NEW k, Sized(k), NEW v \in Tokens, Fits(s, k)
  PROVE  Replace(FlattenSeq(s), k, v) = FlattenSeq(Put(s, k, v))
<1> DEFINE n == Len(s)
           w == Put(s, k, v)
           V == Seq(Tokens)
<1>1. n \in Nat /\ w \in Seq(Seq(Tokens)) /\ Len(w) = n
  <2>1. n \in Nat
    OBVIOUS
  <2>2. w \in Seq(Seq(Tokens)) /\ Len(w) = Len(s)
    BY PutIs, Zenon
  <2> QED BY <2>1, <2>2
<1>2. PICK f \in [0..Len(s) -> Seq(Tokens)] : IsJoined(f, s) /\ FlattenSeq(s) = f[Len(s)]
  BY FlattenIs
<1> HIDE DEF w
<1>3. PICK g \in [0..Len(w) -> Seq(Tokens)] : IsJoined(g, w) /\ FlattenSeq(w) = g[Len(w)]
  BY <1>1, FlattenIs
<1> DEFINE text == f[Len(s)]
<1>4. text \in Seq(Tokens) /\ k \in Seq(Tokens) /\ k # <<>>
  <2>1. Len(s) \in 0..Len(s)
    BY <1>1
  <2>2. text \in Seq(Tokens)
    BY <1>2, <2>1
  <2> HIDE DEF text
  <2>3. k \in Seq(Tokens) /\ Len(k) # 0
    <3>1. k \in Seq(Tokens) /\ (Len(k) = 1 \/ Len(k) = 2)
      BY DEF Sized
    <3>2. \A m : m = 1 \/ m = 2 => m # 0
      OBVIOUS
    <3> QED BY <3>1, <3>2
  <2> QED BY <2>2, <2>3
<1>5. PICK a \in [0..Len(text) -> Scanned] : IsScan(a, text, k, v) /\ Replace(text, k, v) = a[Len(text)].done
  <2> HIDE DEF text
  <2> QED BY <1>4, ReplaceLoop DEF IsScan
<1>6. ASSUME NEW i \in 1..n
      PROVE  /\ Len(f[i - 1]) \in Nat /\ Len(f[i]) = Len(f[i - 1]) + Len(s[i]) /\ Len(f[i]) <= Len(text)
             /\ \A q \in 1..Len(s[i]) : text[Len(f[i - 1]) + q] = s[i][q]
  <2>1. text = f[Len(s)] /\ i \in 1..Len(s)
    OBVIOUS
  <2> HIDE DEF text, n
  <2>2. Lies(text, f[i - 1], s[i], f[i])
    BY <1>2, <2>1, PieceAt
  <2> QED BY <2>2 DEF Lies
<1>7. \A i \in 1..n : FitsPiece(s[i], k) /\ g[i] = g[i - 1] \o (IF s[i] = k THEN <<v>> ELSE s[i])
  <2> SUFFICES ASSUME NEW i \in 1..n
               PROVE  FitsPiece(s[i], k) /\ g[i] = g[i - 1] \o (IF s[i] = k THEN <<v>> ELSE s[i])
    OBVIOUS
  <2>1. w[i] = IF s[i] = k THEN <<v>> ELSE s[i]
    BY PutIs DEF w
  <2>2. g[i] = g[i - 1] \o w[i]
    BY <1>1, <1>3 DEF IsJoined
  <2> QED BY <2>1, <2>2 DEF Fits
<1> DEFINE T == {i \in 0..n : At(a, Len(f[i]), g[i], 0)}
<1>8. 0 \in T
  <2>1. f[0] = <<>> /\ g[0] = <<>> /\ 0 \in 0..n
    BY <1>1, <1>2, <1>3 DEF IsJoined
  <2>2. At(a, 0, <<>>, 0)
    BY <1>5 DEF At, IsScan
  <2> QED BY <2>1, <2>2
<1>9. ASSUME NEW h \in 0..(n - 1), h \in T PROVE h + 1 \in T
  <2> DEFINE i == h + 1
             piece == s[i]
             p == Len(f[h])
             done == g[h]
  <2>1. i \in 1..n /\ i - 1 = h /\ i \in 0..n /\ h \in 0..n
    BY <1>1
  <2>2. /\ p \in Nat /\ Len(f[i]) = p + Len(piece) /\ Len(f[i]) <= Len(text)
        /\ \A q \in 1..Len(piece) : text[p + q] = piece[q]
    BY <1>6, <2>1
  <2>3. FitsPiece(piece, k) /\ g[i] = done \o (IF piece = k THEN <<v>> ELSE piece) /\ done \in Seq(Tokens)
    <3>1. done \in Seq(Tokens)
      BY <1>1, <1>3, <2>1
    <3> QED BY <1>7, <2>1, <3>1
  <2>4. Len(k) = 2 /\ p + Len(piece) < Len(text) => text[p + Len(piece) + 1] # k[2]
    <3> SUFFICES ASSUME Len(k) = 2, Len(f[i]) < Len(text) PROVE text[Len(f[i]) + 1] # k[2]
      BY <2>2
    <3> HIDE DEF piece, p, done
    <3>1. i # n
      BY <2>1
    <3>2. i + 1 \in 1..n /\ (i + 1) - 1 = i
      BY <1>1, <2>1, <3>1
    <3>3. \A q \in 1..Len(s[i + 1]) : text[Len(f[i]) + q] = s[i + 1][q]
      BY <1>6, <3>2
    <3>4. Sized(s[i + 1]) /\ s[i + 1][1] # k[2]
      BY <1>7, <3>2 DEF FitsPiece
    <3>5. 1 \in 1..Len(s[i + 1])
      <4>1. Len(s[i + 1]) = 1 \/ Len(s[i + 1]) = 2
        BY <3>4 DEF Sized
      <4>2. \A m : m = 1 \/ m = 2 => 1 \in 1..m
        OBVIOUS
      <4> QED BY <4>1, <4>2
    <3> QED BY <3>3, <3>4, <3>5
  <2>5. At(a, p, done, 0)
    BY <1>9
  <2> HIDE DEF piece, p, done, i, text, T
  <2>6. At(a, p + Len(piece), done \o (IF piece = k THEN <<v>> ELSE piece), 0)
    BY <1>4, <1>5, <2>2, <2>3, <2>4, <2>5, PieceRead
  <2>7. At(a, Len(f[i]), g[i], 0)
    BY <2>2, <2>3, <2>6
  <2> QED BY <2>1, <2>7 DEF T, i
<1>10. \A i \in 0..n : i \in T
  <2> HIDE DEF T
  <2> QED BY <1>1, <1>8, <1>9, LoopInduction
<1>11. At(a, Len(f[n]), g[n], 0)
  BY <1>1, <1>10
<1>12. a[Len(text)].done = g[n]
  BY <1>11 DEF At
<1> QED
  BY <1>1, <1>2, <1>3, <1>5, <1>12 DEF w

\* The keys of the paper are found nowhere but where they stand, if the longer ones
\* are replaced first.
Key(j) == repl[j].key
Value(j) == repl[j].value
LEMMA KeysAre ==
  /\ Len(repl) = 5 /\ DOMAIN repl = 1..5 /\ Range(repl) = {repl[1], repl[2], repl[3], repl[4], repl[5]}
  /\ Key(1) = <<"NRUNS">> /\ Key(2) = <<"LO300", "MS">> /\ Key(3) = <<"HI300", "MS">>
  /\ Key(4) = <<"LO300">> /\ Key(5) = <<"HI300">>
  /\ Value(1) = "runs" /\ Value(2) = "lo ms" /\ Value(3) = "hi ms" /\ Value(4) = "lo" /\ Value(5) = "hi"
<1>1. Len(repl) = 5 /\ DOMAIN repl = 1..5
  BY DEF repl
<1>2. Range(repl) = {repl[j] : j \in 1..5}
  BY <1>1 DEF Range
<1>3. 1..5 = {1, 2, 3, 4, 5}
  OBVIOUS
<1>4. Range(repl) = {repl[1], repl[2], repl[3], repl[4], repl[5]}
  BY <1>2, <1>3
<1> QED
  BY <1>1, <1>4 DEF repl, Key, Value

LEMMA KeyParts ==
  /\ Len(Key(1)) = 1 /\ Key(1)[1] = "NRUNS"
  /\ Len(Key(2)) = 2 /\ Key(2)[1] = "LO300" /\ Key(2)[2] = "MS"
  /\ Len(Key(3)) = 2 /\ Key(3)[1] = "HI300" /\ Key(3)[2] = "MS"
  /\ Len(Key(4)) = 1 /\ Key(4)[1] = "LO300"
  /\ Len(Key(5)) = 1 /\ Key(5)[1] = "HI300"
<1>1. \A k : k = <<"NRUNS">> => Len(k) = 1 /\ k[1] = "NRUNS"
  OBVIOUS
<1>2. \A k : k = <<"LO300", "MS">> => Len(k) = 2 /\ k[1] = "LO300" /\ k[2] = "MS"
  OBVIOUS
<1>3. \A k : k = <<"HI300", "MS">> => Len(k) = 2 /\ k[1] = "HI300" /\ k[2] = "MS"
  OBVIOUS
<1>4. \A k : k = <<"LO300">> => Len(k) = 1 /\ k[1] = "LO300"
  OBVIOUS
<1>5. \A k : k = <<"HI300">> => Len(k) = 1 /\ k[1] = "HI300"
  OBVIOUS
<1> QED
  BY <1>1, <1>2, <1>3, <1>4, <1>5, KeysAre

\* A piece that holds no token of a key.
Plain(piece) == piece \in Seq(Tokens) /\ Len(piece) = 1 /\ piece[1] \notin KeyTokens

LEMMA PlainFits ==
  ASSUME NEW piece, Plain(piece), NEW j \in 1..5
  PROVE  FitsPiece(piece, Key(j)) /\ piece # Key(j)
<1>1. Sized(piece) /\ Len(piece) = 1 /\ piece[1] \notin KeyTokens
  BY DEF Plain, Sized
<1>2. j = 1 \/ j = 2 \/ j = 3 \/ j = 4 \/ j = 5
  OBVIOUS
<1>3. /\ Key(j)[1] \in KeyTokens
      /\ Len(Key(j)) = 2 => Key(j)[2] \in KeyTokens
  BY <1>2, KeyParts DEF KeyTokens
<1> QED
  BY <1>1, <1>3 DEF FitsPiece

LEMMA KeysFit ==
  ASSUME NEW j \in 1..5, NEW h \in j..5
  PROVE  FitsPiece(Key(h), Key(j)) /\ Sized(Key(j)) /\ Value(j) \in Tokens
<1>1. "NRUNS" \in Tokens /\ "LO300" \in Tokens /\ "HI300" \in Tokens /\ "MS" \in Tokens
  BY DEF Tokens, KeyTokens
<1>2. Sized(<<"NRUNS">>) /\ Sized(<<"LO300", "MS">>) /\ Sized(<<"HI300", "MS">>) /\ Sized(<<"LO300">>) /\ Sized(<<"HI300">>)
  BY <1>1 DEF Sized
<1>3. j = 1 \/ j = 2 \/ j = 3 \/ j = 4 \/ j = 5
  OBVIOUS
<1>4. h = 1 \/ h = 2 \/ h = 3 \/ h = 4 \/ h = 5
  OBVIOUS
<1>5. Sized(Key(j)) /\ Sized(Key(h))
  BY <1>2, <1>3, <1>4, KeysAre
<1>6. Value(j) \in Tokens
  <2>1. Value(j) = "runs" \/ Value(j) = "lo ms" \/ Value(j) = "hi ms" \/ Value(j) = "lo" \/ Value(j) = "hi"
    BY <1>3, KeysAre
  <2> QED BY <2>1 DEF Tokens
<1>7. /\ Key(j)[1] # "MS" /\ (Len(Key(j)) = 2 => Key(j)[2] = "MS")
      /\ Key(h)[1] # "MS" /\ (Len(Key(h)) = 2 => Key(h)[2] = "MS")
  BY <1>3, <1>4, KeyParts
<1>8. ASSUME Len(Key(j)) = 1, Key(h)[1] = Key(j)[1] PROVE h = j
  <2>1. j = 1 \/ j = 4 \/ j = 5
    BY <1>3, <1>8, KeyParts
  <2>2. CASE j = 1
    BY <1>4, <1>8, <2>2, KeyParts
  <2>3. CASE j = 4
    <3>1. h = 4 \/ h = 5
      BY <2>3
    <3> QED BY <1>8, <2>3, <3>1, KeyParts
  <2>4. CASE j = 5
    BY <2>4
  <2> QED BY <2>1, <2>2, <2>3, <2>4
<1>9. FitsPiece(Key(h), Key(j))
  BY <1>5, <1>7, <1>8 DEF FitsPiece
<1> QED
  BY <1>5, <1>6, <1>9

LEMMA ValuesPlain ==
  ASSUME NEW j \in 1..5
  PROVE  Plain(<<Value(j)>>)
<1>1. j = 1 \/ j = 2 \/ j = 3 \/ j = 4 \/ j = 5
  OBVIOUS
<1>2. Value(j) = "runs" \/ Value(j) = "lo ms" \/ Value(j) = "hi ms" \/ Value(j) = "lo" \/ Value(j) = "hi"
  BY <1>1, KeysAre
<1>3. Value(j) \in Tokens /\ Value(j) \notin KeyTokens
  BY <1>2 DEF Tokens, KeyTokens
<1> QED
  BY <1>3 DEF Plain

LEMMA KeysDiffer ==
  ASSUME NEW j \in 1..5, NEW h \in 1..5, j # h
  PROVE  Key(j) # Key(h)
<1>1. j = 1 \/ j = 2 \/ j = 3 \/ j = 4 \/ j = 5
  OBVIOUS
<1>2. h = 1 \/ h = 2 \/ h = 3 \/ h = 4 \/ h = 5
  OBVIOUS
<1> QED
  BY <1>1, <1>2, KeyParts

\* The pieces of the text before the j-th replacement: none holds a token of a key but
\* the keys still to be replaced.
Left(s, j) ==
  /\ s \in Seq(Seq(Tokens))
  /\ \A i \in 1..Len(s) : Plain(s[i]) \/ \E h \in j..5 : s[i] = Key(h)

LEMMA OneReplaced ==
  ASSUME NEW s, NEW j \in 1..5, Left(s, j)
  PROVE  /\ Left(Put(s, Key(j), Value(j)), j + 1)
         /\ Replace(FlattenSeq(s), Key(j), Value(j)) = FlattenSeq(Put(s, Key(j), Value(j)))
<1> DEFINE w == Put(s, Key(j), Value(j))
<1>1. s \in Seq(Seq(Tokens)) /\ Sized(Key(j)) /\ Value(j) \in Tokens
  <2>1. j \in j..5
    OBVIOUS
  <2> QED BY <2>1, KeysFit DEF Left
<1>2. ASSUME NEW i \in 1..Len(s) PROVE FitsPiece(s[i], Key(j))
  <2>1. Plain(s[i]) \/ \E h \in j..5 : s[i] = Key(h)
    BY DEF Left
  <2>2. CASE Plain(s[i])
    BY <2>2, PlainFits
  <2>3. ASSUME NEW h \in j..5, s[i] = Key(h) PROVE FitsPiece(s[i], Key(j))
    BY <2>3, KeysFit
  <2> QED BY <2>1, <2>2, <2>3
<1>3. Fits(s, Key(j))
  BY <1>2 DEF Fits
<1>4. Replace(FlattenSeq(s), Key(j), Value(j)) = FlattenSeq(w)
  BY <1>1, <1>3, ReplaceIs
<1>5. /\ w \in Seq(Seq(Tokens)) /\ Len(w) = Len(s)
      /\ \A i \in 1..Len(s) : w[i] = IF s[i] = Key(j) THEN <<Value(j)>> ELSE s[i]
  BY <1>1, PutIs
<1> HIDE DEF w
<1>6. ASSUME NEW i \in 1..Len(w) PROVE Plain(w[i]) \/ \E h \in (j + 1)..5 : w[i] = Key(h)
  <2>1. i \in 1..Len(s)
    BY <1>5
  <2>2. w[i] = IF s[i] = Key(j) THEN <<Value(j)>> ELSE s[i]
    BY <1>5, <2>1
  <2>3. Plain(s[i]) \/ \E h \in j..5 : s[i] = Key(h)
    BY <2>1 DEF Left
  <2>4. CASE s[i] = Key(j)
    BY <2>2, <2>4, ValuesPlain
  <2>5. CASE s[i] # Key(j) /\ Plain(s[i])
    BY <2>2, <2>5
  <2>6. ASSUME NEW h \in j..5, s[i] # Key(j), s[i] = Key(h) PROVE \E m \in (j + 1)..5 : w[i] = Key(m)
    <3>1. h # j
      BY <2>6
    <3>2. h \in (j + 1)..5
      BY <3>1
    <3>3. w[i] = Key(h)
      BY <2>2, <2>6
    <3> QED BY <3>2, <3>3
  <2> QED BY <2>3, <2>4, <2>5, <2>6
<1>7. Left(w, j + 1)
  BY <1>5, <1>6 DEF Left
<1> QED
  BY <1>4, <1>7 DEF w

LEMMA ReplaceType ==
  ASSUME NEW text \in Seq(Tokens), NEW j \in 1..5
  PROVE  Replace(text, Key(j), Value(j)) \in Seq(Tokens)
<1>1. Sized(Key(j)) /\ Value(j) \in Tokens
  <2>1. j \in j..5
    OBVIOUS
  <2> QED BY <2>1, KeysFit
<1> DEFINE k == Key(j)
           v == Value(j)
<1>2. k \in Seq(Tokens) /\ k # <<>> /\ v \in Tokens
  <2>1. k \in Seq(Tokens) /\ (Len(k) = 1 \/ Len(k) = 2) /\ v \in Tokens
    BY <1>1 DEF Sized
  <2>2. \A m : m = 1 \/ m = 2 => m # 0
    OBVIOUS
  <2> HIDE DEF k, v
  <2>3. Len(k) # 0
    BY <2>1, <2>2
  <2> QED BY <2>1, <2>3
<1> HIDE DEF k, v
<1>3. PICK a \in [0..Len(text) -> Scanned] : Replace(text, k, v) = a[Len(text)].done
  BY <1>2, ReplaceLoop
<1>4. Len(text) \in 0..Len(text)
  OBVIOUS
<1>5. a[Len(text)] \in Scanned
  BY <1>4
<1> QED
  BY <1>3, <1>5 DEF Scanned, k, v

\* The replacements are made one after the other.
LEMMA FillIs ==
  ASSUME NEW text \in Seq(Tokens)
  PROVE  \E f \in [0..5 -> Seq(Tokens)] :
           /\ f[0] = text /\ Fill(text) = f[5]
           /\ \A j \in 1..5 : f[j] = Replace(f[j - 1], Key(j), Value(j))
<1> DEFINE V == Seq(Tokens)
           step == [p \in (1..5) \X V |-> Replace(p[2], Key(p[1]), Value(p[1]))]
           Is(f) == f = [i \in 0..5 |-> IF i = 0 THEN text ELSE Replace(f[i - 1], Key(i), Value(i))]
           n == 5
<1>1. Fill(text) = (CHOOSE f : Is(f))[5]
  BY KeysAre DEF Fill, Key, Value
<1>2. text \in V /\ \A i \in 1..5 : \A d \in V : Replace(d, Key(i), Value(i)) \in V
  BY ReplaceType
<1>3. n \in Nat /\ n = 5
  OBVIOUS
<1> HIDE DEF V, n
<1>4. step \in Steps(n, V)
  BY <1>2, <1>3 DEF Steps
<1>5. \A i \in 1..n : \A d \in V : step[<<i, d>>] = Replace(d, Key(i), Value(i))
  BY <1>3
<1> HIDE DEF step
<1>6. PICK f \in [0..n -> V] : IsLoop(f, n, text, step)
  BY <1>2, <1>3, <1>4, LoopExists
<1>7. ASSUME NEW i \in 0..n PROVE f[i] = IF i = 0 THEN text ELSE Replace(f[i - 1], Key(i), Value(i))
  <2>1. CASE i = 0
    BY <1>6, <2>1 DEF IsLoop
  <2>2. CASE i # 0
    <3>1. i \in 1..n /\ i - 1 \in 0..n
      BY <1>3, <2>2
    <3>2. f[i] = step[<<i, f[i - 1]>>] /\ f[i - 1] \in V
      BY <1>6, <3>1 DEF IsLoop
    <3> QED BY <1>5, <2>2, <3>1, <3>2
  <2> QED BY <2>1, <2>2
<1>8. Is(f)
  BY <1>3, <1>6, <1>7
<1> DEFINE g == CHOOSE h : Is(h)
<1>9. Is(g)
  <2> HIDE DEF Is
  <2> QED BY <1>8
<1>10. Fill(text) = g[n]
  BY <1>1, <1>3
<1> HIDE DEF g
<1>11. \A i \in 0..n : g[i] = IF i = 0 THEN text ELSE Replace(g[i - 1], Key(i), Value(i))
  BY <1>3, <1>9
<1> DEFINE T == {i \in 0..n : g[i] \in V}
<1>12. 0 \in T
  <2>1. 0 \in 0..n
    BY <1>3
  <2>2. g[0] = text
    BY <1>11, <2>1
  <2> QED BY <1>2, <2>1, <2>2
<1>13. ASSUME NEW i \in 0..(n - 1), i \in T PROVE i + 1 \in T
  <2>1. i + 1 \in 1..5 /\ (i + 1) - 1 = i /\ i + 1 \in 0..n /\ i + 1 # 0
    BY <1>3
  <2>2. g[i + 1] = Replace(g[i], Key(i + 1), Value(i + 1))
    BY <1>11, <2>1
  <2> QED BY <1>2, <1>13, <2>1, <2>2
<1>14. \A i \in 0..n : i \in T
  <2> HIDE DEF T
  <2> QED BY <1>3, <1>12, <1>13, LoopInduction
<1>15. g \in [0..n -> V]
  BY <1>3, <1>9, <1>14
<1>16. g[0] = text /\ \A i \in 1..n : g[i] = Replace(g[i - 1], Key(i), Value(i))
  <2>1. 0 \in 0..n /\ \A i \in 1..n : i \in 0..n /\ i # 0
    BY <1>3
  <2> HIDE DEF Is
  <2> QED BY <1>11, <2>1
<1> QED
  BY <1>10, <1>15, <1>16 DEF V, n

LEMMA FlattenOnes ==
  ASSUME NEW S, NEW s \in Seq(Seq(S)), \A i \in 1..Len(s) : Len(s[i]) = 1
  PROVE  FlattenSeq(s) = [i \in 1..Len(s) |-> s[i][1]]
<1> DEFINE n == Len(s)
<1>1. n \in Nat /\ n \in 0..n
  OBVIOUS
<1>2. PICK f \in [0..Len(s) -> Seq(S)] : IsJoined(f, s) /\ FlattenSeq(s) = f[Len(s)]
  BY FlattenIs
<1> DEFINE text == f[Len(s)]
           T == {i \in 0..n : Len(f[i]) = i}
<1>3. text \in Seq(S)
  BY <1>1
<1>4. ASSUME NEW i \in 1..n PROVE Lies(text, f[i - 1], s[i], f[i])
  <2>1. text = f[Len(s)] /\ i \in 1..Len(s)
    OBVIOUS
  <2> HIDE DEF text, n
  <2> QED BY <1>2, <2>1, PieceAt
<1>5. 0 \in T
  BY <1>1, <1>2 DEF IsJoined
<1>6. ASSUME NEW h \in 0..(n - 1), h \in T PROVE h + 1 \in T
  <2>1. h + 1 \in 1..n /\ (h + 1) - 1 = h /\ h + 1 \in 0..n
    BY <1>1
  <2>2. Len(f[h + 1]) = Len(f[h]) + Len(s[h + 1])
    BY <1>4, <2>1 DEF Lies
  <2>3. Len(f[h]) = h /\ Len(s[h + 1]) = 1
    BY <1>6, <2>1
  <2> QED BY <2>1, <2>2, <2>3
<1>7. \A i \in 0..n : i \in T
  <2> HIDE DEF T
  <2> QED BY <1>1, <1>5, <1>6, LoopInduction
<1>8. Len(text) = n
  BY <1>1, <1>7
<1>9. ASSUME NEW i \in 1..n PROVE text[i] = s[i][1]
  <2>1. i - 1 \in 0..n /\ (i - 1) + 1 = i
    BY <1>1
  <2>2. Len(f[i - 1]) = i - 1
    BY <1>7, <2>1
  <2>3. \A q \in 1..Len(s[i]) : text[Len(f[i - 1]) + q] = s[i][q]
    BY <1>4 DEF Lies
  <2>4. 1 \in 1..Len(s[i])
    <3>1. Len(s[i]) = 1
      OBVIOUS
    <3>2. 1 \in 1..1
      OBVIOUS
    <3> QED BY <3>1, <3>2
  <2>5. text[(i - 1) + 1] = s[i][1]
    BY <2>2, <2>3, <2>4
  <2> QED BY <2>1, <2>5
<1> HIDE DEF text
<1>10. text = [i \in 1..n |-> text[i]]
  BY <1>3, <1>8
<1> QED
  BY <1>2, <1>9, <1>10 DEF text

\* What a piece is replaced by.
Filled(piece) ==
  IF \E r \in Range(repl) : r.key = piece THEN (CHOOSE r \in Range(repl) : r.key = piece).value ELSE piece[1]

LEMMA FilledIs ==
  ASSUME NEW piece
  PROVE  /\ \A j \in 1..5 : piece = Key(j) => Filled(piece) = Value(j)
         /\ (\A j \in 1..5 : piece # Key(j)) => Filled(piece) = piece[1]
<1>1. Range(repl) = {repl[j] : j \in 1..5}
  BY KeysAre DEF Range
<1>2. ASSUME NEW j \in 1..5, piece = Key(j) PROVE Filled(piece) = Value(j)
  <2> DEFINE Is(r) == r \in Range(repl) /\ r.key = piece
             r0 == CHOOSE r \in Range(repl) : r.key = piece
  <2>1. repl[j] \in Range(repl) /\ repl[j].key = piece
    BY <1>1, <1>2 DEF Key
  <2>2. r0 \in Range(repl) /\ r0.key = piece
    BY <2>1
  <2> HIDE DEF r0
  <2>3. PICK h \in 1..5 : r0 = repl[h]
    BY <1>1, <2>2
  <2>4. Key(h) = Key(j)
    BY <1>2, <2>2, <2>3 DEF Key
  <2>5. h = j
    BY <2>4, KeysDiffer
  <2>6. r0.value = Value(j)
    BY <2>3, <2>5 DEF Value
  <2> QED BY <2>1, <2>6 DEF Filled, r0
<1>3. ASSUME \A j \in 1..5 : piece # Key(j) PROVE Filled(piece) = piece[1]
  <2>1. ~\E r \in Range(repl) : r.key = piece
    BY <1>1, <1>3 DEF Key
  <2> QED BY <2>1 DEF Filled
<1> QED
  BY <1>2, <1>3

\* Five replacements of a piece.
One(p, j) == IF p = Key(j) THEN <<Value(j)>> ELSE p
LEMMA FiveReplaced ==
  ASSUME NEW piece, Plain(piece) \/ \E h \in 1..5 : piece = Key(h),
         NEW last, last = One(One(One(One(One(piece, 1), 2), 3), 4), 5)
  PROVE  last[1] = Filled(piece)
<1>1. ASSUME Plain(piece) PROVE last[1] = Filled(piece)
  <2>1. \A j \in 1..5 : piece # Key(j)
    BY <1>1, PlainFits
  <2>2. \A j \in 1..5 : One(piece, j) = piece
    BY <2>1 DEF One
  <2>3. last = piece
    BY <2>2
  <2> QED BY <2>1, <2>3, FilledIs
<1>2. ASSUME NEW h \in 1..5, piece = Key(h) PROVE last[1] = Filled(piece)
  <2> DEFINE v == <<Value(h)>>
  <2>1. v[1] = Filled(piece)
    BY <1>2, FilledIs
  <2>2. \A j \in 1..5 : v # Key(j)
    BY ValuesPlain, PlainFits
  <2> HIDE DEF v
  <2>3. \A j \in 1..5 : One(v, j) = v
    BY <2>2 DEF One
  <2>4. One(piece, h) = v
    BY <1>2 DEF One, v
  <2>5. \A j \in 1..5 : j # h => One(piece, j) = piece
    BY <1>2, KeysDiffer DEF One
  <2>6. h = 1 \/ h = 2 \/ h = 3 \/ h = 4 \/ h = 5
    OBVIOUS
  <2>7. last = v
    BY <2>3, <2>4, <2>5, <2>6
  <2> QED BY <2>1, <2>7
<1> QED
  BY <1>1, <1>2

LEMMA PaperFilled ==
  ASSUME NEW pieces, PaperText(pieces)
  PROVE  Fill(FlattenSeq(pieces)) = [i \in DOMAIN pieces |-> Filled(pieces[i])]
<1> DEFINE n == Len(pieces)
           P(s, j) == Put(s, Key(j), Value(j))
           s1 == P(pieces, 1)
           s2 == P(s1, 2)
           s3 == P(s2, 3)
           s4 == P(s3, 4)
           s5 == P(s4, 5)
<1>1. Left(pieces, 1)
  <2>1. pieces \in Seq(Seq(STRING)) /\ DOMAIN pieces = 1..Len(pieces)
    BY DEF PaperText
  <2>2. STRING \subseteq Tokens
    BY DEF Tokens
  <2>3. pieces \in Seq(Seq(Tokens))
    <3>1. Seq(STRING) \subseteq Seq(Tokens)
      BY <2>2, SeqMonotonic
    <3> DEFINE A == Seq(STRING)
               B == Seq(Tokens)
    <3>2. A \subseteq B /\ pieces \in Seq(A)
      BY <2>1, <3>1
    <3> HIDE DEF A, B
    <3>3. pieces \in Seq(B)
      BY <3>2, SeqMonotonic
    <3> QED BY <3>3 DEF B
  <2>4. ASSUME NEW i \in 1..Len(pieces) PROVE Plain(pieces[i]) \/ \E h \in 1..5 : pieces[i] = Key(h)
    <3>1. CASE \E r \in Range(repl) : pieces[i] = r.key
      <4>1. PICK r \in Range(repl) : pieces[i] = r.key
        BY <3>1
      <4>2. \E h \in 1..5 : r = repl[h]
        BY KeysAre DEF Range
      <4> QED BY <4>1, <4>2 DEF Key
    <3>2. CASE Len(pieces[i]) = 1 /\ \A r \in Range(repl) : pieces[i][1] \notin Range(r.key)
      <4>1. \A j \in 1..5 : pieces[i][1] \notin Range(Key(j))
        BY <3>2, KeysAre DEF Range, Key
      <4>2. KeyTokens \subseteq Range(Key(1)) \cup Range(Key(2)) \cup Range(Key(3))
        <5>1. 1 \in DOMAIN Key(1) /\ 1 \in DOMAIN Key(2) /\ 2 \in DOMAIN Key(2) /\ 1 \in DOMAIN Key(3)
          <6>1. \A x : 1 \in DOMAIN <<x>>
            OBVIOUS
          <6>2. \A x, y : 1 \in DOMAIN <<x, y>> /\ 2 \in DOMAIN <<x, y>>
            OBVIOUS
          <6> QED BY <6>1, <6>2, KeysAre
        <5>2. Key(1)[1] \in Range(Key(1)) /\ Key(2)[1] \in Range(Key(2)) /\ Key(2)[2] \in Range(Key(2))
              /\ Key(3)[1] \in Range(Key(3))
          BY <5>1 DEF Range
        <5> QED BY <5>2, KeyParts DEF KeyTokens
      <4> QED BY <2>3, <3>2, <4>1, <4>2 DEF Plain
    <3> QED BY <2>1, <3>1, <3>2 DEF PaperText
  <2> QED BY <2>3, <2>4 DEF Left
<1> HIDE DEF s1, s2, s3, s4, s5
<1>2. Left(s1, 2) /\ Replace(FlattenSeq(pieces), Key(1), Value(1)) = FlattenSeq(s1)
  BY <1>1, OneReplaced DEF s1
<1>3. Left(s2, 3) /\ Replace(FlattenSeq(s1), Key(2), Value(2)) = FlattenSeq(s2)
  BY <1>2, OneReplaced DEF s2
<1>4. Left(s3, 4) /\ Replace(FlattenSeq(s2), Key(3), Value(3)) = FlattenSeq(s3)
  BY <1>3, OneReplaced DEF s3
<1>5. Left(s4, 5) /\ Replace(FlattenSeq(s3), Key(4), Value(4)) = FlattenSeq(s4)
  BY <1>4, OneReplaced DEF s4
<1>6. Left(s5, 6) /\ Replace(FlattenSeq(s4), Key(5), Value(5)) = FlattenSeq(s5)
  BY <1>5, OneReplaced DEF s5
<1>7. Fill(FlattenSeq(pieces)) = FlattenSeq(s5)
  <2>1. FlattenSeq(pieces) \in Seq(Tokens)
    <3>1. pieces \in Seq(Seq(Tokens))
      BY <1>1 DEF Left
    <3>2. PICK f \in [0..Len(pieces) -> Seq(Tokens)] : FlattenSeq(pieces) = f[Len(pieces)]
      BY <3>1, FlattenIs
    <3>3. Len(pieces) \in 0..Len(pieces)
      BY <3>1
    <3> QED BY <3>2, <3>3
  <2>2. PICK f \in [0..5 -> Seq(Tokens)] :
          /\ f[0] = FlattenSeq(pieces) /\ Fill(FlattenSeq(pieces)) = f[5]
          /\ \A j \in 1..5 : f[j] = Replace(f[j - 1], Key(j), Value(j))
    BY <2>1, FillIs
  <2>3. /\ f[1] = Replace(f[0], Key(1), Value(1)) /\ f[2] = Replace(f[1], Key(2), Value(2))
        /\ f[3] = Replace(f[2], Key(3), Value(3)) /\ f[4] = Replace(f[3], Key(4), Value(4))
        /\ f[5] = Replace(f[4], Key(5), Value(5))
    <3>1. 1 - 1 = 0 /\ 2 - 1 = 1 /\ 3 - 1 = 2 /\ 4 - 1 = 3 /\ 5 - 1 = 4
      OBVIOUS
    <3>2. 1 \in 1..5 /\ 2 \in 1..5 /\ 3 \in 1..5 /\ 4 \in 1..5 /\ 5 \in 1..5
      OBVIOUS
    <3>3. \A j \in 1..5 : f[j] = Replace(f[j - 1], Key(j), Value(j))
      BY <2>2
    <3> QED BY <3>1, <3>2, <3>3
  <2> QED BY <1>2, <1>3, <1>4, <1>5, <1>6, <2>2, <2>3
<1>8. /\ n \in Nat /\ DOMAIN pieces = 1..n /\ Len(s5) = n /\ s5 \in Seq(Seq(Tokens))
      /\ \A i \in 1..n : s5[i] = One(One(One(One(One(pieces[i], 1), 2), 3), 4), 5)
  <2>1. ASSUME NEW s, NEW j \in 1..5, Left(s, j), NEW w, w = P(s, j)
        PROVE  Len(w) = Len(s) /\ \A i \in 1..Len(s) : w[i] = One(s[i], j)
    <3>1. s \in Seq(Seq(Tokens)) /\ Value(j) \in Tokens
      <4>1. j \in j..5
        OBVIOUS
      <4> QED BY <2>1, <4>1, KeysFit DEF Left
    <3> QED BY <2>1, <3>1, PutIs DEF One
  <2>2. Len(s1) = n /\ \A i \in 1..n : s1[i] = One(pieces[i], 1)
    BY <1>1, <2>1 DEF s1
  <2>3. Len(s2) = n /\ \A i \in 1..n : s2[i] = One(s1[i], 2)
    BY <1>2, <2>1, <2>2 DEF s2
  <2>4. Len(s3) = n /\ \A i \in 1..n : s3[i] = One(s2[i], 3)
    BY <1>3, <2>1, <2>3 DEF s3
  <2>5. Len(s4) = n /\ \A i \in 1..n : s4[i] = One(s3[i], 4)
    BY <1>4, <2>1, <2>4 DEF s4
  <2>6. Len(s5) = n /\ \A i \in 1..n : s5[i] = One(s4[i], 5)
    BY <1>5, <2>1, <2>5 DEF s5
  <2>7. pieces \in Seq(Seq(Tokens)) /\ s5 \in Seq(Seq(Tokens))
    BY <1>1, <1>6 DEF Left
  <2>8. n \in Nat /\ DOMAIN pieces = 1..n
    BY <2>7
  <2> HIDE DEF n
  <2> QED BY <2>2, <2>3, <2>4, <2>5, <2>6, <2>7, <2>8
<1>9. \A i \in 1..n : s5[i][1] = Filled(pieces[i])
  <2> SUFFICES ASSUME NEW i \in 1..n PROVE s5[i][1] = Filled(pieces[i])
    OBVIOUS
  <2>1. Plain(pieces[i]) \/ \E h \in 1..5 : pieces[i] = Key(h)
    BY <1>1 DEF Left
  <2>2. s5[i] = One(One(One(One(One(pieces[i], 1), 2), 3), 4), 5)
    BY <1>8
  <2> QED BY <2>1, <2>2, FiveReplaced
<1>10. \A i \in 1..Len(s5) : Len(s5[i]) = 1
  <2> SUFFICES ASSUME NEW i \in 1..Len(s5) PROVE Len(s5[i]) = 1
    OBVIOUS
  <2>1. Plain(s5[i]) \/ \E h \in 6..5 : s5[i] = Key(h)
    BY <1>6 DEF Left
  <2>2. 6..5 = {}
    OBVIOUS
  <2> QED BY <2>1, <2>2 DEF Plain
<1>11. FlattenSeq(s5) = [i \in 1..n |-> s5[i][1]]
  BY <1>8, <1>10, FlattenOnes
<1> QED
  BY <1>7, <1>8, <1>9, <1>11

\* ------------------------------------------------------------------------
\* The tables

\* The order of sorted, equal keys as they were.
Stable(order, s, key) ==
  /\ Sorted(s, key) = [k \in 1..Len(s) |-> s[order[k]]]
  /\ \A i, j \in 1..Len(s) :
       i < j => /\ key[s[order[i]]] <= key[s[order[j]]]
                /\ key[s[order[i]]] = key[s[order[j]]] => order[i] < order[j]
LEMMA StablySorted ==
  ASSUME NEW S, NEW s \in Seq(S), NEW key, \A i \in 1..Len(s) : key[s[i]] \in Int
  PROVE  \E order \in Bijection(1..Len(s), 1..Len(s)) : Stable(order, s, key)
  BY SortedIs DEF Stable

\* The stack a text names as lowest is the table's first, also among equal ones, and
\* the one it names as highest is as high as the last.
LEMMA NamedAre ==
  ASSUME NEW f \in [Stacks -> Int]
  PROVE  /\ Lowest(f) = Sorted(SIDS, f)[1]
         /\ f[Highest(f)] = f[Sorted(SIDS, f)[Len(SIDS)]]
<1> DEFINE n == Len(SIDS)
           o == Sorted(SIDS, f)
           low == {i \in 1..n : \A s \in Stacks : f[SIDS[i]] <= f[s]}
           high == {i \in 1..n : \A s \in Stacks : f[SIDS[i]] >= f[s]}
<1>1. /\ SIDS \in Seq(Stacks) /\ n \in Nat /\ SIDS \in [1..n -> Stacks] /\ DOMAIN SIDS = 1..n
      /\ \A s \in Stacks : \E i \in 1..n : SIDS[i] = s
  BY SIDSAssumption DEF Range
<1>2. n \in 1..n
  <2>1. PICK s \in Stacks : TRUE
    BY PlanAssumption
  <2>2. PICK i \in 1..n : SIDS[i] = s
    BY <1>1
  <2> QED BY <1>1, <2>2
<1>3. PICK order \in Bijection(1..n, 1..n) :
           /\ o = [k \in 1..n |-> SIDS[order[k]]]
           /\ \A i, j \in 1..n :
                i < j => /\ f[SIDS[order[i]]] <= f[SIDS[order[j]]]
                         /\ f[SIDS[order[i]]] = f[SIDS[order[j]]] => order[i] < order[j]
  <2>1. \A i \in 1..Len(SIDS) : f[SIDS[i]] \in Int
    BY <1>1
  <2>2. \E order \in Bijection(1..Len(SIDS), 1..Len(SIDS)) : Stable(order, SIDS, f)
    BY <1>1, <2>1, StablySorted
  <2> QED BY <2>2 DEF Stable
<1>4. order \in [1..n -> 1..n] /\ \A k \in 1..n : \E i \in 1..n : order[i] = k
  BY DEF Bijection, Injection, Surjection
<1>5. Lowest(f) = SIDS[Min(low)] /\ Highest(f) = SIDS[Min(high)]
  BY <1>1 DEF Lowest, Highest
<1> DEFINE first == order[1]
           last == order[n]
<1>6. 1 \in 1..n /\ first \in 1..n /\ last \in 1..n /\ o[1] = SIDS[first] /\ o[n] = SIDS[last]
  <2>1. 1 \in 1..n
    BY <1>1, <1>2
  <2> QED BY <1>2, <1>3, <1>4, <2>1
<1> HIDE DEF n, o, first, last
<1>7. ASSUME NEW k \in 1..n
      PROVE  /\ f[SIDS[first]] <= f[SIDS[k]] /\ f[SIDS[k]] <= f[SIDS[last]]
             /\ f[SIDS[first]] = f[SIDS[k]] => first <= k
  <2>1. PICK i \in 1..n : order[i] = k
    BY <1>4
  <2>2. i = 1 \/ 1 < i
    BY <1>1
  <2>3. i = n \/ i < n
    BY <1>1
  <2>4. f[SIDS[k]] \in Int
    BY <1>1
  <2>5. f[SIDS[first]] <= f[SIDS[k]] /\ (f[SIDS[first]] = f[SIDS[k]] => first <= k)
    <3>1. CASE i = 1
      BY <1>6, <2>1, <2>4, <3>1 DEF first
    <3>2. CASE 1 < i
      <4>1. f[SIDS[first]] <= f[SIDS[k]] /\ (f[SIDS[first]] = f[SIDS[k]] => first < k)
        BY <1>3, <1>6, <2>1, <3>2 DEF first
      <4> QED BY <1>6, <4>1
    <3> QED BY <2>2, <3>1, <3>2
  <2>6. f[SIDS[k]] <= f[SIDS[last]]
    <3>1. CASE i = n
      BY <2>1, <2>4, <3>1 DEF last
    <3>2. CASE i < n
      BY <1>2, <1>3, <2>1, <3>2 DEF last
    <3> QED BY <2>3, <3>1, <3>2
  <2> QED BY <2>5, <2>6
<1>8. ASSUME NEW s \in Stacks PROVE f[SIDS[first]] <= f[s] /\ f[SIDS[last]] >= f[s]
  <2>1. PICK k \in 1..n : SIDS[k] = s
    BY <1>1
  <2>2. f[SIDS[first]] <= f[SIDS[k]] /\ f[SIDS[k]] <= f[SIDS[last]]
    BY <1>7
  <2>3. f[s] \in Int /\ f[SIDS[last]] \in Int
    BY <1>1, <1>6
  <2> QED BY <2>1, <2>2, <2>3
<1>9. first \in low /\ last \in high
  BY <1>6, <1>8
<1>10. ASSUME NEW i \in low PROVE first <= i
  <2>1. i \in 1..n /\ f[SIDS[i]] <= f[SIDS[first]]
    BY <1>1, <1>6
  <2>2. f[SIDS[first]] <= f[SIDS[i]] /\ (f[SIDS[first]] = f[SIDS[i]] => first <= i)
    BY <1>7, <2>1
  <2>3. f[SIDS[first]] \in Int /\ f[SIDS[i]] \in Int
    BY <1>1, <1>6, <2>1
  <2>4. f[SIDS[first]] = f[SIDS[i]]
    BY <2>1, <2>2, <2>3
  <2> QED BY <2>2, <2>4
<1>11. low \in SUBSET Int /\ high \in SUBSET Int /\ IsFiniteSet(high)
  <2>1. IsFiniteSet(1..n)
    BY <1>1, FS_Interval
  <2>2. high \subseteq 1..n
    OBVIOUS
  <2>3. IsFiniteSet(high)
    BY <2>1, <2>2, FS_Subset
  <2> QED BY <2>3
<1>12. Min(low) = first
  <2> DEFINE m == CHOOSE x \in low : \A y \in low : x <= y
  <2>1. m \in low /\ \A y \in low : m <= y
    BY <1>9, <1>10
  <2>2. Min(low) = m
    BY DEF Min
  <2> HIDE DEF m, low
  <2>3. m \in Int /\ first \in Int /\ m <= first /\ first <= m
    BY <1>9, <1>10, <1>11, <2>1
  <2>4. m = first
    BY <2>3
  <2> QED BY <2>2, <2>4
<1>13. Min(high) \in high
  <2> HIDE DEF high
  <2>1. \E m \in high : \A k \in high : m <= k
    BY <1>9, <1>11, LeastOfAll
  <2> QED BY <2>1 DEF Min
<1>14. f[SIDS[Min(high)]] = f[SIDS[last]]
  <2>1. Min(high) \in 1..n /\ f[SIDS[Min(high)]] >= f[SIDS[last]]
    BY <1>1, <1>6, <1>13
  <2> HIDE DEF high
  <2>2. f[SIDS[Min(high)]] <= f[SIDS[last]]
    BY <1>7, <2>1
  <2>3. f[SIDS[Min(high)]] \in Int /\ f[SIDS[last]] \in Int
    BY <1>1, <1>6, <2>1
  <2> QED BY <2>1, <2>2, <2>3
<1> QED
  BY <1>5, <1>6, <1>12, <1>14 DEF n, o

\* A ranking is a list of the places of SIDS.
LEMMA SortedOver ==
  ASSUME NEW key
  PROVE  Sorted(SIDS, key) = [i \in DOMAIN SIDS |-> Sorted(SIDS, key)[i]]
  BY DEF Sorted

\* What write_docs.py and write_paper.py list, and figures.py draws.
TablesOf(S) ==
  [rps |-> <<f_throughput(S), rank_table(S, "rps"), full_table(S), results_table(S)>>,
   p99 |-> rank_table(S, "p99"),
   ranks |-> [m \in {"p99", "cpu"} |-> <<f_cd(S, m), docs_ranks(S, m)>>],
   paper |-> RANKTABLE(S),
   contrasts |-> <<docs_contrasts(S), contrast_table(S)>>,
   named |-> <<Lowest(S.median["p99"]), Highest(S.median["p99"])>>]

LEMMA TablesAre ==
  ASSUME NEW S, Measured(S), NEW written, written = TablesOf(S)
  PROVE  /\ Cardinality(Range(written.rps)) = 1
         /\ \A m \in {"p99", "cpu"} :
              /\ written.ranks[m][1] = written.ranks[m][2]
              /\ written.ranks[m][1] = [i \in DOMAIN SIDS |-> written.paper[i][IF m = "p99" THEN 1 ELSE 2]]
         /\ written.contrasts[1] = written.contrasts[2]
         /\ written.named[1] = written.p99[1]
         /\ S.median["p99"][written.named[2]] = S.median["p99"][written.p99[Len(SIDS)]]
<1> DEFINE f == S.median["p99"]
           rps == f_throughput(S)
           r99 == Sorted(SIDS, S.avgRank["p99"])
           rcpu == Sorted(SIDS, S.avgRank["cpu"])
<1>1. Cardinality(Range(written.rps)) = 1
  <2>1. rank_table(S, "rps") = rps /\ full_table(S) = rps /\ results_table(S) = rps
    BY DEF rank_table, full_table, results_table, f_throughput
  <2>2. written.rps = <<rps, rank_table(S, "rps"), full_table(S), results_table(S)>>
    BY DEF TablesOf
  <2> HIDE DEF rps
  <2>3. written.rps = <<rps, rps, rps, rps>>
    BY <2>1, <2>2
  <2>4. \A x : Range(<<x, x, x, x>>) = {x}
    BY DEF Range
  <2>5. Range(written.rps) = {rps}
    BY <2>3, <2>4
  <2> QED BY <2>5, FS_Singleton
<1>2. ASSUME NEW m \in {"p99", "cpu"}
      PROVE  /\ written.ranks[m][1] = written.ranks[m][2]
             /\ written.ranks[m][1] = [i \in DOMAIN SIDS |-> written.paper[i][IF m = "p99" THEN 1 ELSE 2]]
  <2> DEFINE r == Sorted(SIDS, S.avgRank[m])
  <2>1. written.ranks[m] = <<f_cd(S, m), docs_ranks(S, m)>>
    BY DEF TablesOf
  <2>2. f_cd(S, m) = r /\ docs_ranks(S, m) = r
    BY DEF f_cd, CdOrder, docs_ranks
  <2>3. written.ranks[m][1] = r /\ written.ranks[m][2] = r
    BY <2>1, <2>2
  <2>4. written.paper = [i \in DOMAIN SIDS |-> <<r99[i], rcpu[i]>>]
    BY DEF TablesOf, RANKTABLE
  <2>5. \A i \in DOMAIN SIDS : written.paper[i][1] = r99[i] /\ written.paper[i][2] = rcpu[i]
    BY <2>4
  <2>6. r = [i \in DOMAIN SIDS |-> r[i]]
    BY SortedOver
  <2>7. \A i \in DOMAIN SIDS : written.paper[i][IF m = "p99" THEN 1 ELSE 2] = r[i]
    <3>1. CASE m = "p99"
      BY <2>5, <3>1
    <3>2. CASE m = "cpu"
      BY <2>5, <3>2
    <3> QED BY <3>1, <3>2
  <2> HIDE DEF r
  <2> QED BY <2>3, <2>6, <2>7
<1>3. written.contrasts[1] = written.contrasts[2]
  BY DEF TablesOf, docs_contrasts, contrast_table
<1>4. f \in [Stacks -> Int]
  BY DEF Measured
<1>5. written.p99 = Sorted(SIDS, f)
  <2>1. [s \in Stacks |-> IF "p99" = "rps" THEN -S.median["p99"][s] ELSE S.median["p99"][s]] = f
    BY <1>4
  <2> QED BY <2>1 DEF TablesOf, rank_table
<1>6. written.named[1] = Lowest(f) /\ written.named[2] = Highest(f)
  BY DEF TablesOf
<1> HIDE DEF f
<1>7. Lowest(f) = Sorted(SIDS, f)[1] /\ f[Highest(f)] = f[Sorted(SIDS, f)[Len(SIDS)]]
  BY <1>4, NamedAre
<1> QED
  BY <1>1, <1>2, <1>3, <1>5, <1>6, <1>7 DEF f

\* ------------------------------------------------------------------------
\* The scripts

\* A script keeps what it was given, and when it has run its output is what it makes of that.
Given == script \in DOMAIN Inputs /\ input \in Inputs[script]
HolmOutput == Ran("holm") => output = {PHolm(input, order) : order \in ArgSorts(input)}
CellOutput == Ran("cells") => output = Kept(input)
CorpusOutput == Ran("corpus") => output = Request(input)
RankOutput ==
  Ran("ranks") =>
    output = [avg |-> AvgRank(input.medians), pairs |-> SignificantPairs(AvgRank(input.medians), input.CD),
              bars |-> {Bar(g, AvgRank(input.medians)) : g \in Cliques(AvgRank(input.medians), input.CD)},
              stems |-> [i \in DOMAIN SIDS |-> Stem(AvgRank(input.medians), i)],
              spans |-> [ids \in kSubset(3, Stacks) |-> rk(AvgRank(input.medians), ids)]]
ReferenceOutput == Ran("reference") => output = Reference(input)
SeedOutput == Ran("seed") => output = Seed(input)
ResetOutput ==
  Ran("reset") =>
    output = [loaded |-> Load(Seed(input.draws)), after |-> Reset(After(Load(Seed(input.draws)), input.checkouts))]
BarOutput == Ran("bars") => output = BarRows(input)
CostOutput == Ran("costs") => output = f_cost(input)
TailOutput == Ran("tails") => output = TailRows(input.p50, input.p99)
TableOutput == Ran("tables") => output = TablesOf(input)
PaperOutput == Ran("paper") => output = Fill(FlattenSeq(input))
Outputs ==
  /\ Given /\ HolmOutput /\ CellOutput /\ CorpusOutput /\ RankOutput /\ BarOutput /\ CostOutput /\ TailOutput
  /\ ReferenceOutput /\ SeedOutput /\ ResetOutput /\ TableOutput /\ PaperOutput

LEMMA OutputsAre == Spec => []Outputs
<1>1. Init => Outputs
  BY DEF Init, Outputs, Given, HolmOutput, CellOutput, CorpusOutput, RankOutput,
         BarOutput, CostOutput, TailOutput, ReferenceOutput, SeedOutput, ResetOutput,
         TableOutput, PaperOutput, Ran
<1>2. Outputs /\ [Next]_vars => Outputs'
  <2> SUFFICES ASSUME Outputs, [Next]_vars PROVE Outputs'
    OBVIOUS
  <2>1. script' = script /\ input' = input
    BY DEF Next, vars, Returns, Done, SeedTables, SeedDatabase, ResetDatabase, DrawRequest, GroupResults,
           CorrectContrasts, RankStacks, PlaceLabels, DrawBars, DrawCosts, DrawTails, WriteTables, FillPaper
  <2>2. CASE output' = output
    BY <2>1, <2>2 DEF Outputs, Given, HolmOutput, CellOutput, CorpusOutput, RankOutput,
         BarOutput, CostOutput, TailOutput, ReferenceOutput, SeedOutput, ResetOutput,
         TableOutput, PaperOutput, Ran
  <2>3. ASSUME output' # output, script = "holm"
        PROVE  output' = {PHolm(input, order) : order \in ArgSorts(input)}
    BY <2>3 DEF Next, vars, Returns, Done, SeedTables, SeedDatabase, ResetDatabase, DrawRequest, GroupResults,
           CorrectContrasts, RankStacks, PlaceLabels, DrawBars, DrawCosts, DrawTails, WriteTables, FillPaper
  <2>4. ASSUME output' # output, script = "cells" PROVE output' = Kept(input)
    BY <2>4 DEF Kept, Next, vars, Returns, Done, SeedTables, SeedDatabase, ResetDatabase, DrawRequest, GroupResults,
           CorrectContrasts, RankStacks, PlaceLabels, DrawBars, DrawCosts, DrawTails, WriteTables, FillPaper
  <2>5. ASSUME output' # output, script = "corpus" PROVE output' = Request(input)
    BY <2>5 DEF Next, vars, Returns, Done, SeedTables, SeedDatabase, ResetDatabase, DrawRequest, GroupResults,
           CorrectContrasts, RankStacks, PlaceLabels, DrawBars, DrawCosts, DrawTails, WriteTables, FillPaper
  <2>6. ASSUME output' # output, script = "ranks"
        PROVE  output' = [avg |-> AvgRank(input.medians), pairs |-> SignificantPairs(AvgRank(input.medians), input.CD),
                          bars |-> {Bar(g, AvgRank(input.medians)) : g \in Cliques(AvgRank(input.medians), input.CD)},
                          stems |-> [i \in DOMAIN SIDS |-> Stem(AvgRank(input.medians), i)],
                          spans |-> [ids \in kSubset(3, Stacks) |-> rk(AvgRank(input.medians), ids)]]
    BY <2>6 DEF Next, vars, Returns, Done, SeedTables, SeedDatabase, ResetDatabase, DrawRequest, GroupResults,
           CorrectContrasts, RankStacks, PlaceLabels, DrawBars, DrawCosts, DrawTails, WriteTables, FillPaper
  <2>7. ASSUME output' # output, script = "bars" PROVE output' = BarRows(input)
    BY <2>7 DEF Next, vars, Returns, Done, SeedTables, SeedDatabase, ResetDatabase, DrawRequest, GroupResults,
           CorrectContrasts, RankStacks, PlaceLabels, DrawBars, DrawCosts, DrawTails, WriteTables, FillPaper
  <2>8. ASSUME output' # output, script = "costs" PROVE output' = f_cost(input)
    BY <2>8 DEF Next, vars, Returns, Done, SeedTables, SeedDatabase, ResetDatabase, DrawRequest, GroupResults,
           CorrectContrasts, RankStacks, PlaceLabels, DrawBars, DrawCosts, DrawTails, WriteTables, FillPaper
  <2>9. ASSUME output' # output, script = "tails" PROVE output' = TailRows(input.p50, input.p99)
    BY <2>9 DEF Next, vars, Returns, Done, SeedTables, SeedDatabase, ResetDatabase, DrawRequest, GroupResults,
           CorrectContrasts, RankStacks, PlaceLabels, DrawBars, DrawCosts, DrawTails, WriteTables, FillPaper
  <2>10. ASSUME output' # output, script = "reference" PROVE output' = Reference(input)
    BY <2>10 DEF Next, vars, Returns, Done, SeedTables, SeedDatabase, ResetDatabase, DrawRequest, GroupResults,
           CorrectContrasts, RankStacks, PlaceLabels, DrawBars, DrawCosts, DrawTails, WriteTables, FillPaper
  <2>11. ASSUME output' # output, script = "seed" PROVE output' = Seed(input)
    BY <2>11 DEF Next, vars, Returns, Done, SeedTables, SeedDatabase, ResetDatabase, DrawRequest, GroupResults,
           CorrectContrasts, RankStacks, PlaceLabels, DrawBars, DrawCosts, DrawTails, WriteTables, FillPaper
  <2>12. ASSUME output' # output, script = "reset"
         PROVE  output' = [loaded |-> Load(Seed(input.draws)),
                           after |-> Reset(After(Load(Seed(input.draws)), input.checkouts))]
    BY <2>12 DEF Next, vars, Returns, Done, SeedTables, SeedDatabase, ResetDatabase, DrawRequest, GroupResults,
           CorrectContrasts, RankStacks, PlaceLabels, DrawBars, DrawCosts, DrawTails, WriteTables, FillPaper
  <2>13. ASSUME output' # output, script = "tables" PROVE output' = TablesOf(input)
    BY <2>13 DEF TablesOf, Next, vars, Returns, Done, SeedTables, SeedDatabase, ResetDatabase, DrawRequest, GroupResults,
           CorrectContrasts, RankStacks, PlaceLabels, DrawBars, DrawCosts, DrawTails, WriteTables, FillPaper
  <2>14. ASSUME output' # output, script = "paper" PROVE output' = Fill(FlattenSeq(input))
    BY <2>14 DEF Next, vars, Returns, Done, SeedTables, SeedDatabase, ResetDatabase, DrawRequest, GroupResults,
           CorrectContrasts, RankStacks, PlaceLabels, DrawBars, DrawCosts, DrawTails, WriteTables, FillPaper
  <2> QED BY <2>1, <2>2, <2>3, <2>4, <2>5, <2>6, <2>7, <2>8, <2>9, <2>10, <2>11, <2>12, <2>13, <2>14
          DEF Outputs, Given, HolmOutput, CellOutput, CorpusOutput, RankOutput,
         BarOutput, CostOutput, TailOutput, ReferenceOutput, SeedOutput, ResetOutput,
         TableOutput, PaperOutput, Ran
<1> QED
  BY <1>1, <1>2, PTL DEF Spec

\* Whatever p-values stats.py corrects, and in whatever order argsort leaves equal
\* ones, the adjusted values decide as Holm's step-down procedure does.
THEOREM HolmDecides == Spec => []HolmIsStepDown
<1>1. Outputs => HolmIsStepDown
  <2> SUFFICES ASSUME Outputs, Ran("holm")
               PROVE  /\ Cardinality(output) = 1
                      /\ \A pHolm \in output :
                           /\ Significant(pHolm) = Rejected(input)
                           /\ \A i, j \in DOMAIN input :
                                input[i] <= pHolm[i] /\ pHolm[i] <= 100 /\ (input[i] <= input[j] => pHolm[i] <= pHolm[j])
    BY DEF HolmIsStepDown
  <2>1. PValues(input)
    BY InputsAssumption DEF Outputs, Given, Ran
  <2>2. output = {PHolm(input, order) : order \in ArgSorts(input)}
    BY DEF Outputs, HolmOutput
  <2>3. PICK order \in ArgSorts(input) : TRUE
    BY <2>1, HolmIs
  <2>4. output = {PHolm(input, order)}
    BY <2>1, <2>2, HolmIs
  <2> DEFINE pHolm == PHolm(input, order)
  <2>5. /\ Significant(pHolm) = Rejected(input)
        /\ \A i, j \in DOMAIN input :
             input[i] <= pHolm[i] /\ pHolm[i] <= 100 /\ (input[i] <= input[j] => pHolm[i] <= pHolm[j])
    BY <2>1, HolmIs
  <2> HIDE DEF pHolm
  <2>6. output = {pHolm}
    BY <2>4 DEF pHolm
  <2> QED BY <2>5, <2>6, FS_Singleton, ZenonT(30)
<1> QED
  BY <1>1, OutputsAre, PTL

\* For every profile of run.py, and whatever stacks and workloads there are, the
\* results fall into cells that hold each repetition once, as many as load profiles.
THEOREM CellsAreWhole == Spec => []CellsHoldRepetitions
<1>1. Outputs => CellsHoldRepetitions
  <2> SUFFICES ASSUME Outputs, Ran("cells")
               PROVE  /\ Cardinality(Conf(output)) = Cardinality(Profiles[input].configs)
                      /\ \A sid \in Stacks, sc \in Scenarios, cf \in Conf(output) :
                           /\ Cardinality(Cell(output, sid, sc, cf)) = Profiles[input].reps
                           /\ {r.rep : r \in Cell(output, sid, sc, cf)} = 0..(Profiles[input].reps - 1)
    BY DEF CellsHoldRepetitions
  <2>1. input \in DOMAIN Profiles
    BY InputsAssumption DEF Outputs, Given, Ran
  <2>2. output = Block(1, input, Stacks)
    BY <2>1, NothingLost DEF Outputs, CellOutput
  <2> QED BY <2>1, <2>2, CellsAre
<1> QED
  BY <1>1, OutputsAre, PTL

\* Whatever seed.py draws, the orders it writes keep the books a checkout keeps, and
\* the reference tables fit together.
THEOREM SeedWhole == Spec => []SeedIsWhole
<1>1. Outputs => SeedIsWhole
  <2> SUFFICES ASSUME Outputs PROVE SeedIsWhole
    OBVIOUS
  <2>1. ASSUME Ran("seed") PROVE OrdersAddUp(output)
    <3>1. OrderDraws(input) /\ output = Seed(input)
      BY <2>1, InputsAssumption DEF Outputs, Given, SeedOutput, Ran
    <3> QED BY <3>1, SeedAddsUp
  <2>2. ASSUME Ran("reference") PROVE TablesFit(output)
    <3>1. TableDraws(input) /\ output = Reference(input)
      BY <2>2, InputsAssumption DEF Outputs, Given, ReferenceOutput, Ran
    <3> QED BY <3>1, ReferenceFits
  <2> QED BY <2>1, <2>2 DEF SeedIsWhole
<1> QED
  BY <1>1, OutputsAre, PTL

\* Whatever seed.py drew and whatever checkouts committed or rolled back since,
\* reset.sh leaves what load.sh loaded and no statement of it breaks a reference.
THEOREM ResetRestores == Spec => []ResetRestoresSeed
<1>1. Outputs => ResetRestoresSeed
  <2> SUFFICES ASSUME Outputs, Ran("reset") PROVE ResetRestoresSeed
    BY DEF ResetRestoresSeed
  <2> DEFINE rows == Seed(input.draws)
             db == After(Load(rows), input.checkouts)
             after == Reset(db)
  <2>1. ResetInput(input) /\ output = [loaded |-> Load(rows), after |-> after]
    BY InputsAssumption DEF Outputs, Given, ResetOutput, Ran
  <2>2. SeedRows(rows) /\ input.checkouts \in Seq(Asked)
    BY <2>1, SeedIsRows DEF ResetInput, Asked
  <2> HIDE DEF rows
  <2>3. db \in InUse(rows)
    BY <2>2, AfterKeepsSeed
  <2> HIDE DEF db
  <2>4. /\ DOMAIN after = 1..7 /\ Len(after) = 7
        /\ [after[7] EXCEPT !.next.ledger = 0] = Load(rows)
        /\ \A i \in 1..7 : \A x \in after[i].items : \E o \in after[i].orders : o.id = x.order
    BY <2>2, <2>3, ResetUndoes
  <2> HIDE DEF after
  <2>5. output.after = after /\ output.loaded = Load(rows)
    BY <2>1
  <2> QED BY <2>4, <2>5 DEF ResetRestoresSeed
<1> QED
  BY <1>1, OutputsAre, PTL

\* Whatever corpus.py draws, a request is one every stack must serve alike: as
\* many lines as meant, none with the SKU of another, products that are stocked.
THEOREM CorpusServed == Spec => []CorpusIsServed
<1>1. Outputs => CorpusIsServed
  <2> SUFFICES ASSUME Outputs, Ran("corpus") PROVE CorpusIsServed
    BY DEF CorpusIsServed
  <2>1. CorpusDraws(input) /\ output = Request(input)
    BY InputsAssumption DEF Outputs, Given, CorpusOutput, Ran
  <2> DEFINE cart == Cart(input.drawn, input.n)
             P == 1..N_PRODUCTS
             n == input.n
  <2>2. n \in Nat /\ cart \in Seq(P) /\ Len(cart) = n /\ \A i, j \in 1..n : cart[i] = cart[j] => i = j
    <3>1. input.drawn \in Seq(P) /\ n \in Nat /\ n <= Cardinality(ToSet(input.drawn))
      BY <2>1 DEF CorpusDraws
    <3> HIDE DEF P, n
    <3>2. /\ Cart(input.drawn, n) \in Seq(P) /\ Len(Cart(input.drawn, n)) = n
          /\ \A i, j \in 1..n : Cart(input.drawn, n)[i] = Cart(input.drawn, n)[j] => i = j
      BY <3>1, CartIs
    <3> QED BY <3>1, <3>2 DEF n
  <2>3. /\ output.customer = input.customer /\ output.warehouse = input.warehouse
        /\ output.items = [i \in DOMAIN cart |-> [product |-> cart[i], qty |-> input.qty]]
    BY <2>1 DEF Request
  <2> HIDE DEF cart, P, n
  <2>4. DOMAIN cart = 1..n /\ \A i \in 1..n : cart[i] \in P
    BY <2>2
  <2> DEFINE items == output.items
  <2>5. DOMAIN items = 1..n /\ \A i \in 1..n : items[i].product = cart[i] /\ items[i].qty = input.qty
    BY <2>3, <2>4
  <2>6. Len(items) = n
    <3>1. items \in Seq({[product |-> p, qty |-> input.qty] : p \in P})
      BY <2>2, <2>3, <2>4
    <3> HIDE DEF items
    <3> QED BY <2>2, <2>5, <3>1
  <2>7. \A i, j \in DOMAIN items : items[i].product = items[j].product => i = j
    BY <2>2, <2>5
  <2>8. \A i \in DOMAIN items : <<output.warehouse, items[i].product>> \in Inventory /\ items[i].qty \in Quantities
    BY <2>1, <2>3, <2>4, <2>5 DEF Inventory, CorpusDraws, P
  <2>9. output.customer \in 1..N_CUSTOMERS
    BY <2>1, <2>3 DEF CorpusDraws
  <2> QED BY <2>6, <2>7, <2>8, <2>9 DEF CorpusIsServed, n
<1> QED
  BY <1>1, OutputsAre, PTL

\* Whatever is measured and however large the critical difference, the bars of the
\* diagram join exactly the pairs not reported as significant, and a span of ranks
\* said to be within it holds no such pair.
THEOREM BarsMatch == Spec => []BarsMatchPairs
<1>1. Outputs => BarsMatchPairs
  <2> SUFFICES ASSUME Outputs, Ran("ranks") PROVE BarsMatchPairs
    BY DEF BarsMatchPairs
  <2> DEFINE avg == AvgRank(input.medians)
             CD == input.CD
  <2>1. CD \in Nat /\ \A s \in Stacks : avg[s] \in Int
    BY InputsAssumption, RanksAre DEF Outputs, Given, Ran, Ranking
  <2>2. /\ output.avg = avg /\ output.pairs = SignificantPairs(avg, CD)
        /\ output.bars = {Bar(g, avg) : g \in Cliques(avg, CD)}
        /\ output.spans = [ids \in kSubset(3, Stacks) |-> rk(avg, ids)]
    BY DEF Outputs, RankOutput
  <2> HIDE DEF avg, CD
  <2>3. ASSUME NEW ids \in kSubset(3, Stacks)
        PROVE  output.spans[ids] <= CD <=> \A pair \in output.pairs : ~(pair \subseteq ids)
    <3>1. rk(avg, ids) <= CD <=> \A pair \in SignificantPairs(avg, CD) : ~(pair \subseteq ids)
      BY <2>1, SpansAre
    <3> QED BY <2>2, <3>1
  <2>4. ASSUME NEW pair \in kSubset(2, Stacks)
        PROVE  pair \notin output.pairs
                 <=> \E bar \in output.bars : \A s \in pair : bar.from <= output.avg[s] /\ output.avg[s] <= bar.to
    <3>1. pair \notin SignificantPairs(avg, CD) <=>
            \E g \in Cliques(avg, CD) : \A s \in pair : Bar(g, avg).from <= avg[s] /\ avg[s] <= Bar(g, avg).to
      BY <2>1, BarsAre
    <3> QED BY <2>2, <3>1
  <2> QED BY <2>3, <2>4 DEF BarsMatchPairs, CD
<1> QED
  BY <1>1, OutputsAre, PTL

\* Whatever was measured, what figures.py draws can be read: no stem crosses another,
\* bars and whiskers stay within their track and are as long as the values are large,
\* one 99th percentile at most is cut off, and it is marked.
THEOREM FiguresRead == Spec => []FiguresReadable
<1>1. Outputs => FiguresReadable
  <2> SUFFICES ASSUME Outputs PROVE StemsNeverCross /\ BarsInTrack /\ OneTailOffScale
    BY DEF FiguresReadable
  <2>1. ASSUME Ran("ranks")
        PROVE  LET stem == output.stems
                   Outside(i, j) == IF stem[i].left THEN stem[j].x < stem[i].x ELSE stem[j].x > stem[i].x
               IN \A i \in DOMAIN stem :
                    /\ stem[i].row \in 0..(Half - 1)
                    /\ \A j \in DOMAIN stem \ {i} :
                         /\ stem[i].left = stem[j].left => stem[i].row # stem[j].row
                         /\ Outside(i, j) => stem[j].row < stem[i].row
    <3> DEFINE avg == AvgRank(input.medians)
               n == Len(SIDS)
               stem == output.stems
    <3>1. \A s \in Stacks : avg[s] \in Int
      BY <2>1, InputsAssumption, RanksAre DEF Outputs, Given, Ran, Ranking
    <3>2. stem = [i \in DOMAIN SIDS |-> Stem(avg, i)] /\ DOMAIN SIDS = 1..n
      BY <2>1, SIDSAssumption DEF Outputs, RankOutput
    <3>3. DOMAIN stem = 1..n /\ \A i \in 1..n : stem[i] = Stem(avg, i)
      BY <3>2
    <3> HIDE DEF avg, stem
    <3>4. ASSUME NEW i \in 1..n
          PROVE  /\ Stem(avg, i).row \in 0..(Half - 1)
                 /\ \A j \in 1..n :
                      /\ i # j /\ Stem(avg, i).left = Stem(avg, j).left => Stem(avg, i).row # Stem(avg, j).row
                      /\ (IF Stem(avg, i).left THEN Stem(avg, j).x < Stem(avg, i).x ELSE Stem(avg, j).x > Stem(avg, i).x) =>
                           Stem(avg, j).row < Stem(avg, i).row
      BY <3>1, StemsAre
    <3> QED BY <3>3, <3>4 DEF stem
  <2>2. StemsNeverCross
    BY <2>1 DEF StemsNeverCross
  <2>3. ASSUME Ran("bars") PROVE InTrack(input, output)
    <3>1. BarInput(input) /\ output = BarRows(input)
      BY <2>3, InputsAssumption DEF Outputs, Given, BarOutput, Ran
    <3> QED BY <3>1, BarsInTrackAre
  <2>4. ASSUME Ran("costs") PROVE CheapestFirst(input, output)
    <3>1. input \in [Stacks -> [1..3 -> Nat \ {0}]] /\ output = f_cost(input)
      BY <2>4, InputsAssumption DEF Outputs, Given, CostOutput, Ran
    <3>2. CheapestFirst(input, f_cost(input))
      BY <3>1, CostsAre
    <3> QED BY <3>1, <3>2
  <2>5. BarsInTrack
    BY <2>3, <2>4 DEF BarsInTrack
  <2>6. OneTailOffScale
    <3> SUFFICES ASSUME Ran("tails") PROVE OneTailOffScale
      BY DEF OneTailOffScale
    <3>1. TailInput(input) /\ Len(SIDS) > 1 /\ output = TailRows(input.p50, input.p99)
      BY InputsAssumption DEF Outputs, Given, TailOutput, Ran
    <3> QED BY <3>1, TailsAre DEF OneTailOffScale
  <2> QED BY <2>2, <2>5, <2>6
<1> QED
  BY <1>1, OutputsAre, PTL

\* Whatever was measured, the figures, README.md, RESULTS.md and the paper list the
\* stacks in one order and name its ends, equal values included; and whatever the text
\* of the paper, every placeholder of it becomes its own value.
THEOREM DocumentsSay == Spec => []DocumentsAgree
<1>1. Outputs => DocumentsAgree
  <2> SUFFICES ASSUME Outputs PROVE TablesAgree /\ PlaceholdersReplaced
    BY DEF DocumentsAgree
  <2>1. TablesAgree
    <3> SUFFICES ASSUME Ran("tables") PROVE TablesAgree
      BY DEF TablesAgree
    <3>1. Measured(input) /\ output = TablesOf(input)
      BY InputsAssumption DEF Outputs, Given, TableOutput, Ran
    <3> QED BY <3>1, TablesAre DEF TablesAgree
  <2>2. PlaceholdersReplaced
    <3> SUFFICES ASSUME Ran("paper") PROVE PlaceholdersReplaced
      BY DEF PlaceholdersReplaced
    <3>1. PaperText(input) /\ output = Fill(FlattenSeq(input))
      BY InputsAssumption DEF Outputs, Given, PaperOutput, Ran
    <3>2. output = [i \in DOMAIN input |-> Filled(input[i])]
      BY <3>1, PaperFilled
    <3> QED BY <3>2 DEF PlaceholdersReplaced, Filled
  <2> QED BY <2>1, <2>2
<1> QED
  BY <1>1, OutputsAre, PTL

=============================================================================
