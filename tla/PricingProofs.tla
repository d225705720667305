--------------------------- MODULE PricingProofs ---------------------------
(***************************************************************************)
(* The theorems about Pricing: the engines agree, an invoice's amounts do  *)
(* not depend on the order of the rules, and they add up, for every set of *)
(* products, rules, taxes and requests the assumptions of Pricing allow.   *)
(***************************************************************************)
EXTENDS Pricing, SumProofs

\* ------------------------------------------------------------------------
\* Rates and amounts

\* Of natural numbers, the division that truncates is the one that rounds down,
\* and rounds half up.
LEMMA MulBPIs ==
  ASSUME NEW e, NEW base \in Nat, NEW bp \in Nat
  PROVE  /\ MulBP(e, base, bp) \in Nat
         /\ MulBP(e, base, bp) = MulBP("go", base, bp)
         /\ 10000 * MulBP(e, base, bp) <= base * bp + 5000
<1> DEFINE high == base \div 10000
           low == base % 10000
           rest == low * bp + 5000
           down == high * bp + rest \div 10000
<1>1. high \in Nat /\ low \in Nat /\ base = 10000 * high + low
  OBVIOUS
<1> HIDE DEF high, low
<1>2. PICK h, l \in Nat : h = high /\ l = low
  BY <1>1
<1>3. PICK x, y \in Nat : x = h * bp /\ y = l * bp
  OBVIOUS
<1>4. rest = y + 5000 /\ down = x + rest \div 10000
  BY <1>2, <1>3
<1>5. \A d : MulBP(d, base, bp) = IF d # "ts" /\ down < 0 /\ rest % 10000 # 0 THEN down + 1 ELSE down
  BY DEF MulBP, high, low
<1> HIDE DEF rest, down
<1>6. base * bp = 10000 * x + y
  <2>1. base = 10000 * h + l
    BY <1>1, <1>2
  <2>2. (10000 * h + l) * bp = 10000 * (h * bp) + l * bp
    OBVIOUS
  <2>3. base * bp = (10000 * h + l) * bp
    BY <2>1
  <2>4. 10000 * (h * bp) + l * bp = 10000 * x + y
    BY <1>3
  <2> QED BY <2>2, <2>3, <2>4
<1>7. down \in Nat /\ 10000 * down <= 10000 * x + y + 5000
  <2>1. PICK z \in Nat : z = rest \div 10000 /\ 10000 * z <= rest
    BY <1>4
  <2> QED BY <1>4, <2>1
<1>8. \A d : MulBP(d, base, bp) = down
  BY <1>5, <1>7
<1> QED
  BY <1>6, <1>7, <1>8

\* A set of positions of a list has a least and a greatest.
LEMMA MinIs ==
  ASSUME NEW S \in SUBSET Nat, S # {}
  PROVE  Min(S) \in S
<1> DEFINE less == OpToRel(<, Nat)
<1>1. \A a, b \in Nat : a < b => <<a, b>> \in less
  BY DEF OpToRel
<1>2. IsWellFoundedOn(less, Nat)
  BY NatLessThanWellFounded
<1> HIDE DEF less
<1>3. PICK m \in S : \A k \in S : <<k, m>> \notin less
  BY <1>2, WFMin
<1>4. \A k \in S : m <= k
  <2>1. \A k \in S : ~(k < m)
    BY <1>1, <1>3
  <2> QED BY <2>1
<1> QED
  BY <1>4 DEF Min

LEMMA MaxIs ==
  ASSUME NEW n \in Nat, NEW S \in SUBSET (1..n), S # {}
  PROVE  Max(S) \in S
<1> DEFINE R == {n - i : i \in S}
<1>1. R \in SUBSET Nat /\ R # {}
  <2>1. \A i \in S : n - i \in Nat
    OBVIOUS
  <2>2. PICK i \in S : TRUE
    OBVIOUS
  <2>3. n - i \in R
    OBVIOUS
  <2> QED BY <2>1, <2>3
<1>2. Min(R) \in R
  <2> HIDE DEF R
  <2> QED BY <1>1, MinIs
<1>3. PICK m \in R : \A k \in R : m <= k
  <2> DEFINE less == OpToRel(<, Nat)
  <2>1. \A a, b \in Nat : a < b => <<a, b>> \in less
    BY DEF OpToRel
  <2>2. IsWellFoundedOn(less, Nat)
    BY NatLessThanWellFounded
  <2> HIDE DEF less, R
  <2>3. PICK m \in R : \A k \in R : <<k, m>> \notin less
    BY <1>1, <2>2, WFMin
  <2>4. \A k \in R : ~(k < m)
    BY <1>1, <2>1, <2>3
  <2>5. \A k \in R : m <= k
    BY <1>1, <2>4
  <2> QED BY <2>5
<1>4. PICK i \in S : m = n - i
  OBVIOUS
<1>5. \A j \in S : j <= i
  <2> SUFFICES ASSUME NEW j \in S PROVE j <= i
    OBVIOUS
  <2>1. n - j \in R
    OBVIOUS
  <2>2. m <= n - j
    BY <1>3, <2>1
  <2> QED BY <1>4, <2>2
<1> QED
  <2> HIDE DEF R
  <2> QED BY <1>5 DEF Max

LEMMA RateType == ASSUME NEW p PROVE RateFor(p) \in Nat
<1> DEFINE n == Len(Taxes)
<1>1. n \in Nat /\ DOMAIN Taxes = 1..n /\ \A i \in 1..n : Taxes[i].bp \in Nat
  BY TaxesAssumption DEF ToSet
<1> DEFINE Of(category) == {i \in DOMAIN Taxes : Taxes[i].category = category}
           own == Of(Product[p].category)
           def == Of(None)
<1>2. own \in SUBSET Nat /\ own \in SUBSET (1..n) /\ def \in SUBSET (1..n)
  BY <1>1
<1>3. RateFor(p) = IF Product[p].exempt THEN 0
                   ELSE IF own # {} THEN Taxes[Min(own)].bp
                   ELSE IF def # {} THEN Taxes[Max(def)].bp ELSE 0
  BY Zenon DEF RateFor
<1> HIDE DEF own, def, n
<1>4. own # {} => Min(own) \in 1..n
  BY <1>2, MinIs
<1>5. def # {} => Max(def) \in 1..n
  BY <1>1, <1>2, MaxIs
<1> QED
  BY <1>1, <1>3, <1>4, <1>5

\* ------------------------------------------------------------------------
\* The loop over the rules

Ids   == {r.id : r \in Rules}
Bests == [fixed : Nat, id : Ids \cup {None}, stacked : Nat, ids : SUBSET Ids]

\* What a rule takes off is a natural number, the same in every engine.
LEMMA AmountIs ==
  ASSUME NEW e, NEW base \in Nat, NEW r \in Rules
  PROVE  Amount(e, base, r) \in Nat /\ Amount(e, base, r) = Amount("go", base, r)
<1>1. r.bp \in Nat /\ r.max \in Nat
  BY RulesAssumption
<1>2. MulBP(e, base, r.bp) \in Nat /\ MulBP(e, base, r.bp) = MulBP("go", base, r.bp)
  BY <1>1, MulBPIs
<1> QED
  BY <1>1, <1>2 DEF Amount

LEMMA TryType ==
  ASSUME NEW e, NEW base \in Nat, NEW best \in Bests, NEW r \in Rules
  PROVE  Try(e, base, best, r) \in Bests
<1>1. Amount(e, base, r) \in Nat
  BY AmountIs
<1>2. r.id \in Ids
  BY DEF Ids
<1>3. CASE r.stackable
  <2>1. best.stacked + Amount(e, base, r) \in Nat /\ best.ids \cup {r.id} \in SUBSET Ids
    BY <1>1, <1>2 DEF Bests
  <2> QED BY <1>3, <2>1 DEF Try, Bests
<1>4. CASE ~r.stackable
  BY <1>1, <1>2, <1>4 DEF Try, Bests
<1> QED
  BY <1>3, <1>4

\* f[i] is what an engine has found after i rules.
Scanned(f, e, rules, tier, item) ==
  /\ f \in [0..Len(rules) -> Bests]
  /\ f[0] = NoBest
  /\ \A i \in 1..Len(rules) :
       f[i] = IF RuleMatches(rules[i], tier, item.sku, item.qty)
              THEN Try(e, Base(item), f[i - 1], rules[i]) ELSE f[i - 1]

LEMMA ScanIs ==
  ASSUME NEW e, NEW rules \in Seq(Rules), NEW tier, NEW item, Base(item) \in Nat
  PROVE  \E f : Scanned(f, e, rules, tier, item) /\ Scan(e, rules, tier, item) = f[Len(rules)]
<1> DEFINE n == Len(rules)
           base == Base(item)
           Next1(i, b) == IF RuleMatches(rules[i], tier, item.sku, item.qty) THEN Try(e, base, b, rules[i]) ELSE b
           Is(f) == f = [i \in 0..n |-> IF i = 0 THEN NoBest ELSE Next1(i, f[i - 1])]
           step == [p \in (1..n) \X Bests |-> Next1(p[1], p[2])]
<1>1. n \in Nat /\ \A i \in 1..n : rules[i] \in Rules
  OBVIOUS
<1>2. NoBest \in Bests
  BY DEF NoBest, Bests
<1>3. \A i \in 1..n, b \in Bests : Next1(i, b) \in Bests
  <2>1. base \in Nat
    OBVIOUS
  <2> HIDE DEF base
  <2> QED BY <1>1, <2>1, TryType
<1>4. Scan(e, rules, tier, item) = (CHOOSE f : Is(f))[n]
  BY Zenon DEF Scan
<1> HIDE DEF Next1
<1>5. step \in [(1..n) \X Bests -> Bests] /\ \A i \in 1..n, b \in Bests : step[<<i, b>>] = Next1(i, b)
  BY <1>3
<1>6. PICK g \in [0..n -> Bests] : g[0] = NoBest /\ \A i \in 1..n : g[i] = step[<<i, g[i - 1]>>]
  <2> DEFINE V == Bests
             first == NoBest
  <2>1. first \in V /\ step \in Steps(n, V)
    BY <1>2, <1>5 DEF Steps
  <2> HIDE DEF step, n, V, first
  <2>2. \E f \in [0..n -> V] : IsLoop(f, n, first, step)
    BY <1>1, <2>1, LoopExists
  <2> QED BY <2>2 DEF V, first, IsLoop
<1> HIDE DEF step
<1>7. \A i \in 1..n : g[i] = Next1(i, g[i - 1])
  <2>1. \A i \in 1..n : i - 1 \in 0..n
    BY <1>1
  <2> HIDE DEF n
  <2> QED BY <1>5, <1>6, <2>1
<1>8. Is(g)
  <2>1. \A i \in 0..n : i = 0 \/ i \in 1..n
    BY <1>1
  <2> HIDE DEF n
  <2> QED BY <1>6, <1>7, <2>1
<1> DEFINE f == CHOOSE f : Is(f)
<1>9. Is(f)
  <2> HIDE DEF Is
  <2> QED BY <1>8, Zenon
<1>10. f[0] = NoBest /\ (\A i \in 1..n : f[i] = Next1(i, f[i - 1])) /\ f = [i \in 0..n |-> f[i]]
  <2>1. f = [i \in 0..n |-> IF i = 0 THEN NoBest ELSE Next1(i, f[i - 1])]
    BY <1>9
  <2>2. 0 \in 0..n /\ \A i \in 1..n : i \in 0..n /\ i # 0
    BY <1>1
  <2> HIDE DEF f, n
  <2> QED BY <2>1, <2>2
<1>11. \A i \in 0..n : f[i] \in Bests
  <2> DEFINE T == {i \in 0..n : f[i] \in Bests}
  <2> HIDE DEF f, n
  <2>1. 0 \in T
    BY <1>1, <1>2, <1>10
  <2>2. ASSUME NEW i \in 0..(n - 1), i \in T PROVE i + 1 \in T
    <3>1. i + 1 \in 1..n /\ (i + 1) - 1 = i
      BY <1>1
    <3>2. f[i + 1] = Next1(i + 1, f[i])
      BY <1>10, <3>1
    <3>3. Next1(i + 1, f[i]) \in Bests
      BY <1>3, <2>2, <3>1
    <3> QED BY <3>1, <3>2, <3>3
  <2>3. \A i \in 0..n : i \in T
    <3> HIDE DEF T
    <3> QED BY <1>1, <2>1, <2>2, LoopInduction
  <2> QED BY <2>3
<1>12. f \in [0..n -> Bests]
  <2> HIDE DEF f, n
  <2> QED BY <1>10, <1>11
<1>13. Scanned(f, e, rules, tier, item)
  <2> HIDE DEF f
  <2> QED BY <1>10, <1>12 DEF Scanned, Next1
<1>14. Scan(e, rules, tier, item) = f[n]
  BY <1>4
<1> QED
  <2> HIDE DEF f
  <2> QED BY <1>13, <1>14

\* However the best rule is found, it is the same one: as long as there is none, the
\* best discount is 0 and the first rule that matches replaces it.
LEMMA ScanAgrees ==
  ASSUME NEW e \in Engines, NEW rules \in Seq(Rules), NEW tier, NEW item,
         Base(item) \in Nat
  PROVE  Scan(e, rules, tier, item) = Scan("go", rules, tier, item)
<1> DEFINE n == Len(rules)
           base == Base(item)
           Found(i) == RuleMatches(rules[i], tier, item.sku, item.qty)
<1>1. n \in Nat /\ base \in Nat /\ \A i \in 1..n : rules[i] \in Rules
  OBVIOUS
<1>2. PICK f : Scanned(f, e, rules, tier, item) /\ Scan(e, rules, tier, item) = f[n]
  BY ScanIs
<1>3. PICK g : Scanned(g, "go", rules, tier, item) /\ Scan("go", rules, tier, item) = g[n]
  BY ScanIs
<1>4. /\ f \in [0..n -> Bests] /\ f[0] = NoBest
      /\ \A i \in 1..n : f[i] = IF Found(i) THEN Try(e, base, f[i - 1], rules[i]) ELSE f[i - 1]
  BY <1>2 DEF Scanned
<1>5. /\ g \in [0..n -> Bests] /\ g[0] = NoBest
      /\ \A i \in 1..n : g[i] = IF Found(i) THEN Try("go", base, g[i - 1], rules[i]) ELSE g[i - 1]
  BY <1>3 DEF Scanned
<1> HIDE DEF n, base, Found
<1> DEFINE T == {i \in 0..n : f[i] = g[i] /\ (g[i].id = None => g[i].fixed = 0)}
<1>6. 0 \in T
  <2>1. NoBest.id = None /\ NoBest.fixed = 0 /\ 0 \in 0..n
    BY <1>1 DEF NoBest
  <2> QED BY <1>4, <1>5, <2>1
<1>7. ASSUME NEW i \in 0..(n - 1), i \in T PROVE i + 1 \in T
  <2> DEFINE j == i + 1
  <2>1. i \in 0..n /\ j \in 0..n /\ j \in 1..n /\ j - 1 = i
    BY <1>1
  <2> HIDE DEF j
  <2>2. /\ f[j] = IF Found(j) THEN Try(e, base, f[i], rules[j]) ELSE f[i]
        /\ g[j] = IF Found(j) THEN Try("go", base, g[i], rules[j]) ELSE g[i]
    BY <1>4, <1>5, <2>1
  <2>3. rules[j] \in Rules /\ g[i] \in Bests /\ f[i] = g[i] /\ (g[i].id = None => g[i].fixed = 0)
    BY <1>1, <1>5, <1>7, <2>1
  <2>4. ASSUME NEW r \in Rules, NEW b \in Bests, b.id = None => b.fixed = 0
        PROVE  /\ Try(e, base, b, r) = Try("go", base, b, r)
               /\ Try("go", base, b, r).id = None => Try("go", base, b, r).fixed = 0
    <3>1. PICK amt \in Nat : amt = Amount(e, base, r) /\ amt = Amount("go", base, r)
      BY <1>1, AmountIs
    <3>2. b.fixed \in Nat /\ r.id # None
      BY RulesAssumption DEF Bests
    <3>3. Takes(e, amt, b) <=> Takes("go", amt, b)
      BY <2>4, <3>2 DEF Takes
    <3>4. Try(e, base, b, r) = Try("go", base, b, r)
      BY <3>1, <3>3 DEF Try
    <3>5. Try("go", base, b, r).id = None => Try("go", base, b, r).fixed = 0
      BY <2>4, <3>2 DEF Try, Bests
    <3> QED BY <3>4, <3>5
  <2> QED BY <2>1, <2>2, <2>3, <2>4 DEF j
<1>8. \A i \in 0..n : i \in T
  <2> HIDE DEF T
  <2> QED BY <1>1, <1>6, <1>7, LoopInduction
<1>9. f[n] = g[n]
  BY <1>1, <1>8
<1> QED
  BY <1>2, <1>3, <1>9 DEF n

\* What the loop has found of a set of rules: the ids and the sum of the stackable
\* ones that match, and the best of the others. The sum is the number of the cents
\* they take off, so it does not depend on an order.
Matching(set, tier, item)  == {r \in set : RuleMatches(r, tier, item.sku, item.qty)}
Stackable(set, tier, item) == {r \in Matching(set, tier, item) : r.stackable}
Single(set, tier, item)    == {r \in Matching(set, tier, item) : ~r.stackable}
Cents(base, set) == UNION {{r} \X (1..Amount("go", base, r)) : r \in set}

Finds(b, base, stackable, single) ==
  /\ b.ids = {r.id : r \in stackable}
  /\ IsFiniteSet(Cents(base, stackable)) /\ b.stacked = Cardinality(Cents(base, stackable))
  /\ b.id = None => single = {} /\ b.fixed = 0
  /\ b.id # None => \E r \in single : b.id = r.id /\ b.fixed = Amount("go", base, r)
  /\ \A r \in single : Amount("go", base, r) <= b.fixed

LEMMA CentsOf ==
  ASSUME NEW r, NEW w \in Nat
  PROVE  IsFiniteSet({r} \X (1..w)) /\ Cardinality({r} \X (1..w)) = w
<1>1. /\ IsFiniteSet(1..w) /\ Cardinality(1..w) = w
      /\ IsFiniteSet({r}) /\ Cardinality({r}) = 1
  <2>1. IsFiniteSet(1..w) /\ Cardinality(1..w) = IF 1 > w THEN 0 ELSE w - 1 + 1
    BY FS_Interval
  <2>2. IsFiniteSet({r}) /\ Cardinality({r}) = 1
    BY FS_Singleton
  <2>3. (IF 1 > w THEN 0 ELSE w - 1 + 1) = w
    OBVIOUS
  <2> QED BY <2>1, <2>2, <2>3
<1> DEFINE A == {r}
           B == 1..w
<1>2. IsFiniteSet(A \X B) /\ Cardinality(A \X B) = Cardinality(A) * Cardinality(B)
  <2>1. IsFiniteSet(A) /\ IsFiniteSet(B)
    BY <1>1
  <2> HIDE DEF A, B
  <2> QED BY <2>1, FS_Product
<1>3. Cardinality(A) * Cardinality(B) = w
  BY <1>1
<1> QED
  BY <1>2, <1>3, Zenon

\* A stackable rule that matches adds its id and its cents.
LEMMA StackableFound ==
  ASSUME NEW base \in Nat, NEW b \in Bests, NEW stackable \in SUBSET Rules, NEW single \in SUBSET Rules,
         NEW r \in Rules, r \notin stackable, r.stackable, Finds(b, base, stackable, single)
  PROVE  Finds(Try("go", base, b, r), base, stackable \cup {r}, single)
<1> DEFINE amt == Amount("go", base, r)
           t == Try("go", base, b, r)
           old == Cents(base, stackable)
           own == {r} \X (1..amt)
<1>1. amt \in Nat
  BY AmountIs
<1>2. t.fixed = b.fixed /\ t.id = b.id /\ t.stacked = b.stacked + amt /\ t.ids = b.ids \cup {r.id}
  BY DEF Try, Bests
<1>3. b.ids = {x.id : x \in stackable} /\ IsFiniteSet(old) /\ b.stacked = Cardinality(old)
  BY DEF Finds
<1>4. Cents(base, stackable \cup {r}) = old \cup own
  BY DEF Cents
<1>5. old \cap own = {}
  BY DEF Cents
<1>6. IsFiniteSet(own) /\ Cardinality(own) = amt
  <2> HIDE DEF amt
  <2> QED BY <1>1, CentsOf
<1> HIDE DEF t, amt, old, own
<1>7. IsFiniteSet(old \cup own) /\ Cardinality(old \cup own) = Cardinality(old) + Cardinality(own) - Cardinality({})
  BY <1>3, <1>5, <1>6, FS_Union
<1>8. Cardinality({}) = 0 /\ Cardinality(old) \in Nat
  BY <1>3, FS_EmptySet, FS_CardinalityType
<1>9. IsFiniteSet(Cents(base, stackable \cup {r})) /\ t.stacked = Cardinality(Cents(base, stackable \cup {r}))
  <2>1. PICK x, y, z \in Nat : x = Cardinality(old) /\ y = amt /\ z = Cardinality({})
    BY <1>1, <1>8
  <2>2. Cardinality(old \cup own) = x + y - z /\ t.stacked = x + y /\ z = 0
    BY <1>2, <1>3, <1>6, <1>7, <1>8, <2>1, Zenon
  <2>3. t.stacked = Cardinality(old \cup own)
    BY <2>2
  <2> QED BY <1>4, <1>7, <2>3, Zenon
<1>10. t.ids = {x.id : x \in stackable \cup {r}}
  BY <1>2, <1>3
<1>11. Finds(t, base, stackable \cup {r}, single)
  BY <1>2, <1>9, <1>10 DEF Finds
<1> QED
  BY <1>11 DEF t

\* Another one that matches replaces the best when it takes off more.
LEMMA SingleFound ==
  ASSUME NEW base \in Nat, NEW b \in Bests, NEW stackable \in SUBSET Rules, NEW single \in SUBSET Rules,
         NEW r \in Rules, ~r.stackable, Finds(b, base, stackable, single)
  PROVE  Finds(Try("go", base, b, r), base, stackable, single \cup {r})
<1> DEFINE amt == Amount("go", base, r)
           t == Try("go", base, b, r)
<1>1. amt \in Nat /\ b.fixed \in Nat /\ r.id # None
  BY AmountIs, RulesAssumption DEF Bests
<1>2. t = IF Takes("go", amt, b) THEN [b EXCEPT !.fixed = amt, !.id = r.id] ELSE b
  BY DEF Try
<1>3. t.stacked = b.stacked /\ t.ids = b.ids
  BY <1>2 DEF Bests
<1>4. /\ b.ids = {x.id : x \in stackable}
      /\ IsFiniteSet(Cents(base, stackable)) /\ b.stacked = Cardinality(Cents(base, stackable))
  BY DEF Finds
<1>5. \A x \in single : Amount("go", base, x) \in Nat /\ Amount("go", base, x) <= b.fixed
  BY AmountIs DEF Finds
<1> HIDE DEF t
<1>6. CASE Takes("go", amt, b)
  <2>1. t.fixed = amt /\ t.id = r.id /\ b.fixed <= amt
    <3>1. t = [b EXCEPT !.fixed = amt, !.id = r.id]
      BY <1>2, <1>6
    <3>2. b.fixed <= amt
      <4> HIDE DEF amt
      <4> QED BY <1>1, <1>6 DEF Takes
    <3> HIDE DEF amt
    <3> QED BY <3>1, <3>2 DEF Bests
  <2>2. \A x \in single \cup {r} : Amount("go", base, x) <= t.fixed
    <3>1. \A x \in single : Amount("go", base, x) <= amt
      <4> HIDE DEF amt
      <4> QED BY <1>1, <1>5, <2>1
    <3>2. amt <= amt
      <4> HIDE DEF amt
      <4> QED BY <1>1
    <3> QED BY <2>1, <3>1, <3>2
  <2>3. \E x \in single \cup {r} : t.id = x.id /\ t.fixed = Amount("go", base, x)
    BY <2>1
  <2> HIDE DEF amt
  <2>4. t.id # None
    BY <1>1, <2>1
  <2>5. Finds(t, base, stackable, single \cup {r})
    BY <1>3, <1>4, <2>2, <2>3, <2>4, Zenon DEF Finds
  <2> QED BY <2>5 DEF t
<1>7. CASE ~Takes("go", amt, b)
  <2>1. t = b
    BY <1>2, <1>7
  <2>2. b.id # None /\ amt <= b.fixed
    <3>1. b.id = None => b.fixed = 0
      BY DEF Finds
    <3> HIDE DEF amt
    <3> QED BY <1>1, <1>7, <3>1 DEF Takes
  <2>3. \E x \in single \cup {r} : b.id = x.id /\ b.fixed = Amount("go", base, x)
    BY <2>2 DEF Finds
  <2>4. \A x \in single \cup {r} : Amount("go", base, x) <= b.fixed
    BY <1>5, <2>2
  <2> HIDE DEF amt
  <2>5. Finds(b, base, stackable, single \cup {r})
    BY <1>4, <2>2, <2>3, <2>4, Zenon DEF Finds
  <2> QED BY <2>1, <2>5 DEF t
<1> QED
  BY <1>6, <1>7 DEF t

LEMMA ScanFinds ==
  ASSUME NEW rules \in RuleOrders, NEW tier, NEW item, Base(item) \in Nat
  PROVE  /\ Scan("go", rules, tier, item) \in Bests
         /\ Finds(Scan("go", rules, tier, item), Base(item),
                  Stackable(Rules, tier, item), Single(Rules, tier, item))
<1> DEFINE n == Len(rules)
           base == Base(item)
           Seen(i) == {rules[j] : j \in 1..i}
<1>1. /\ rules \in Seq(Rules) /\ n \in Nat /\ base \in Nat
      /\ \A i \in 1..n : rules[i] \in Rules
      /\ \A i, j \in 1..n : rules[i] = rules[j] => i = j
  BY OrdersAssumption DEF IsInjective
<1>2. PICK f : Scanned(f, "go", rules, tier, item) /\ Scan("go", rules, tier, item) = f[n]
  BY <1>1, ScanIs
<1>3. /\ f \in [0..n -> Bests] /\ f[0] = NoBest
      /\ \A i \in 1..n : f[i] = IF RuleMatches(rules[i], tier, item.sku, item.qty)
                                THEN Try("go", base, f[i - 1], rules[i]) ELSE f[i - 1]
  BY <1>2 DEF Scanned
<1>4. Seen(n) = Rules
  <2>1. ToSet(rules) = Seen(n)
    BY <1>1 DEF ToSet
  <2> QED BY <2>1, OrdersAssumption
<1> DEFINE T == {i \in 0..n : Finds(f[i], base, Stackable(Seen(i), tier, item), Single(Seen(i), tier, item))}
<1> HIDE DEF n, base
<1>5. 0 \in T
  <2>1. Seen(0) = {}
    OBVIOUS
  <2> HIDE DEF Seen
  <2>2. Stackable(Seen(0), tier, item) = {} /\ Single(Seen(0), tier, item) = {}
    BY <2>1 DEF Stackable, Single, Matching
  <2>3. Cents(base, {}) = {}
    BY DEF Cents
  <2>4. IsFiniteSet({}) /\ Cardinality({}) = 0
    BY FS_EmptySet
  <2>5. Finds(NoBest, base, {}, {})
    BY <2>3, <2>4 DEF Finds, NoBest
  <2>6. Finds(f[0], base, Stackable(Seen(0), tier, item), Single(Seen(0), tier, item))
    BY <1>3, <2>2, <2>5
  <2> QED BY <1>1, <2>6
<1>6. ASSUME NEW i \in 0..(n - 1), i \in T PROVE i + 1 \in T
  <2> DEFINE j == i + 1
             r == rules[j]
             stackable == Stackable(Seen(i), tier, item)
             single == Single(Seen(i), tier, item)
  <2>1. i \in 0..n /\ j \in 0..n /\ j \in 1..n /\ j - 1 = i /\ 1..j = (1..i) \cup {j} /\ j \notin 1..i
    BY <1>1
  <2>2. Seen(j) = Seen(i) \cup {r} /\ r \notin Seen(i) /\ r \in Rules /\ Seen(i) \subseteq Rules
    <3> HIDE DEF j, T
    <3>1. Seen(j) = Seen(i) \cup {r}
      BY <2>1
    <3>2. r \in Rules /\ Seen(i) \subseteq Rules
      BY <1>1, <2>1
    <3>3. \A x \in 1..i : x \in 1..n /\ x # j
      BY <1>1, <2>1
    <3>4. r \notin Seen(i)
      BY <1>1, <2>1, <3>3
    <3> QED BY <3>1, <3>2, <3>4
  <2>3. Finds(f[i], base, stackable, single)
    BY <1>6
  <2>4. f[j] = (IF RuleMatches(r, tier, item.sku, item.qty) THEN Try("go", base, f[i], r) ELSE f[i])
        /\ f[i] \in Bests
    <3> HIDE DEF j, Seen
    <3> QED BY <1>3, <2>1
  <2>5. stackable \in SUBSET Rules /\ single \in SUBSET Rules /\ r \notin stackable
    BY <2>2 DEF Stackable, Single, Matching
  <2> HIDE DEF j, r, Seen, T
  <2>6. CASE ~RuleMatches(r, tier, item.sku, item.qty)
    <3>1. Stackable(Seen(j), tier, item) = stackable /\ Single(Seen(j), tier, item) = single
      BY <2>2, <2>6 DEF Stackable, Single, Matching
    <3>2. f[j] = f[i]
      BY <2>4, <2>6
    <3> HIDE DEF stackable, single
    <3> QED BY <2>1, <2>3, <3>1, <3>2 DEF T, j
  <2>7. CASE RuleMatches(r, tier, item.sku, item.qty) /\ r.stackable
    <3>1. Stackable(Seen(j), tier, item) = stackable \cup {r} /\ Single(Seen(j), tier, item) = single
      BY <2>2, <2>7 DEF Stackable, Single, Matching
    <3>2. f[j] = Try("go", base, f[i], r)
      BY <2>4, <2>7
    <3> HIDE DEF stackable, single
    <3>3. Finds(f[j], base, stackable \cup {r}, single)
      BY <1>1, <2>2, <2>3, <2>4, <2>5, <2>7, <3>2, StackableFound
    <3> QED BY <2>1, <3>1, <3>3 DEF T, j
  <2>8. CASE RuleMatches(r, tier, item.sku, item.qty) /\ ~r.stackable
    <3>1. Stackable(Seen(j), tier, item) = stackable /\ Single(Seen(j), tier, item) = single \cup {r}
      BY <2>2, <2>8 DEF Stackable, Single, Matching
    <3>2. f[j] = Try("go", base, f[i], r)
      BY <2>4, <2>8
    <3> HIDE DEF stackable, single
    <3>3. Finds(f[j], base, stackable, single \cup {r})
      BY <1>1, <2>2, <2>3, <2>4, <2>5, <2>8, <3>2, SingleFound
    <3> QED BY <2>1, <3>1, <3>3 DEF T, j
  <2> QED BY <2>6, <2>7, <2>8
<1>7. \A i \in 0..n : i \in T
  <2> HIDE DEF T
  <2> QED BY <1>1, <1>5, <1>6, LoopInduction
<1>8. Finds(f[n], base, Stackable(Rules, tier, item), Single(Rules, tier, item)) /\ f[n] \in Bests
  <2>1. n \in 0..n
    BY <1>1
  <2> HIDE DEF Seen
  <2> QED BY <1>3, <1>4, <1>7, <2>1
<1> QED
  BY <1>2, <1>8 DEF base

\* ------------------------------------------------------------------------
\* Lines

\* Go names the rules it remembered, the others those that match again: they are the
\* stackable ones and the best of the others.
LEMMA AppliedIs ==
  ASSUME NEW e, NEW rules \in RuleOrders, NEW tier, NEW item, Base(item) \in Nat
  PROVE  Applied(e, rules, tier, item, Scan("go", rules, tier, item))
           = Scan("go", rules, tier, item).ids \cup ({Scan("go", rules, tier, item).id} \ {None})
<1> DEFINE best == Scan("go", rules, tier, item)
           base == Base(item)
<1>1. Finds(best, base, Stackable(Rules, tier, item), Single(Rules, tier, item)) /\ best \in Bests
  BY ScanFinds
<1> HIDE DEF best, base
<1>2. CASE e = "go"
  BY <1>2 DEF Applied
<1>3. CASE e # "go"
  <2>1. Applied(e, rules, tier, item, best)
          = {r.id : r \in {r \in Rules : /\ RuleMatches(r, tier, item.sku, item.qty)
                                         /\ r.stackable \/ r.id = best.id}}
    <3>1. ToSet(rules) = Rules
      BY OrdersAssumption
    <3> QED BY <1>3, <3>1, Zenon DEF Applied
  <2>2. \A r \in Rules : r.id # None
    BY RulesAssumption
  <2>3. /\ best.ids = {r.id : r \in Stackable(Rules, tier, item)}
        /\ best.id # None => \E r \in Single(Rules, tier, item) : best.id = r.id
    BY <1>1 DEF Finds
  <2>4. ASSUME NEW r \in Rules, RuleMatches(r, tier, item.sku, item.qty), r.stackable \/ r.id = best.id
        PROVE  r.id \in best.ids \cup ({best.id} \ {None})
    BY <2>2, <2>3, <2>4 DEF Stackable, Matching
  <2>5. ASSUME NEW x \in best.ids \cup ({best.id} \ {None})
        PROVE  \E r \in Rules : /\ RuleMatches(r, tier, item.sku, item.qty)
                                /\ r.stackable \/ r.id = best.id
                                /\ x = r.id
    BY <2>3, <2>5 DEF Stackable, Single, Matching
  <2>6. Applied(e, rules, tier, item, best) = best.ids \cup ({best.id} \ {None})
    BY <2>1, <2>4, <2>5
  <2> QED BY <2>6 DEF best
<1> QED
  BY <1>2, <1>3 DEF best

\* A line from what the loop found, its cap and the names of the rules.
LineWith(tier, item, best, cap, applied) ==
  LET base == Base(item)
      disc == IF best.fixed + best.stacked > cap THEN cap ELSE best.fixed + best.stacked
      net  == base - disc
  IN [sku |-> item.sku, base |-> base, disc |-> disc, net |-> net, points |-> (net \div 100) * tier.multiplier,
      weight |-> Product[item.sku].weight * item.qty, rules |-> applied]

LEMMA StripRecord ==
  \A sku, base, disc, net, points, weight, rules :
    [[sku |-> sku, base |-> base, disc |-> disc, net |-> net, points |-> points, weight |-> weight,
      rules |-> rules] EXCEPT !.rules = {}]
      = [sku |-> sku, base |-> base, disc |-> disc, net |-> net, points |-> points, weight |-> weight, rules |-> {}]
OBVIOUS

LEMMA LineIsWith ==
  ASSUME NEW e, NEW rules, NEW tier, NEW item
  PROVE  Line(e, rules, tier, item)
           = LineWith(tier, item, Scan(e, rules, tier, item), MulBP(e, Base(item), 6000),
                      Applied(e, rules, tier, item, Scan(e, rules, tier, item)))
BY DEF Line, LineWith

\* The engines find the same line.
LEMMA LineAgrees ==
  ASSUME NEW e \in Engines, NEW rules \in RuleOrders, NEW tier, NEW item,
         Base(item) \in Nat
  PROVE  Line(e, rules, tier, item) = Line("go", rules, tier, item)
<1>1. rules \in Seq(Rules)
  BY OrdersAssumption
<1>2. Scan(e, rules, tier, item) = Scan("go", rules, tier, item)
  BY <1>1, ScanAgrees
<1>3. MulBP(e, Base(item), 6000) = MulBP("go", Base(item), 6000)
  BY MulBPIs
<1>4. Applied(e, rules, tier, item, Scan("go", rules, tier, item))
        = Applied("go", rules, tier, item, Scan("go", rules, tier, item))
  <2>1. \A d : Applied(d, rules, tier, item, Scan("go", rules, tier, item))
               = Scan("go", rules, tier, item).ids \cup ({Scan("go", rules, tier, item).id} \ {None})
    BY AppliedIs
  <2> QED BY <2>1, Zenon
<1>5. Line(e, rules, tier, item)
        = LineWith(tier, item, Scan("go", rules, tier, item), MulBP(e, Base(item), 6000),
                   Applied(e, rules, tier, item, Scan("go", rules, tier, item)))
  BY <1>2, LineIsWith
<1>6. Line("go", rules, tier, item)
        = LineWith(tier, item, Scan("go", rules, tier, item), MulBP("go", Base(item), 6000),
                   Applied("go", rules, tier, item, Scan("go", rules, tier, item)))
  BY LineIsWith
<1> QED
  BY <1>3, <1>4, <1>5, <1>6

\* A line keeps at least 40% of its base, to half a cent.
LEMMA LineIs ==
  ASSUME NEW e \in Engines, NEW rules \in RuleOrders, NEW tier, NEW item,
         Base(item) \in Nat, NEW line, line = Line(e, rules, tier, item)
  PROVE  /\ line.sku = item.sku /\ line.base = Base(item)
         /\ line.net \in Nat /\ 10 * line.net >= 4 * line.base - 5
<1> DEFINE base == Base(item)
           best == Scan(e, rules, tier, item)
           cap == MulBP(e, base, 6000)
           disc == IF best.fixed + best.stacked > cap THEN cap ELSE best.fixed + best.stacked
<1>1. best \in Bests
  <2>1. rules \in Seq(Rules)
    BY OrdersAssumption
  <2> QED BY <2>1, ScanAgrees, ScanFinds
<1>2. cap \in Nat /\ 10000 * cap <= base * 6000 + 5000
  BY MulBPIs
<1>3. line.sku = item.sku /\ line.base = base /\ line.net = base - disc
  BY DEF Line
<1>4. base \in Nat
  OBVIOUS
<1> HIDE DEF base, best, cap
<1>5. disc \in Nat /\ disc <= cap
  <2>1. best.fixed \in Nat /\ best.stacked \in Nat
    BY <1>1 DEF Bests
  <2>2. PICK x, y \in Nat : x = best.fixed /\ y = best.stacked
    BY <2>1
  <2>3. disc = IF x + y > cap THEN cap ELSE x + y
    BY <2>2
  <2> HIDE DEF disc
  <2> QED BY <1>2, <2>3
<1> HIDE DEF disc
<1> QED
  BY <1>2, <1>3, <1>4, <1>5 DEF base

\* In whatever order the rules come, a line's amounts are the same, and of the rules it
\* names only non-stackable ones that take off as much can differ.
LEMMA LineWhateverTheOrder ==
  ASSUME NEW rules \in RuleOrders, NEW others \in RuleOrders, NEW tier, NEW item,
         Base(item) \in Nat
  PROVE  LET a == Line("go", rules, tier, item)
             b == Line("go", others, tier, item)
         IN /\ [a EXCEPT !.rules = {}] = [b EXCEPT !.rules = {}]
            /\ a.sku = b.sku /\ a.net = b.net /\ a.points = b.points /\ a.weight = b.weight
            /\ \A x \in {r \in Rules : r.id \in a.rules \ b.rules}, y \in {r \in Rules : r.id \in b.rules \ a.rules} :
                 ~x.stackable /\ ~y.stackable /\ Amount("go", a.base, x) = Amount("go", a.base, y)
<1> DEFINE base == Base(item)
           f == Scan("go", rules, tier, item)
           g == Scan("go", others, tier, item)
           a == Line("go", rules, tier, item)
           b == Line("go", others, tier, item)
           stackable == Stackable(Rules, tier, item)
           single == Single(Rules, tier, item)
<1>1. /\ Finds(f, base, stackable, single) /\ f \in Bests
      /\ Finds(g, base, stackable, single) /\ g \in Bests
  BY ScanFinds
<1>2. base \in Nat /\ stackable \subseteq Rules /\ single \subseteq Rules /\ \A r \in single : ~r.stackable
  BY DEF Stackable, Single, Matching
<1>3. a.rules = f.ids \cup ({f.id} \ {None}) /\ b.rules = g.ids \cup ({g.id} \ {None})
  <2>1. a.rules = Applied("go", rules, tier, item, f) /\ b.rules = Applied("go", others, tier, item, g)
    BY DEF Line
  <2> QED BY <2>1, AppliedIs
<1>4. a.base = base
  BY DEF Line
<1>5. PICK cap, named, other : a = LineWith(tier, item, f, cap, named) /\ b = LineWith(tier, item, g, cap, other)
  <2>1. a = LineWith(tier, item, f, MulBP("go", base, 6000), Applied("go", rules, tier, item, f))
    BY LineIsWith
  <2>2. b = LineWith(tier, item, g, MulBP("go", base, 6000), Applied("go", others, tier, item, g))
    BY LineIsWith
  <2> HIDE DEF a, b, f, g, base
  <2> QED BY <2>1, <2>2
<1>6. f.fixed = g.fixed /\ f.stacked = g.stacked /\ f.ids = g.ids
  <2> HIDE DEF f, g, base, stackable, single
  <2>1. f.stacked = g.stacked /\ f.ids = g.ids
    BY <1>1 DEF Finds
  <2>2. f.fixed \in Nat /\ g.fixed \in Nat
    BY <1>1 DEF Bests
  <2>3. f.fixed <= g.fixed
    <3>1. CASE f.id = None
      BY <1>1, <2>2, <3>1 DEF Finds
    <3>2. CASE f.id # None
      BY <1>1, <3>2 DEF Finds
    <3> QED BY <3>1, <3>2
  <2>4. g.fixed <= f.fixed
    <3>1. CASE g.id = None
      BY <1>1, <2>2, <3>1 DEF Finds
    <3>2. CASE g.id # None
      BY <1>1, <3>2 DEF Finds
    <3> QED BY <3>1, <3>2
  <2> QED BY <2>1, <2>2, <2>3, <2>4
<1>7. [a EXCEPT !.rules = {}] = [b EXCEPT !.rules = {}]
  <2> HIDE DEF a, b, f, g, base
  <2>1. \A best, applied : [LineWith(tier, item, best, cap, applied) EXCEPT !.rules = {}]
                             = LineWith(tier, item, best, cap, {})
    <3> SUFFICES ASSUME NEW best, NEW applied
                 PROVE  [LineWith(tier, item, best, cap, applied) EXCEPT !.rules = {}]
                          = LineWith(tier, item, best, cap, {})
      OBVIOUS
    <3>1. PICK p, v, d, n, t, w : \A r : LineWith(tier, item, best, cap, r)
            = [sku |-> p, base |-> v, disc |-> d, net |-> n, points |-> t, weight |-> w, rules |-> r]
      BY DEF LineWith
    <3> QED BY <3>1, StripRecord
  <2>2. LineWith(tier, item, f, cap, {}) = LineWith(tier, item, g, cap, {})
    BY <1>6, Zenon DEF LineWith
  <2> QED BY <1>5, <2>1, <2>2, Zenon
<1>10. a.sku = b.sku /\ a.net = b.net /\ a.points = b.points /\ a.weight = b.weight
  <2> HIDE DEF a, b, f, g, base
  <2> QED BY <1>5, <1>6 DEF LineWith
<1> HIDE DEF a, b, f, g, stackable, single, base
<1>8. ASSUME NEW x \in Rules, x.id \in a.rules \ b.rules
      PROVE  ~x.stackable /\ Amount("go", base, x) = f.fixed
  <2>1. x.id = f.id /\ f.id # None
    BY <1>3, <1>6, <1>8
  <2>2. PICK r \in single : f.id = r.id /\ f.fixed = Amount("go", base, r)
    BY <1>1, <2>1 DEF Finds
  <2>3. x = r
    BY <1>2, <2>1, <2>2, RulesAssumption
  <2> QED BY <1>2, <2>2, <2>3
<1>9. ASSUME NEW y \in Rules, y.id \in b.rules \ a.rules
      PROVE  ~y.stackable /\ Amount("go", base, y) = g.fixed
  <2>1. y.id = g.id /\ g.id # None
    BY <1>3, <1>6, <1>9
  <2>2. PICK r \in single : g.id = r.id /\ g.fixed = Amount("go", base, r)
    BY <1>1, <2>1 DEF Finds
  <2>3. y = r
    BY <1>2, <2>1, <2>2, RulesAssumption
  <2> QED BY <1>2, <2>2, <2>3
<1> QED
  BY <1>4, <1>6, <1>7, <1>8, <1>9, <1>10 DEF a, b

\* ------------------------------------------------------------------------
\* The split of the coupon's discount

\* Among the lines one is the first of the largest.
LEMMA LargestIs ==
  ASSUME NEW nets \in Seq(Nat), nets # <<>>
  PROVE  Largest(nets) \in 1..Len(nets) /\ \A j \in 1..Len(nets) : nets[j] <= nets[Largest(nets)]
<1> DEFINE n == Len(nets)
           First(i, m) == \A j \in 1..m : nets[j] < nets[i] \/ (nets[j] = nets[i] /\ i <= j)
           T == {m \in 0..(n - 1) : \E i \in 1..(m + 1) : First(i, m + 1)}
<1>1. n \in Nat \ {0} /\ DOMAIN nets = 1..n /\ \A i \in 1..n : nets[i] \in Nat
  OBVIOUS
<1> HIDE DEF n
<1>2. 0 \in T
  <2>1. First(1, 1) /\ 1 \in 1..1 /\ 0 + 1 = 1
    BY <1>1
  <2> QED BY <1>1, <2>1
<1>3. ASSUME NEW m \in 0..((n - 1) - 1), m \in T PROVE m + 1 \in T
  <2> DEFINE k == m + 2
  <2>1. k \in 1..n /\ m + 1 \in 0..(n - 1) /\ (m + 1) + 1 = k /\ 1..k = 1..(m + 1) \cup {k}
    BY <1>1
  <2>2. PICK i \in 1..(m + 1) : First(i, m + 1)
    BY <1>3
  <2>3. i \in 1..n /\ i \in 1..k /\ i < k
    BY <1>1
  <2>4. CASE nets[k] <= nets[i]
    <3>1. First(i, k)
      BY <1>1, <2>1, <2>2, <2>3, <2>4
    <3> QED BY <2>1, <2>3, <3>1
  <2>5. CASE nets[i] < nets[k]
    <3>1. First(k, k)
      <4> SUFFICES ASSUME NEW j \in 1..k PROVE nets[j] < nets[k] \/ (nets[j] = nets[k] /\ k <= j)
        OBVIOUS
      <4>1. j \in 1..n /\ (j = k \/ j \in 1..(m + 1))
        BY <1>1, <2>1
      <4>2. CASE j = k
        BY <2>1, <4>2
      <4>3. CASE j \in 1..(m + 1)
        <5>1. nets[j] <= nets[i]
          BY <1>1, <2>2, <2>3, <4>1, <4>3
        <5>2. nets[j] \in Nat /\ nets[i] \in Nat /\ nets[k] \in Nat
          BY <1>1, <2>1, <2>3, <4>1
        <5>3. nets[j] < nets[k]
          BY <2>5, <5>1, <5>2
        <5> QED BY <5>3
      <4> QED BY <4>1, <4>2, <4>3
    <3>2. k \in 1..k
      BY <2>1
    <3> QED BY <2>1, <3>1, <3>2
  <2> QED BY <1>1, <2>1, <2>3, <2>4, <2>5
<1>4. n - 1 \in T
  <2>1. n - 1 \in Nat
    BY <1>1
  <2> DEFINE last == n - 1
  <2>2. \A m \in 0..last : m \in T
    <3> HIDE DEF T
    <3>1. \A m \in 0..(last - 1) : m \in T => m + 1 \in T
      BY <1>3
    <3> HIDE DEF last
    <3>2. last \in Nat
      BY <2>1 DEF last
    <3> QED BY <1>2, <3>1, <3>2, LoopInduction
  <2> HIDE DEF T
  <2> QED BY <2>1, <2>2
<1>5. \E i \in DOMAIN nets : First(i, n)
  <2> HIDE DEF First
  <2>1. \E i \in 1..((n - 1) + 1) : First(i, (n - 1) + 1)
    BY <1>4
  <2>2. (n - 1) + 1 = n
    BY <1>1
  <2> QED BY <1>1, <2>1, <2>2
<1>6. Largest(nets) \in DOMAIN nets /\ First(Largest(nets), n)
  <2>1. Largest(nets) = CHOOSE i \in DOMAIN nets : First(i, n)
    BY <1>1 DEF Largest
  <2> HIDE DEF First
  <2> QED BY <1>5, <2>1
<1> QED
  BY <1>1, <1>6 DEF n

\* A line's part, rounded down, is at most half of what it costs; together the parts
\* lack less than one cent for each line.
LEMMA PartIs ==
  ASSUME NEW d \in Nat, NEW s \in Nat \ {0}, NEW net \in 0..s, 2 * d <= s + 1
  PROVE  /\ (d * net) \div s \in Nat
         /\ 2 * ((d * net) \div s) <= net + 1
         /\ s * ((d * net) \div s) <= d * net
         /\ d * net <= s * ((d * net) \div s) + (s - 1)
<1>1. d * net \in Nat
  OBVIOUS
<1>2. PICK m \in Nat : m = d * net
  BY <1>1
<1>3. PICK part \in Nat : part = m \div s /\ s * part <= m /\ m <= s * part + (s - 1)
  <2>1. m \div s \in Nat /\ s * (m \div s) <= m /\ m <= s * (m \div s) + (s - 1)
    OBVIOUS
  <2> QED BY <2>1
<1>4. 2 * part <= net + 1
  <2>1. (2 * d) * net <= (s + 1) * net
    OBVIOUS
  <2>2. (2 * d) * net = 2 * m /\ (s + 1) * net = s * net + net
    BY <1>2
  <2>3. 2 * (s * part) <= s * net + s
    <3>1. s * part \in Nat /\ s * net \in Nat
      OBVIOUS
    <3> QED BY <1>3, <2>1, <2>2, <3>1
  <2>4. ~(2 * part >= net + 2)
    <3> SUFFICES ASSUME 2 * part >= net + 2 PROVE FALSE
      OBVIOUS
    <3>1. s * (2 * part) >= s * (net + 2)
      OBVIOUS
    <3>2. s * (2 * part) = 2 * (s * part) /\ s * (net + 2) = s * net + 2 * s
      OBVIOUS
    <3>3. s * net \in Nat /\ s * part \in Nat
      OBVIOUS
    <3> QED BY <2>3, <3>1, <3>2, <3>3
  <2> QED BY <2>4
<1> QED
  BY <1>2, <1>3, <1>4

LEMMA ListIs ==
  ASSUME NEW k \in Nat, NEW f, f = [i \in 1..k |-> f[i]], \A i \in 1..k : f[i] \in Nat
  PROVE  f \in Seq(Nat) /\ f \in Seq(Int) /\ Len(f) = k /\ DOMAIN f = 1..k
<1>1. f \in [1..k -> Nat] /\ f \in [1..k -> Int]
  <2>1. \A i \in 1..k : f[i] \in Int
    OBVIOUS
  <2> QED BY <2>1
<1>2. \A S : f \in [1..k -> S] => f \in Seq(S) /\ Len(f) = k
  OBVIOUS
<1> QED
  BY <1>1, <1>2

LEMMA NoShares ==
  ASSUME NEW k \in Nat
  PROVE  [i \in 1..k |-> 0] \in Seq(Nat) /\ Len([i \in 1..k |-> 0]) = k /\ SumOf([i \in 1..k |-> 0]) = 0
<1> DEFINE z == [i \in 1..k |-> 0]
<1> DEFINE none == 0
<1>1. z \in Seq(Nat) /\ z \in Seq(Int) /\ Len(z) = k /\ Scaled(1, z, none, z, none)
  BY DEF Scaled
<1> HIDE DEF z
<1>2. 1 * SumOf(z) <= none * SumOf(z) + Len(z) * none
  <2> DEFINE one == 1
  <2>1. one \in Int /\ none \in Int /\ Scaled(one, z, none, z, none)
    BY <1>1
  <2> HIDE DEF one, none
  <2>2. one * SumOf(z) <= none * SumOf(z) + Len(z) * none
    BY <1>1, <2>1, SumScaled
  <2> QED BY <2>2 DEF one
<1>3. SumOf(z) \in Nat
  BY <1>1, SumNat
<1>4. SumOf(z) = 0
  BY <1>1, <1>2, <1>3
<1> QED
  BY <1>1, <1>4 DEF z

\* The shares are natural numbers that add up to the discount, and no line's is more
\* than it costs: what the parts lack goes to the largest line, which has room for it.
LEMMA SharesAre ==
  ASSUME NEW nets \in Seq(Nat), NEW d \in Nat, 2 * d <= SumOf(nets) + 1,
         NEW m \in 1..Len(nets), 2 * Len(nets) <= nets[m]
  PROVE  LET shares == Shares(nets, d, SumOf(nets)) IN
         /\ shares \in Seq(Nat) /\ Len(shares) = Len(nets)
         /\ SumOf(shares) = d
         /\ \A i \in 1..Len(nets) : shares[i] <= nets[i]
<1> DEFINE k == Len(nets)
           s == SumOf(nets)
           shares == Shares(nets, d, s)
<1>1. /\ k \in Nat \ {0} /\ DOMAIN nets = 1..k /\ nets \in Seq(Int) /\ nets # <<>>
      /\ \A i \in 1..k : nets[i] \in Nat
  OBVIOUS
<1>2. s \in Nat /\ \A i \in 1..k : nets[i] <= s
  BY SumNat
<1>3. CASE ~(d > 0 /\ s > 0)
  <2>1. d = 0
    BY <1>2, <1>3
  <2>2. shares = [i \in 1..k |-> 0]
    BY <1>1, <1>3 DEF Shares
  <2>3. shares \in Seq(Nat) /\ Len(shares) = k /\ SumOf(shares) = 0 /\ \A i \in 1..k : shares[i] = 0
    <3> HIDE DEF shares, k
    <3> QED BY <1>1, <2>2, NoShares
  <2> HIDE DEF shares, k
  <2>4. \A i \in 1..k : shares[i] <= nets[i]
    BY <1>1, <2>3
  <2> QED BY <2>1, <2>3, <2>4 DEF shares, k
<1>4. CASE d > 0 /\ s > 0
  <2> DEFINE down == Down(nets, d, s)
             l == Largest(nets)
             rest == d - SumOf(down)
  <2>1. \A i \in 1..k : /\ down[i] \in Nat /\ 2 * down[i] <= nets[i] + 1
                        /\ s * down[i] <= d * nets[i] /\ d * nets[i] <= s * down[i] + (s - 1)
    <3> SUFFICES ASSUME NEW i \in 1..k
                 PROVE  /\ down[i] \in Nat /\ 2 * down[i] <= nets[i] + 1
                        /\ s * down[i] <= d * nets[i] /\ d * nets[i] <= s * down[i] + (s - 1)
      OBVIOUS
    <3>1. down[i] = (d * nets[i]) \div s
      BY <1>1 DEF Down
    <3>2. s \in Nat \ {0} /\ nets[i] \in 0..s
      BY <1>1, <1>2, <1>4
    <3> HIDE DEF down, s
    <3> QED BY <3>1, <3>2, PartIs DEF s
  <2>2. down \in Seq(Nat) /\ Len(down) = k /\ DOMAIN down = 1..k /\ down \in Seq(Int)
    <3>1. down = [i \in 1..k |-> down[i]]
      BY <1>1 DEF Down
    <3>2. k \in Nat /\ \A i \in 1..k : down[i] \in Nat
      BY <1>1, <2>1
    <3> HIDE DEF down, k
    <3> QED BY <3>1, <3>2, ListIs
  <2>3. shares = [down EXCEPT ![l] = @ + d - SumOf(down)]
    BY <1>4 DEF Shares
  <2>4. l \in 1..k /\ \A j \in 1..k : nets[j] <= nets[l]
    BY <1>1, LargestIs
  <2>5. 2 * k <= nets[m] /\ m \in 1..k /\ 2 * d <= s + 1
    OBVIOUS
  <2> HIDE DEF shares, down, l, k
  <2>6. SumOf(down) \in Nat
    BY <2>2, SumNat
  <2>7. s * SumOf(down) <= d * s
    <3> DEFINE none == 0
    <3>1. none \in Int /\ \A i \in 1..Len(down) : s * down[i] <= d * nets[i] + none
      <4> SUFFICES ASSUME NEW i \in 1..k PROVE s * down[i] <= d * nets[i] + none
        BY <2>2
      <4>1. s * down[i] \in Int /\ d * nets[i] \in Int /\ s * down[i] <= d * nets[i]
        <5> HIDE DEF s
        <5>1. PICK x, y, z \in Nat : x = down[i] /\ y = nets[i] /\ z = s
          BY <1>1, <1>2, <2>1
        <5>2. z * x \in Int /\ d * y \in Int /\ s * down[i] <= d * nets[i]
          BY <2>1
        <5> QED BY <5>1, <5>2
      <4> QED BY <4>1
    <3>2. Len(nets) = Len(down) /\ s \in Int /\ d \in Int
      BY <1>2, <2>2 DEF k
    <3> HIDE DEF none, s
    <3>3. Scaled(s, down, d, nets, none)
      BY <3>1 DEF Scaled
    <3>5. s * SumOf(down) <= d * SumOf(nets) + Len(down) * none
      BY <1>1, <2>2, <3>1, <3>2, <3>3, SumScaled
    <3>4. Len(down) * 0 = 0 /\ d * s \in Nat
      BY <1>1, <1>2, <2>2
    <3> QED BY <3>4, <3>5 DEF none, s
  <2>8. d * s <= s * SumOf(down) + k * (s - 1)
    <3> DEFINE less == s - 1
    <3>1. less \in Int /\ \A i \in 1..Len(nets) : d * nets[i] <= s * down[i] + less
      BY <1>2, <2>1 DEF k
    <3>2. Len(nets) = Len(down) /\ s \in Int /\ d \in Int
      BY <1>2, <2>2 DEF k
    <3> HIDE DEF less, s
    <3>3. Scaled(d, nets, s, down, less)
      BY <3>1 DEF Scaled
    <3>4. d * SumOf(nets) <= s * SumOf(down) + Len(nets) * less
      BY <1>1, <2>2, <3>1, <3>2, <3>3, SumScaled
    <3> QED BY <3>4 DEF less, s, k
  <2>9. rest \in 0..(k - 1)
    <3> DEFINE t == SumOf(down)
    <3> HIDE DEF s
    <3>1. t \in Nat /\ s \in Nat \ {0} /\ s * t <= d * s /\ d * s <= s * t + k * (s - 1)
      BY <1>2, <1>4, <2>6, <2>7, <2>8
    <3> HIDE DEF t
    <3>2. d - t \in Int /\ s * (d - t) = d * s - s * t
      BY <3>1
    <3>3. s * (d - t) >= 0 /\ s * (d - t) <= k * s - k
      <4>1. d * s \in Nat /\ s * t \in Nat /\ k * s \in Nat /\ k * (s - 1) = k * s - k
        BY <1>1, <3>1
      <4> QED BY <1>1, <3>1, <3>2, <4>1
    <3>4. d - t >= 0
      <4> SUFFICES ASSUME d - t <= -1 PROVE FALSE
        BY <3>2
      <4>1. s * (d - t) <= s * (-1)
        BY <3>1, <3>2
      <4> QED BY <3>1, <3>3, <4>1
    <3>5. d - t < k
      <4> SUFFICES ASSUME d - t >= k PROVE FALSE
        BY <1>1, <3>2
      <4>1. s * (d - t) >= s * k
        BY <1>1, <3>1, <3>2
      <4>2. s * k \in Nat /\ s * k = k * s
        BY <1>1, <3>1
      <4>3. s * (d - t) \in Int /\ k \in Nat /\ k > 0
        BY <1>1, <3>1, <3>2
      <4> QED BY <3>3, <4>1, <4>2, <4>3
    <3> QED BY <1>1, <3>2, <3>4, <3>5 DEF t
  <2> HIDE DEF s
  <2>10. \A i \in 1..k : shares[i] = IF i = l THEN down[i] + rest ELSE down[i]
    <3>1. down[l] + d - SumOf(down) = down[l] + rest
      BY <2>1, <2>4, <2>6
    <3> HIDE DEF rest
    <3> QED BY <2>2, <2>3, <2>4, <3>1
  <2> HIDE DEF rest
  <2>11. \A i \in 1..k : shares[i] \in Nat /\ shares[i] <= nets[i]
    <3> SUFFICES ASSUME NEW i \in 1..k PROVE shares[i] \in Nat /\ shares[i] <= nets[i]
      OBVIOUS
    <3>1. down[i] \in Nat /\ nets[i] \in Nat /\ 2 * down[i] <= nets[i] + 1
      BY <1>1, <2>1
    <3>2. CASE i # l
      <4>1. shares[i] = down[i]
        BY <2>10, <3>2
      <4>2. PICK x, y \in Nat : x = down[i] /\ y = nets[i] /\ 2 * x <= y + 1
        BY <3>1
      <4>3. x <= y
        BY <4>2, SMTT(30)
      <4> QED BY <4>1, <4>2, <4>3
    <3>3. CASE i = l
      <4>1. 2 * k <= nets[i]
        <5>1. nets[m] <= nets[l] /\ nets[m] \in Nat /\ nets[l] \in Nat /\ 2 * k <= nets[m]
          BY <1>1, <2>4, <2>5
        <5> QED BY <1>1, <3>3, <5>1
      <4>2. shares[i] = down[i] + rest /\ rest \in Nat /\ rest <= k - 1
        BY <1>1, <2>9, <2>10, <3>3
      <4>3. PICK x, y, z \in Nat : x = down[i] /\ y = nets[i] /\ z = k
        BY <1>1, <3>1
      <4>4. 2 * x <= y + 1 /\ 2 * z <= y /\ rest <= z - 1
        BY <3>1, <4>1, <4>2, <4>3
      <4>5. x + rest \in Nat /\ x + rest <= y
        BY <4>2, <4>4
      <4> QED BY <4>2, <4>3, <4>5, Zenon
    <3> QED BY <3>2, <3>3
  <2>12. shares \in Seq(Nat) /\ shares \in Seq(Int) /\ Len(shares) = k
    <3>1. shares = [i \in 1..k |-> shares[i]]
      BY <2>2, <2>3
    <3>2. k \in Nat /\ \A i \in 1..k : shares[i] \in Nat
      BY <1>1, <2>11
    <3> QED BY <3>1, <3>2, ListIs
  <2>13. SumOf(shares) = d
    <3>1. /\ rest \in Int /\ Len(shares) = Len(down) /\ l \in 1..Len(down)
          /\ \A i \in 1..Len(down) : shares[i] = IF i = l THEN down[i] + rest ELSE down[i]
      BY <2>2, <2>4, <2>9, <2>10, <2>12
    <3>2. SumOf(shares) = SumOf(down) + rest
      <4> HIDE DEF rest
      <4> QED BY <2>2, <2>12, <3>1, SumExcept
    <3> QED BY <2>6, <3>2 DEF rest
  <2> QED BY <2>11, <2>12, <2>13 DEF shares, k, s
<1> QED
  BY <1>3, <1>4

\* ------------------------------------------------------------------------
\* Invoices

LEMMA CartIs ==
  ASSUME NEW q \in Requests
  PROVE  /\ Len(q.cart) \in Nat \ {0} /\ DOMAIN q.cart = 1..Len(q.cart)
         /\ \A i \in 1..Len(q.cart) : Base(q.cart[i]) \in Nat
         /\ \E i \in 1..Len(q.cart) : 5 * Len(q.cart) <= Base(q.cart[i])
<1> DEFINE k == Len(q.cart)
<1>1. q.cart \in Seq(ToSet(q.cart))
  BY CartsAssumption
<1>2. k \in Nat /\ DOMAIN q.cart = 1..k /\ \A i \in 1..k : q.cart[i] \in ToSet(q.cart)
  BY <1>1 DEF ToSet
<1>3. \E i \in 1..k : 5 * k <= Base(q.cart[i])
  <2>1. PICK item \in ToSet(q.cart) : 5 * k <= Base(item)
    BY CartsAssumption DEF Base
  <2>2. PICK i \in 1..k : q.cart[i] = item
    BY <1>2 DEF ToSet
  <2> QED BY <2>1, <2>2
<1>4. ASSUME NEW i \in 1..k PROVE Base(q.cart[i]) \in Nat
  <2>1. q.cart[i].sku \in DOMAIN Product /\ q.cart[i].qty \in Nat
    BY <1>2, CartsAssumption
  <2>2. Product[q.cart[i].sku].price \in Nat
    BY <2>1, ProductsAssumption
  <2> QED BY <2>1, <2>2 DEF Base
<1> HIDE DEF k
<1>5. k \in Nat \ {0}
  BY <1>2, <1>3
<1> QED
  BY <1>2, <1>3, <1>4, <1>5 DEF k

\* What a line keeps, in any engine.
LEMMA LinesAre ==
  ASSUME NEW e \in Engines, NEW rules \in RuleOrders, NEW q \in Requests, NEW k, k = Len(q.cart), NEW lines,
         lines = Lines(e, rules, q)
  PROVE  /\ k \in Nat \ {0} /\ DOMAIN lines = 1..k /\ lines = Lines("go", rules, q)
         /\ \A i \in 1..k : /\ lines[i] = Line("go", rules, q.tier, q.cart[i])
                            /\ lines[i].net \in Nat /\ 10 * lines[i].net >= 4 * lines[i].base - 5
                            /\ lines[i].sku = q.cart[i].sku
         /\ Nets(lines) \in Seq(Nat) /\ Len(Nets(lines)) = k /\ DOMAIN Nets(lines) = 1..k
         /\ \A i \in 1..k : Nets(lines)[i] = lines[i].net
         /\ \E m \in 1..k : 2 * k <= Nets(lines)[m]
<1>1. /\ k \in Nat \ {0} /\ DOMAIN q.cart = 1..k
      /\ \A i \in 1..k : Base(q.cart[i]) \in Nat
  BY CartIs
<1>2. PICK m \in 1..k : 5 * k <= Base(q.cart[m])
  BY CartIs
<1>3. lines = [i \in 1..k |-> Line(e, rules, q.tier, q.cart[i])]
  BY <1>1 DEF Lines
<1>4. \A i \in 1..k : Line(e, rules, q.tier, q.cart[i]) = Line("go", rules, q.tier, q.cart[i])
  BY <1>1, LineAgrees
<1>5. lines = Lines("go", rules, q)
  BY <1>1, <1>3, <1>4 DEF Lines
<1>6. ASSUME NEW i \in 1..k
      PROVE  /\ lines[i] = Line(e, rules, q.tier, q.cart[i])
             /\ lines[i].net \in Nat /\ 10 * lines[i].net >= 4 * lines[i].base - 5
             /\ lines[i].sku = q.cart[i].sku
             /\ 5 * k <= Base(q.cart[i]) => 2 * k <= lines[i].net
  <2> DEFINE item == q.cart[i]
             tier == q.tier
  <2>1. lines[i] = Line(e, rules, tier, item)
    BY <1>3
  <2>2. Base(item) \in Nat
    BY <1>1
  <2> HIDE DEF item, tier
  <2>3. /\ lines[i].net \in Nat /\ 10 * lines[i].net >= 4 * lines[i].base - 5
        /\ lines[i].sku = item.sku
        /\ 5 * k <= Base(item) => 2 * k <= lines[i].net
    <3>1. PICK line : line = lines[i]
      OBVIOUS
    <3>2. line = Line(e, rules, tier, item) /\ k \in Nat \ {0}
      BY <1>1, <2>1, <3>1
    <3>3. /\ line.net \in Nat /\ 10 * line.net >= 4 * line.base - 5
          /\ line.sku = item.sku /\ line.base = Base(item)
      BY <2>2, <3>2, LineIs
    <3>4. 5 * k <= Base(item) => 2 * k <= line.net
      BY <2>2, <3>2, <3>3, SMTT(30)
    <3> QED BY <3>1, <3>3, <3>4, Zenon
  <2> QED BY <2>1, <2>3 DEF item, tier
<1> DEFINE nets == Nets(lines)
<1>7. nets = [i \in 1..k |-> nets[i]] /\ \A i \in 1..k : nets[i] = lines[i].net
  BY <1>3 DEF Nets
<1>8. \A i \in 1..k : nets[i] \in Nat
  BY <1>6, <1>7
<1> HIDE DEF nets
<1>9. nets \in Seq(Nat) /\ Len(nets) = k /\ DOMAIN nets = 1..k
  BY <1>1, <1>7, <1>8, ListIs
<1>10. 2 * k <= nets[m]
  BY <1>2, <1>6, <1>7
<1>11. DOMAIN lines = 1..k
  BY <1>3
<1> QED
  BY <1>1, <1>4, <1>5, <1>6, <1>7, <1>9, <1>10, <1>11 DEF nets

\* A coupon takes off half of the subtotal at most, rounded up.
LEMMA DiscountIs ==
  ASSUME NEW e, NEW q \in Requests, NEW subtotal \in Nat
  PROVE  /\ CouponDiscount(e, q.coupon, subtotal) = CouponDiscount("go", q.coupon, subtotal)
         /\ CouponDiscount(e, q.coupon, subtotal) \in Nat
         /\ 2 * CouponDiscount(e, q.coupon, subtotal) <= subtotal + 1
<1> DEFINE c == q.coupon
<1>1. CASE c = None \/ (c # None /\ Reject(c, subtotal) # None)
  <2>1. \A d : CouponDiscount(d, c, subtotal) = 0
    BY <1>1, Zenon DEF CouponDiscount
  <2> QED BY <2>1
<1>2. CASE ~(c = None \/ (c # None /\ Reject(c, subtotal) # None))
  <2>1. c.bp \in Nat /\ c.bp <= 5000 /\ c.max \in Nat
    BY <1>2, CouponsAssumption
  <2> HIDE DEF c
  <2>2. PICK off \in Nat : \A d : MulBP(d, subtotal, c.bp) = off
    <3>1. c.bp \in Nat
      BY <2>1
    <3>2. \A d : MulBP(d, subtotal, c.bp) = MulBP("go", subtotal, c.bp)
      BY <3>1, MulBPIs
    <3>3. MulBP("go", subtotal, c.bp) \in Nat
      BY <3>1, MulBPIs
    <3> QED BY <3>2, <3>3
  <2>3. 10000 * off <= subtotal * c.bp + 5000
    <3>1. c.bp \in Nat
      BY <2>1
    <3>2. 10000 * MulBP("go", subtotal, c.bp) <= subtotal * c.bp + 5000
      BY <3>1, MulBPIs
    <3> QED BY <2>2, <3>2
  <2>4. 2 * off <= subtotal + 1
    <3>1. PICK bp \in Nat : bp = c.bp /\ bp <= 5000
      BY <2>1
    <3>2. subtotal * bp <= subtotal * 5000 /\ subtotal * bp \in Nat
      BY <3>1
    <3>3. PICK x \in Nat : x = subtotal * bp
      BY <3>2
    <3>4. 10000 * off <= x + 5000 /\ x <= subtotal * 5000
      BY <2>3, <3>1, <3>2, <3>3
    <3> QED BY <3>4
  <2>5. \A d : CouponDiscount(d, c, subtotal) = IF off > c.max THEN c.max ELSE off
    BY <1>2, <2>2 DEF CouponDiscount
  <2>6. (IF off > c.max THEN c.max ELSE off) \in Nat /\ 2 * (IF off > c.max THEN c.max ELSE off) <= subtotal + 1
    <3>1. PICK max \in Nat : max = c.max
      BY <2>1
    <3> QED BY <2>4, <3>1
  <2>7. /\ CouponDiscount(e, c, subtotal) = CouponDiscount("go", c, subtotal)
        /\ CouponDiscount(e, c, subtotal) \in Nat
        /\ 2 * CouponDiscount(e, c, subtotal) <= subtotal + 1
    BY <2>5, <2>6
  <2> QED BY <2>7 DEF c
<1> QED
  BY <1>1, <1>2

\* Taxes, in any engine, are natural numbers: no line is taxed below nothing.
LEMMA TaxesAre ==
  ASSUME NEW e, NEW k \in Nat, NEW lines, NEW shares, DOMAIN lines = 1..k,
         \A i \in 1..k : lines[i].net \in Nat /\ shares[i] \in Nat /\ shares[i] <= lines[i].net
  PROVE  /\ TaxesOn(e, lines, shares) = TaxesOn("go", lines, shares)
         /\ TaxesOn(e, lines, shares) \in Seq(Nat) /\ Len(TaxesOn(e, lines, shares)) = k
         /\ DOMAIN TaxesOn(e, lines, shares) = 1..k
<1> DEFINE taxable(i) == lines[i].net - shares[i]
           rate(i) == RateFor(lines[i].sku)
           taxes == TaxesOn(e, lines, shares)
<1>1. \A d : TaxesOn(d, lines, shares) = [i \in 1..k |-> MulBP(d, taxable(i), rate(i))]
  BY DEF TaxesOn
<1>2. ASSUME NEW i \in 1..k
      PROVE  /\ MulBP(e, taxable(i), rate(i)) = MulBP("go", taxable(i), rate(i))
             /\ MulBP(e, taxable(i), rate(i)) \in Nat
  <2>1. taxable(i) \in Nat /\ rate(i) \in Nat
    BY RateType
  <2> HIDE DEF taxable, rate
  <2> QED BY <2>1, MulBPIs
<1> HIDE DEF taxable, rate
<1>3. taxes = [i \in 1..k |-> taxes[i]] /\ \A i \in 1..k : taxes[i] \in Nat
  BY <1>1, <1>2
<1>4. taxes = TaxesOn("go", lines, shares)
  BY <1>1, <1>2
<1> HIDE DEF taxes
<1>5. taxes \in Seq(Nat) /\ Len(taxes) = k /\ DOMAIN taxes = 1..k
  BY <1>3, ListIs
<1> QED
  BY <1>4, <1>5 DEF taxes

\* An engine's invoice, from amounts in which the engine does not occur.
Parts(rules, q, lines, d, shares, taxes) ==
  /\ lines = Lines("go", rules, q)
  /\ d = CouponDiscount("go", q.coupon, SumOf(Nets(lines)))
  /\ shares = Shares(Nets(lines), d, SumOf(Nets(lines)))
  /\ taxes = TaxesOn("go", lines, shares)

LEMMA PriceIs ==
  ASSUME NEW e \in Engines, NEW rules \in RuleOrders, NEW q \in Requests
  PROVE  \E lines, d, shares, taxes :
           /\ Parts(rules, q, lines, d, shares, taxes)
           /\ Price(e, rules, q) = Bill(q, lines, d, shares, taxes)
           /\ d \in Nat /\ SumOf(shares) = d
           /\ shares \in Seq(Nat) /\ Len(shares) = Len(q.cart)
           /\ \A i \in 1..Len(q.cart) : shares[i] <= lines[i].net
           /\ taxes \in Seq(Nat) /\ Len(taxes) = Len(q.cart)
<1>13. PICK k : k = Len(q.cart)
  OBVIOUS
<1>1. PICK lines : lines = Lines(e, rules, q)
  OBVIOUS
<1>2. PICK nets : nets = Nets(lines)
  OBVIOUS
<1>3. /\ k \in Nat \ {0} /\ DOMAIN lines = 1..k /\ lines = Lines("go", rules, q)
      /\ \A i \in 1..k : lines[i].net \in Nat /\ nets[i] = lines[i].net
      /\ nets \in Seq(Nat) /\ Len(nets) = k
      /\ \E m \in 1..k : 2 * k <= nets[m]
  <2>1. /\ k \in Nat \ {0} /\ DOMAIN lines = 1..k /\ lines = Lines("go", rules, q)
        /\ Nets(lines) \in Seq(Nat) /\ Len(Nets(lines)) = k
    BY <1>1, <1>13, LinesAre
  <2>2. \A i \in 1..k : lines[i].net \in Nat /\ Nets(lines)[i] = lines[i].net
    BY <1>1, <1>13, LinesAre
  <2>3. \E m \in 1..k : 2 * k <= Nets(lines)[m]
    BY <1>1, <1>13, LinesAre
  <2> QED BY <1>2, <2>1, <2>2, <2>3, Zenon
<1>4. SumOf(nets) \in Nat
  BY <1>3, SumNat
<1>5. PICK d \in Nat : /\ d = CouponDiscount(e, q.coupon, SumOf(nets))
                       /\ d = CouponDiscount("go", q.coupon, SumOf(nets))
                       /\ 2 * d <= SumOf(nets) + 1
  BY <1>4, DiscountIs
<1>6. PICK shares : shares = Shares(nets, d, SumOf(nets))
  OBVIOUS
<1>7. /\ shares \in Seq(Nat) /\ Len(shares) = k /\ SumOf(shares) = d
      /\ \A i \in 1..k : shares[i] <= nets[i]
  <2>1. PICK m \in 1..Len(nets) : 2 * Len(nets) <= nets[m]
    BY <1>3
  <2> QED BY <1>3, <1>5, <1>6, <2>1, SharesAre
<1>8. \A i \in 1..k : shares[i] \in Nat /\ shares[i] <= lines[i].net
  <2> SUFFICES ASSUME NEW i \in 1..k PROVE shares[i] \in Nat /\ shares[i] <= lines[i].net
    OBVIOUS
  <2>1. shares[i] \in Nat
    BY <1>7
  <2>2. shares[i] <= nets[i] /\ nets[i] = lines[i].net
    BY <1>3, <1>7
  <2> QED BY <2>1, <2>2
<1>9. PICK taxes : taxes = TaxesOn(e, lines, shares)
  OBVIOUS
<1>10. taxes = TaxesOn("go", lines, shares) /\ taxes \in Seq(Nat) /\ Len(taxes) = k
  BY <1>3, <1>8, <1>9, TaxesAre
<1>11. Price(e, rules, q) = Bill(q, lines, d, shares, taxes)
  BY <1>1, <1>2, <1>5, <1>6, <1>9 DEF Price
<1>12. Parts(rules, q, lines, d, shares, taxes)
  BY <1>2, <1>3, <1>5, <1>6, <1>10 DEF Parts
<1> QED
  BY <1>5, <1>7, <1>8, <1>10, <1>11, <1>12, <1>13

LEMMA PriceAgrees ==
  ASSUME NEW e \in Engines, NEW rules \in RuleOrders, NEW q \in Requests
  PROVE  Price(e, rules, q) = Price("go", rules, q)
<1>1. "go" \in Engines
  BY DEF Engines
<1>2. PICK l, d, s, t : Parts(rules, q, l, d, s, t) /\ Price(e, rules, q) = Bill(q, l, d, s, t)
  BY PriceIs
<1>3. PICK m, c, r, u : Parts(rules, q, m, c, r, u) /\ Price("go", rules, q) = Bill(q, m, c, r, u)
  BY <1>1, PriceIs
<1>4. l = m /\ d = c /\ s = r /\ t = u
  BY <1>2, <1>3 DEF Parts
<1> QED
  BY <1>2, <1>3, <1>4

\* ------------------------------------------------------------------------
\* The properties of an invoice

LEMMA PriceAddsUp ==
  ASSUME NEW e \in Engines, NEW rules \in RuleOrders, NEW q \in Requests
  PROVE  AddsUp(Price(e, rules, q))
<1>1. PICK k : k = Len(q.cart)
  OBVIOUS
<1>2. PICK lines, d, shares, taxes :
        /\ Parts(rules, q, lines, d, shares, taxes)
        /\ Price(e, rules, q) = Bill(q, lines, d, shares, taxes)
        /\ d \in Nat /\ SumOf(shares) = d
        /\ shares \in Seq(Nat) /\ Len(shares) = k /\ \A i \in 1..k : shares[i] <= lines[i].net
        /\ taxes \in Seq(Nat) /\ Len(taxes) = k
  BY <1>1, PriceIs
<1>3. PICK nets : nets = Nets(lines)
  OBVIOUS
<1>4. /\ k \in Nat \ {0} /\ DOMAIN lines = 1..k
      /\ \A i \in 1..k : lines[i].net \in Nat /\ 10 * lines[i].net >= 4 * lines[i].base - 5
      /\ nets \in Seq(Nat) /\ Len(nets) = k /\ \A i \in 1..k : nets[i] = lines[i].net
  <2>1. "go" \in Engines /\ lines = Lines("go", rules, q)
    BY <1>2 DEF Engines, Parts
  <2>2. /\ k \in Nat \ {0} /\ DOMAIN lines = 1..k
        /\ Nets(lines) \in Seq(Nat) /\ Len(Nets(lines)) = k
    BY <1>1, <2>1, LinesAre
  <2>3. \A i \in 1..k : lines[i].net \in Nat /\ 10 * lines[i].net >= 4 * lines[i].base - 5
    BY <1>1, <2>1, LinesAre, SMTT(30)
  <2>4. \A i \in 1..k : Nets(lines)[i] = lines[i].net
    BY <1>1, <2>1, LinesAre
  <2> QED BY <1>3, <2>2, <2>3, <2>4, Zenon
<1>5. PICK shipping : /\ shipping \in Nat
                      /\ LET b == Bill(q, lines, d, shares, taxes) IN
                         /\ b.lines = lines /\ b.shares = shares /\ b.taxes = taxes /\ b.discount = d
                         /\ b.shipping = shipping /\ b.total = SumOf(nets) - d + SumOf(taxes) + shipping
  <2>1. \A w : ShippingFor(w) \in Nat
    BY DEF ShippingFor
  <2>2. \A s, f, w : (IF s >= f THEN 0 ELSE ShippingFor(w)) \in Nat
    BY <2>1
  <2> QED BY <1>3, <2>2 DEF Bill
<1> DEFINE paid == [i \in 1..k |-> lines[i].net - shares[i] + taxes[i]]
<1>6. SumOf(paid) = SumOf(nets) - SumOf(shares) + SumOf(taxes)
  <2>1. nets \in Seq(Int) /\ shares \in Seq(Int) /\ taxes \in Seq(Int)
    BY <1>2, <1>4
  <2>2. \A i \in 1..k : lines[i].net - shares[i] + taxes[i] \in Int /\ paid[i] = nets[i] - shares[i] + taxes[i]
    <3> SUFFICES ASSUME NEW i \in 1..k
                 PROVE  lines[i].net - shares[i] + taxes[i] \in Int /\ paid[i] = nets[i] - shares[i] + taxes[i]
      OBVIOUS
    <3>3. lines[i].net \in Nat
      BY <1>4
    <3>4. shares[i] \in Nat /\ taxes[i] \in Nat
      BY <1>2, <1>4
    <3>1. PICK x, y, z \in Nat : x = lines[i].net /\ y = shares[i] /\ z = taxes[i]
      BY <3>3, <3>4
    <3>2. paid[i] = x - y + z /\ nets[i] = x
      BY <1>4, <3>1
    <3> QED BY <3>1, <3>2
  <2>3. paid \in [1..k -> Int] /\ Len(paid) = k
    BY <1>4, <2>2
  <2>4. paid \in Seq(Int)
    <3> HIDE DEF paid
    <3> QED BY <1>4, <2>3
  <2> HIDE DEF paid
  <2>5. /\ Len(shares) = Len(nets) /\ Len(taxes) = Len(nets) /\ Len(paid) = Len(nets)
        /\ Combined(paid, nets, shares, taxes)
    BY <1>2, <1>4, <2>2, <2>3 DEF Combined
  <2> QED BY <2>1, <2>4, <2>5, SumLinear
<1>7. SumOf(nets) \in Nat /\ SumOf(taxes) \in Nat
  BY <1>2, <1>4, SumNat
<1>8. SumOf(nets) - d + SumOf(taxes) + shipping = SumOf(paid) + shipping
  BY <1>2, <1>6
<1>9. \A i \in 1..k : shares[i] \in 0..lines[i].net
  BY <1>2, <1>4, SMTT(30)
<1>10. PICK b : b = Bill(q, lines, d, shares, taxes)
  OBVIOUS
<1>11. paid = [i \in DOMAIN b.lines |-> b.lines[i].net - b.shares[i] + b.taxes[i]]
  BY <1>4, <1>5, <1>10
<1> HIDE DEF paid
<1>12. AddsUp(b)
  <2>1. SumOf(b.shares) = b.discount
    BY <1>2, <1>5, <1>10
  <2>2. \A i \in DOMAIN b.lines : /\ b.shares[i] \in 0..b.lines[i].net
                                  /\ 10 * b.lines[i].net >= 4 * b.lines[i].base - 5
    BY <1>4, <1>5, <1>9, <1>10
  <2>3. b.total = SumOf(paid) + b.shipping
    BY <1>5, <1>8, <1>10
  <2> QED BY <1>11, <2>1, <2>2, <2>3 DEF AddsUp
<1> QED
  BY <1>2, <1>10, <1>12

LEMMA GoLines ==
  ASSUME NEW rules \in RuleOrders, NEW q \in Requests, NEW lines, lines = Lines("go", rules, q)
  PROVE  /\ Len(q.cart) \in Nat \ {0} /\ DOMAIN lines = 1..Len(q.cart)
         /\ \A i \in 1..Len(q.cart) : lines[i] = Line("go", rules, q.tier, q.cart[i])
BY CartIs DEF Lines

\* An invoice from its lines and what they add up to.
BillWith(q, lines, subtotal, weight, points, discount, shares, taxes) ==
  LET shipping == IF subtotal - discount >= q.tier.freeFrom THEN 0 ELSE ShippingFor(weight)
      total == subtotal - discount + SumOf(taxes) + shipping
  IN [lines |-> lines, shares |-> shares, taxes |-> taxes, subtotal |-> subtotal, discount |-> discount,
      rejected |-> IF q.coupon = None THEN None ELSE Reject(q.coupon, subtotal),
      tax |-> SumOf(taxes), shipping |-> shipping, total |-> total,
      points |-> points + IF total >= 50000 THEN q.tier.bonus ELSE 0]

LEMMA BillIsWith ==
  ASSUME NEW q, NEW lines, NEW discount, NEW shares, NEW taxes
  PROVE  Bill(q, lines, discount, shares, taxes)
           = BillWith(q, lines, SumOf(Nets(lines)), SumOf([i \in DOMAIN lines |-> lines[i].weight]),
                      SumOf([i \in DOMAIN lines |-> lines[i].points]), discount, shares, taxes)
BY DEF Bill, BillWith

LEMMA PriceWhateverTheOrder ==
  ASSUME NEW e \in Engines, NEW f \in Engines, NEW rules \in RuleOrders, NEW others \in RuleOrders,
         NEW q \in Requests
  PROVE  SameAmounts(e, Price(e, rules, q), Price(f, others, q))
<1>1. PICK k : k = Len(q.cart)
  OBVIOUS
<1>2. PICK l, d, s, t : Parts(rules, q, l, d, s, t) /\ Price(e, rules, q) = Bill(q, l, d, s, t)
  BY PriceIs
<1>3. PICK m, c, r, u : Parts(others, q, m, c, r, u) /\ Price(f, others, q) = Bill(q, m, c, r, u)
  BY PriceIs
<1>4. "go" \in Engines
  BY DEF Engines
<1>5. /\ k \in Nat \ {0} /\ DOMAIN l = 1..k /\ DOMAIN m = 1..k
      /\ \A i \in 1..k : /\ l[i] = Line("go", rules, q.tier, q.cart[i])
                         /\ m[i] = Line("go", others, q.tier, q.cart[i])
  <2>1. l = Lines("go", rules, q) /\ m = Lines("go", others, q)
    BY <1>2, <1>3 DEF Parts
  <2>2. DOMAIN l = 1..k /\ k \in Nat \ {0} /\ \A i \in 1..k : l[i] = Line("go", rules, q.tier, q.cart[i])
    BY <1>1, <2>1, GoLines
  <2>3. DOMAIN m = 1..k /\ \A i \in 1..k : m[i] = Line("go", others, q.tier, q.cart[i])
    BY <1>1, <2>1, GoLines
  <2> QED BY <2>2, <2>3
<1>6. ASSUME NEW i \in 1..k
      PROVE  /\ [l[i] EXCEPT !.rules = {}] = [m[i] EXCEPT !.rules = {}]
             /\ l[i].sku = m[i].sku /\ l[i].net = m[i].net /\ l[i].points = m[i].points /\ l[i].weight = m[i].weight
             /\ \A x \in {z \in Rules : z.id \in l[i].rules \ m[i].rules},
                   y \in {z \in Rules : z.id \in m[i].rules \ l[i].rules} :
                  ~x.stackable /\ ~y.stackable /\ Amount("go", l[i].base, x) = Amount("go", l[i].base, y)
  <2>1. PICK item, tier : item = q.cart[i] /\ tier = q.tier
    OBVIOUS
  <2>2. Base(item) \in Nat
    BY <1>1, <2>1, CartIs
  <2>3. l[i] = Line("go", rules, tier, item) /\ m[i] = Line("go", others, tier, item)
    BY <1>5, <2>1
  <2> QED BY <2>2, <2>3, LineWhateverTheOrder
<1>7. Nets(l) = Nets(m)
  BY <1>5, <1>6 DEF Nets
<1>8. d = c /\ s = r
  BY <1>2, <1>3, <1>7 DEF Parts
<1>9. \A i \in 1..k : l[i].base \in Nat
  <2>1. \A i \in 1..k : l[i].base = Base(q.cart[i]) /\ Base(q.cart[i]) \in Nat
    <3> SUFFICES ASSUME NEW i \in 1..k PROVE l[i].base = Base(q.cart[i]) /\ Base(q.cart[i]) \in Nat
      OBVIOUS
    <3>1. Base(q.cart[i]) \in Nat
      BY <1>1, CartIs
    <3> QED BY <1>4, <1>5, <3>1, LineIs
  <2> QED BY <2>1
<1>10. t = u
  <2>1. t = TaxesOn("go", l, s) /\ u = TaxesOn("go", m, s)
    BY <1>2, <1>3, <1>8 DEF Parts
  <2> QED BY <1>5, <1>6, <2>1 DEF TaxesOn
<1>11. /\ [i \in DOMAIN l |-> l[i].weight] = [i \in DOMAIN m |-> m[i].weight]
       /\ [i \in DOMAIN l |-> l[i].points] = [i \in DOMAIN m |-> m[i].points]
       /\ [i \in DOMAIN l |-> [l[i] EXCEPT !.rules = {}]] = [i \in DOMAIN m |-> [m[i] EXCEPT !.rules = {}]]
  BY <1>5, <1>6
<1>12. PICK sub, weight, points : /\ Bill(q, l, d, s, t) = BillWith(q, l, sub, weight, points, d, s, t)
                                 /\ Bill(q, m, d, s, t) = BillWith(q, m, sub, weight, points, d, s, t)
  BY <1>7, <1>11, BillIsWith
<1>13. PICK a, b : a = Bill(q, l, d, s, t) /\ b = Bill(q, m, d, s, t)
  OBVIOUS
<1>18. \A z, x : LET w == BillWith(q, z, sub, weight, points, d, s, t) IN
         w.lines = z /\ [w EXCEPT !.lines = x] = BillWith(q, x, sub, weight, points, d, s, t)
  BY DEF BillWith
<1>14. a.lines = l /\ b.lines = m
  BY <1>12, <1>13, <1>18
<1>15. Bare(a) = Bare(b)
  <2>1. PICK x : x = [i \in DOMAIN l |-> [l[i] EXCEPT !.rules = {}]]
    OBVIOUS
  <2>2. Bare(a) = [a EXCEPT !.lines = x]
    BY <1>14, <2>1, Zenon DEF Bare
  <2>3. Bare(b) = [b EXCEPT !.lines = x]
    BY <1>11, <1>14, <2>1, Zenon DEF Bare
  <2>4. [a EXCEPT !.lines = x] = [b EXCEPT !.lines = x]
    BY <1>12, <1>13, <1>18
  <2> QED BY <2>2, <2>3, <2>4
<1>16. ASSUME NEW i \in DOMAIN a.lines,
              NEW x \in {z \in Rules : z.id \in a.lines[i].rules \ b.lines[i].rules},
              NEW y \in {z \in Rules : z.id \in b.lines[i].rules \ a.lines[i].rules}
       PROVE  ~x.stackable /\ ~y.stackable /\ Amount(e, a.lines[i].base, x) = Amount(e, a.lines[i].base, y)
  <2>1. i \in 1..k /\ a.lines[i] = l[i] /\ b.lines[i] = m[i]
    BY <1>5, <1>14
  <2>2. ~x.stackable /\ ~y.stackable /\ Amount("go", l[i].base, x) = Amount("go", l[i].base, y)
    <3>1. /\ x \in {z \in Rules : z.id \in l[i].rules \ m[i].rules}
          /\ y \in {z \in Rules : z.id \in m[i].rules \ l[i].rules}
      BY <2>1
    <3>2. \A v \in {z \in Rules : z.id \in l[i].rules \ m[i].rules},
             w \in {z \in Rules : z.id \in m[i].rules \ l[i].rules} :
             ~v.stackable /\ ~w.stackable /\ Amount("go", l[i].base, v) = Amount("go", l[i].base, w)
      BY <1>6, <2>1, Zenon
    <3> QED BY <3>1, <3>2, Zenon
  <2>3. x \in Rules /\ y \in Rules /\ l[i].base \in Nat
    BY <1>9, <2>1
  <2>4. Amount(e, l[i].base, x) = Amount("go", l[i].base, x) /\ Amount(e, l[i].base, y) = Amount("go", l[i].base, y)
    BY <2>3, AmountIs
  <2> QED BY <2>1, <2>2, <2>4
<1>17. SameAmounts(e, a, b)
  BY <1>15, <1>16, Zenon DEF SameAmounts
<1> QED
  BY <1>2, <1>3, <1>8, <1>10, <1>13, <1>17

\* ------------------------------------------------------------------------
\* The theorems

\* What an engine has returned is the price of the request, with the rules in the
\* order it got them.
PricedAsOrdered ==
  /\ request \in Requests
  /\ order \in [Engines -> RuleOrders \cup {None}]
  /\ DOMAIN invoice = Engines
  /\ \A e \in Done : order[e] \in RuleOrders /\ invoice[e] = Price(e, order[e], request)

THEOREM InvoicesArePrices == Spec => []PricedAsOrdered
<1>1. Init => PricedAsOrdered
  BY DEF Init, PricedAsOrdered, Done
<1>2. PricedAsOrdered /\ [Next]_vars => PricedAsOrdered'
  <2> SUFFICES ASSUME PricedAsOrdered, [Next]_vars PROVE PricedAsOrdered'
    OBVIOUS
  <2>1. ASSUME NEW e \in Engines, Invoice(e) PROVE PricedAsOrdered'
    <3>1. PICK rules \in RuleOrders :
            /\ order' = [order EXCEPT ![e] = rules]
            /\ invoice' = [invoice EXCEPT ![e] = Price(e, rules, request)]
      BY <2>1 DEF Invoice
    <3>2. request' = request
      BY <2>1 DEF Invoice
    <3>3. order' \in [Engines -> RuleOrders \cup {None}] /\ DOMAIN invoice' = Engines
      BY <3>1 DEF PricedAsOrdered
    <3>4. ASSUME NEW f \in Engines, invoice'[f] # None
          PROVE  order'[f] \in RuleOrders /\ invoice'[f] = Price(f, order'[f], request)
      <4>1. CASE f = e
        BY <3>1, <4>1 DEF PricedAsOrdered
      <4>2. CASE f # e
        BY <3>1, <3>4, <4>2 DEF PricedAsOrdered, Done
      <4> QED BY <4>1, <4>2
    <3> QED BY <3>2, <3>3, <3>4 DEF PricedAsOrdered, Done
  <2>2. CASE UNCHANGED vars
    BY <2>2 DEF vars, PricedAsOrdered, Done
  <2> QED BY <2>1, <2>2 DEF Next, Priced
<1> QED
  BY <1>1, <1>2, PTL DEF Spec

\* For every request and all tables, the three engines return the same invoice when
\* they get the rules in the same order.
THEOREM OneEngine == Spec => []EnginesAgree
<1>1. PricedAsOrdered => EnginesAgree
  <2> SUFFICES ASSUME PricedAsOrdered, NEW e \in Done, NEW f \in Done, order[e] = order[f]
               PROVE  invoice[e] = invoice[f]
    BY DEF EnginesAgree
  <2>1. e \in Engines /\ f \in Engines
    BY DEF Done
  <2>2. order[e] \in RuleOrders /\ request \in Requests
    BY DEF PricedAsOrdered
  <2>3. Price(e, order[e], request) = Price(f, order[e], request)
    BY <2>1, <2>2, PriceAgrees
  <2> QED BY <2>3 DEF PricedAsOrdered
<1> QED
  BY <1>1, InvoicesArePrices, PTL

\* In whatever orders the database returns the rules, the amounts are the same.
THEOREM OrderDoesNotMatter == Spec => []AmountsWhateverTheOrder
<1>1. PricedAsOrdered => AmountsWhateverTheOrder
  <2> SUFFICES ASSUME PricedAsOrdered, NEW e \in Done, NEW f \in Done
               PROVE  SameAmounts(e, invoice[e], invoice[f])
    BY DEF AmountsWhateverTheOrder
  <2>1. e \in Engines /\ f \in Engines
    BY DEF Done
  <2>2. order[e] \in RuleOrders /\ order[f] \in RuleOrders /\ request \in Requests
    BY DEF PricedAsOrdered
  <2>3. SameAmounts(e, Price(e, order[e], request), Price(f, order[f], request))
    BY <2>1, <2>2, PriceWhateverTheOrder
  <2> QED BY <2>3 DEF PricedAsOrdered
<1> QED
  BY <1>1, InvoicesArePrices, PTL

\* The coupon's discount is spread whole, within what each line costs, and the total
\* is what the lines add up to.
THEOREM InvoicesAddUp == Spec => []InvoiceAddsUp
<1>1. PricedAsOrdered => InvoiceAddsUp
  <2> SUFFICES ASSUME PricedAsOrdered, NEW e \in Done PROVE AddsUp(invoice[e])
    BY DEF InvoiceAddsUp
  <2>1. e \in Engines
    BY DEF Done
  <2>2. order[e] \in RuleOrders /\ request \in Requests
    BY DEF PricedAsOrdered
  <2>3. AddsUp(Price(e, order[e], request))
    BY <2>1, <2>2, PriceAddsUp
  <2> QED BY <2>3 DEF PricedAsOrdered
<1> QED
  BY <1>1, InvoicesArePrices, PTL

=============================================================================
