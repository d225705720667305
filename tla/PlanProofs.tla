----------------------------- MODULE PlanProofs -----------------------------
(***************************************************************************)
(* Proofs about the plans of bench/run.py: a plan has finitely many load   *)
(* configurations, and its runs have names of their own.                   *)
(***************************************************************************)
EXTENDS Plan, FiniteSetTheorems, TLAPS

\* The part of a result file's name that stands for the load tells the
\* configurations of a profile apart.
LEMMA ConfigNames ==
  ASSUME NEW p \in DOMAIN Profiles, NEW c \in Profiles[p].configs, NEW d \in Profiles[p].configs,
         c[1] = d[1],
         (IF c[3] # 0 THEN c[3] ELSE c[2]) = (IF d[3] # 0 THEN d[3] ELSE d[2])
  PROVE  c = d
<1>1. p \in {"smoke", "quick", "full", "final", "deep"}
  BY DEF Profiles
<1>2. CASE p = "smoke"
  BY <1>2 DEF Profiles
<1>3. CASE p = "quick"
  BY <1>3 DEF Profiles
<1>4. CASE p \in {"full", "final"}
  BY <1>4 DEF Profiles
<1>5. CASE p = "deep"
  BY <1>5 DEF Profiles
<1>6. QED
  BY <1>1, <1>2, <1>3, <1>4, <1>5

\* No two runs of a plan have the same result file.
LEMMA TagsDiffer ==
  ASSUME NEW n, NEW p \in DOMAIN Profiles, NEW S,
         NEW r \in Block(n, p, S), NEW q \in Block(n, p, S),
         Tag(r) = Tag(q)
  PROVE  r = q
<1>1. /\ r.stack = q.stack /\ r.scenario = q.scenario /\ r.rep = q.rep /\ r.config[1] = q.config[1]
      /\ (IF r.config[3] # 0 THEN r.config[3] ELSE r.config[2])
           = (IF q.config[3] # 0 THEN q.config[3] ELSE q.config[2])
  BY DEF Tag
<1>2. r.config \in Profiles[p].configs /\ q.config \in Profiles[p].configs /\ r.plan = n /\ q.plan = n
  BY DEF Block
<1>3. r.config = q.config
  BY <1>1, <1>2, ConfigNames
<1>4. QED
  BY <1>1, <1>2, <1>3 DEF Block

LEMMA ThreeFinite ==
  ASSUME NEW a, NEW b, NEW c
  PROVE  IsFiniteSet({a, b, c})
<1>1. IsFiniteSet({a}) /\ IsFiniteSet({b}) /\ IsFiniteSet({c})
  BY FS_Singleton
<1>2. IsFiniteSet(({a} \cup {b}) \cup {c})
  BY <1>1, FS_Union
<1>3. {a, b, c} = ({a} \cup {b}) \cup {c}
  OBVIOUS
<1>4. QED
  BY <1>2, <1>3

LEMMA ConfigsFinite ==
  ASSUME NEW p \in DOMAIN Profiles
  PROVE  IsFiniteSet(Profiles[p].configs)
<1>1. p \in {"smoke", "quick", "full", "final", "deep"}
  BY DEF Profiles
<1>2. IsFiniteSet(Profiles["smoke"].configs)
  <2>1. Profiles["smoke"].configs = {<<"closed", 32, 0>>}
    BY DEF Profiles
  <2>2. \A x : IsFiniteSet({x})
    BY FS_Singleton
  <2>3. QED
    BY <2>1, <2>2
<1>3. IsFiniteSet(Profiles["quick"].configs)
  <2> DEFINE a == <<"closed", 64, 0>>
             b == <<"open", 64, 400>>
  <2>1. Profiles["quick"].configs = {a, b, b}
    BY DEF Profiles
  <2> HIDE DEF a, b
  <2>2. IsFiniteSet({a, b, b})
    BY ThreeFinite
  <2>3. QED
    BY <2>1, <2>2
<1>4. IsFiniteSet(Profiles["full"].configs) /\ IsFiniteSet(Profiles["final"].configs)
  <2> DEFINE a == <<"closed", 64, 0>>
             b == <<"open", 64, 300>>
             c == <<"open", 128, 900>>
  <2>1. Profiles["full"].configs = {a, b, c} /\ Profiles["final"].configs = {a, b, c}
    BY DEF Profiles
  <2> HIDE DEF a, b, c
  <2>2. IsFiniteSet({a, b, c})
    BY ThreeFinite
  <2>3. QED
    BY <2>1, <2>2
<1>5. IsFiniteSet(Profiles["deep"].configs)
  <2> DEFINE a == <<"closed", 32, 0>>
             b == <<"closed", 64, 0>>
             c == <<"closed", 128, 0>>
             d == <<"open", 64, 200>>
             e == <<"open", 64, 500>>
             f == <<"open", 128, 1000>>
             g == <<"open", 128, 1600>>
  <2>1. Profiles["deep"].configs = ({a, b, c} \cup {d, e, f}) \cup {g, g, g}
    BY DEF Profiles
  <2> HIDE DEF a, b, c, d, e, f, g
  <2>2. IsFiniteSet({a, b, c}) /\ IsFiniteSet({d, e, f}) /\ IsFiniteSet({g, g, g})
    BY ThreeFinite
  <2>3. IsFiniteSet({a, b, c} \cup {d, e, f})
    BY <2>2, FS_Union
  <2>4. IsFiniteSet(({a, b, c} \cup {d, e, f}) \cup {g, g, g})
    BY <2>2, <2>3, FS_Union
  <2>5. QED
    BY <2>1, <2>4
<1>6. QED
  BY <1>1, <1>2, <1>3, <1>4, <1>5

=============================================================================
