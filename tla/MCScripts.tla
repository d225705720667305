----------------------------- MODULE MCScripts -----------------------------
(* Five stacks, two seeded orders of two products, and for every script all  *)
(* inputs of a small set.                                                    *)
EXTENDS Scripts

MCSIDS  == <<"axum", "actix", "gin", "bun", "node">>
MCPrice == <<199, 1005>>

LineDraws ==
  {[product |-> 1, qty |-> 1, off |-> 50, rate |-> 75], [product |-> 2, qty |-> 3, off |-> 150, rate |-> 200],
   [product |-> 2, qty |-> 1, off |-> 0, rate |-> 0], [product |-> 1, qty |-> 8, off |-> 100, rate |-> 50]}
Draws ==
  [customer : 1..N_CUSTOMERS, warehouse : {1}, ship : {0, 899}, lines : BoundedSeq(LineDraws, 2) \ {<<>>}]
Checkouts ==
  [commits : BOOLEAN, row : Inventory, coupon : {None, 1}]
AnOrder == [customer |-> 1, warehouse |-> 1, ship |-> 0, lines |-> <<CHOOSE l \in LineDraws : l.qty = 3>>]
Corpus ==
  {d \in [drawn : [1..4 -> 1..N_PRODUCTS], n : 1..2, customer : 1..N_CUSTOMERS,
          warehouse : 1..N_WAREHOUSES, coupon : {None, 1}, qty : {1, 25}] :
     Cardinality(Range(d.drawn)) >= d.n}
Few == {{}, {"axum"}, {"bun", "gin"}, {"actix", "gin", "node"}}
Medians == {<<f, g>> : f \in [Stacks -> 1..3], g \in {[s \in Stacks |-> IF s \in low THEN 1 ELSE 2] : low \in Few}}
Bars    == {r \in [value : {1, 5, 400}, ci : {1, 5, 400} \X {1, 5, 400}] :
              r.ci[1] <= r.value /\ r.value <= r.ci[2]}
Tails   == [Stacks -> {10, 100, 104, 390}]
Stats   ==
  {[median |-> [m \in {"rps", "p99"} |-> IF m = "rps" THEN f ELSE g],
    avgRank |-> [m \in {"p99", "cpu"} |-> IF m = "p99" THEN g ELSE f],
    contrasts |-> [i \in 1..4 |-> [why |-> i, pHolm |-> f[SIDS[i]]]]] :
     f \in [Stacks -> 1..3], g \in {[s \in Stacks |-> IF s \in low THEN 1 ELSE 2] : low \in Few}}
Pieces  == {repl[i].key : i \in DOMAIN repl} \cup {<<"word">>}
Labels  == [items : [1..4 -> 0..8], top : {0}, bottom : {8}, gap : {2}]

Tables  ==
  [tiers : [1..N_CUSTOMERS -> {1, 4, 9, None}], exempt : BOOLEAN, specials : [1..SPECIALS -> 1..N_PRODUCTS],
   samples : [DOMAIN REGIONS -> {s \in [1..SAMPLED -> Range(CATEGORIES)] : IsInjective(s)}]]
Costs   == [Stacks -> {<<1, 400, 90>>, <<400, 400, 1>>, <<90, 1, 1>>, <<3, 2, 400>>}]
MCCategories == <<"grocery", "toys", "books">>
MCRegions    == <<"NG-LA", "DE-BE">>

MCInputs ==
  [reference |-> Tables, costs |-> Costs,
   seed   |-> [1..N_ORDERS -> Draws],
   reset  |-> {[draws |-> <<AnOrder, d>>, checkouts |-> c] :
                 d \in {x \in Draws : x.ship = 0 /\ x.customer = 1}, c \in BoundedSeq(Checkouts, 2)},
   corpus |-> Corpus,
   cells  |-> DOMAIN Profiles,
   holm   |-> [1..4 -> {0, 1, 2, 3, 4, 30}],
   ranks  |-> [medians : Medians, CD : {3, 5, 8}],
   labels |-> Labels,
   bars   |-> [1..3 -> Bars],
   tails  |-> {[p50 |-> [s \in Stacks |-> IF full THEN p99[s] ELSE 10], p99 |-> p99] :
                 p99 \in Tails, full \in BOOLEAN},
   tables |-> Stats,
   paper  |-> BoundedSeq(Pieces, 4)]
MCLabels == [labels |-> Labels]

=============================================================================
