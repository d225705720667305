------------------------------ MODULE Dataset ------------------------------
(***************************************************************************)
(* The data every run faces: the rows db/seed.py writes and db/load.sh     *)
(* copies, what checkouts add to them and bench/reset.sh takes away again, *)
(* and the requests bench/corpus.py draws for them.  What a script draws   *)
(* at random is its input.                                                 *)
(***************************************************************************)
EXTENDS Sums, FiniteSets, SequencesExt

CONSTANTS
  N_CUSTOMERS, N_PRODUCTS, N_WAREHOUSES, N_ORDERS, N_COUPONS,  \* seed.py and corpus.py
  CATEGORIES, REGIONS,  \* sequences; products and customers take them in turn
  SAMPLED, SPECIALS,    \* categories with a tax rate of their own, rules for one SKU
  Price,  \* Price[p]: what seed.py drew for product p
  None

ASSUME SizesAssumption ==
  {N_CUSTOMERS, N_PRODUCTS, N_WAREHOUSES, N_ORDERS, N_COUPONS} \subseteq Nat \ {0}
ASSUME ListsAssumption ==
  /\ IsInjective(CATEGORIES) /\ IsInjective(REGIONS)
  /\ SAMPLED \in 0..Len(CATEGORIES) /\ SPECIALS \in Nat /\ None \notin Range(CATEGORIES)
ASSUME PriceAssumption == Price \in [1..N_PRODUCTS -> Nat]

(***************************************************************************)
(* seed.py.                                                                *)
(***************************************************************************)
Inventory == (1..N_WAREHOUSES) \X (1..N_PRODUCTS)

\* a Pareto draw of at least 1 picks the tier, one in ten is platinum at once
TIERS   == <<"bronze", "silver", "gold", "platinum">>
Tier(d) == 1 + (IF d = None \/ d > 4 THEN 3 ELSE d - 1)

customer(draws) ==
  {[id |-> i, region |-> REGIONS[1 + (i % Len(REGIONS))], tier |-> Tier(draws[i])] : i \in 1..N_CUSTOMERS}
product(exempt) ==
  LET category(i) == CATEGORIES[1 + (i % Len(CATEGORIES))] IN
  {[id |-> i, category |-> category(i), exempt |-> category(i) = "grocery" /\ exempt] : i \in 1..N_PRODUCTS}

\* a rule for each tier and category, the volume breaks, the specials; of the
\* columns a rule may be keyed by only that of its scope is not NULL
rules(specials) ==
  LET Rules(scope, keys) == {[column \in {scope} |-> k] : k \in keys}
  IN Rules("tier", DOMAIN TIERS) \cup Rules("category", Range(CATEGORIES))
       \cup Rules("volume", {3, 5, 10, 25}) \cup Rules("sku", Range(specials))

\* a default rate for each region, and the categories drawn for it with their own
taxes(samples) ==
  {[id |-> (reg - 1) * (SAMPLED + 1) + i, region |-> REGIONS[reg],
    category |-> IF i = 1 THEN None ELSE samples[reg][i - 1]] :
     reg \in DOMAIN REGIONS, i \in 1..(SAMPLED + 1)}

Reference(d) ==
  [customer |-> customer(d.tiers), product |-> product(d.exempt), rules |-> rules(d.specials),
   taxes |-> taxes(d.samples)]

\* a line of a historic order: what is off and the tax rate, per mille, cut
\* to whole cents
Item(iid, oid, l) ==
  LET base == Price[l.product] * l.qty
      disc == (base * l.off) \div 1000
      net  == base - disc
  IN [id |-> iid, order |-> oid, product |-> l.product, qty |-> l.qty, disc |-> disc,
      net |-> net, tax |-> (net * l.rate) \div 1000]

\* the lines of the i-th order; iid runs on through the lines of all orders
LinesBefore(draws, i) == Running([k \in DOMAIN draws |-> Len(draws[k].lines)])[i - 1]
Lines(draws, i) ==
  [l \in DOMAIN draws[i].lines |-> Item(LinesBefore(draws, i) + l, i, draws[i].lines[l])]

\* sub += net; tax += tx
Added_Gross(x) == x.net + x.disc
Added(x) == x.net
Subtotal(draws, i) == LET items == Lines(draws, i) IN SumOf([l \in DOMAIN items |-> Added(items[l])])
TaxTotal(draws, i) == LET items == Lines(draws, i) IN SumOf([l \in DOMAIN items |-> items[l].tax])

\* a header, its items, one loyalty entry for each order
Header(draws, i) ==
  LET sub == Subtotal(draws, i)
      tax == TaxTotal(draws, i)
  IN [id |-> i, order |-> i, customer |-> draws[i].customer, warehouse |-> draws[i].warehouse,
      subtotal |-> sub, tax |-> tax, shipping |-> draws[i].ship, total |-> sub + tax + draws[i].ship,
      points |-> sub \div 100]
Earned(draws, i) ==
  [id |-> i, order |-> i, customer |-> draws[i].customer, points |-> Subtotal(draws, i) \div 100]
Seed(draws) ==
  [orders  |-> {Header(draws, i) : i \in DOMAIN draws},
   items   |-> UNION {Range(Lines(draws, i)) : i \in DOMAIN draws},
   loyalty |-> {Earned(draws, i) : i \in DOMAIN draws}]

(***************************************************************************)
(* The database.                                                           *)
(***************************************************************************)
MaxId(rows) == CHOOSE n \in {r.id : r \in rows} : \A r \in rows : r.id <= n

\* load.sh: the rows, nothing reserved or used, the sequences behind the ids
Load(rows) ==
  [orders |-> rows.orders, items |-> rows.items, loyalty |-> rows.loyalty, ledger |-> {},
   reserved |-> [r \in Inventory |-> 0], used |-> [c \in 1..N_COUPONS |-> 0],
   next |-> [orders |-> MaxId(rows.orders), items |-> MaxId(rows.items),
             loyalty |-> MaxId(rows.loyalty), ledger |-> 0]]

\* a checkout of one line: the ids it takes are gone even if it rolls back
Order(db, c) ==
  LET id == [orders |-> db.next.orders + 1, items |-> db.next.items + 1,
             loyalty |-> db.next.loyalty + 1, ledger |-> db.next.ledger + 1]
      New(n) == IF c.commits THEN {[id |-> n, order |-> id.orders]} ELSE {}
  IN [orders |-> db.orders \cup New(id.orders), items |-> db.items \cup New(id.items),
      loyalty |-> db.loyalty \cup New(id.loyalty), ledger |-> db.ledger \cup New(id.ledger),
      reserved |-> [r \in Inventory |-> db.reserved[r] + IF c.commits /\ r = c.row THEN 1 ELSE 0],
      used |-> [k \in 1..N_COUPONS |-> db.used[k] + IF c.commits /\ k = c.coupon THEN 1 ELSE 0],
      next |-> id]
After(loaded, checkouts) ==
  LET db[i \in 0..Len(checkouts)] == IF i = 0 THEN loaded ELSE Order(db[i - 1], checkouts[i])
  IN db[Len(checkouts)]

\* reset.sh, statement by statement
Seeded(rows) == {r \in rows : r.order <= N_ORDERS}
Delete(db, table) ==
  [db EXCEPT !.orders  = IF table = "orders" THEN Seeded(@) ELSE @,
             !.items   = IF table = "items" THEN Seeded(@) ELSE @,
             !.ledger  = IF table = "ledger" THEN Seeded(@) ELSE @,
             !.loyalty = IF table = "loyalty" THEN Seeded(@) ELSE @]
Deletes_OrderFirst == <<"orders", "items", "ledger", "loyalty">>
Deletes == <<"items", "ledger", "loyalty", "orders">>
Release(db)  == [db EXCEPT !.reserved = [r \in Inventory |-> 0]]
Unuse(db)    == [db EXCEPT !.used = [c \in 1..N_COUPONS |-> 0]]
Rewind(db)   == [db EXCEPT !.next = [orders |-> N_ORDERS, items |-> MaxId(db.items),
                                     loyalty |-> MaxId(db.loyalty), ledger |-> @.ledger]]
\* the databases after each of them
Reset(db) ==
  LET first    == Delete(db, Deletes[1])
      second   == Delete(first, Deletes[2])
      third    == Delete(second, Deletes[3])
      deleted  == Delete(third, Deletes[4])
      released == Release(deleted)
      unused   == Unuse(released)
  IN <<first, second, third, deleted, released, unused, Rewind(unused)>>

(***************************************************************************)
(* corpus.py.                                                              *)
(***************************************************************************)
Quantities == {1, 2, 3, 4, 5, 9, 10, 12, 25, 30}

\* the first n different products of those drawn: picked after each draw
Picked_Repeats(drawn, n) == [i \in 0..Len(drawn) |-> SubSeq(drawn, 1, IF i < n THEN i ELSE n)]
Picked(drawn, n) ==
  LET picked[i \in 0..Len(drawn)] ==
        IF i = 0 THEN <<>>
        ELSE IF Len(picked[i - 1]) = n \/ drawn[i] \in ToSet(picked[i - 1]) THEN picked[i - 1]
        ELSE Append(picked[i - 1], drawn[i])
  IN picked
Cart(drawn, n) == Picked(drawn, n)[Len(drawn)]

Request(d) ==
  LET cart == Cart(d.drawn, d.n) IN
  [customer |-> d.customer, warehouse |-> d.warehouse, coupon |-> d.coupon,
   items |-> [i \in DOMAIN cart |-> [product |-> cart[i], qty |-> d.qty]]]

=============================================================================
