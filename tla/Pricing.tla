------------------------------ MODULE Pricing ------------------------------
(***************************************************************************)
(* The pricing engine, written three times: domain.go, domain.rs and       *)
(* pricing.ts.  Where the three differ an operator takes the engine's name.*)
(* The database returns the discount rules without ORDER BY: each engine   *)
(* gets them in an order of its own.  Amounts are cents and rates basis    *)
(* points; Go computes in 64 bits, TypeScript in doubles (exact below      *)
(* 2^53), Rust in i32 with 64-bit products.                                *)
(***************************************************************************)
EXTENDS Sums, FiniteSets, FiniteSetsExt, SequencesExt

CONSTANTS
  Product,    \* Product[p]: price, weight, category, exempt
  Rules,      \* the active rules: id, scope, key, bp, max, stackable
  RuleOrders, \* orders in which the database may return them
  Taxes,      \* the region's tax rates, in the order returned: category, bp
  Requests,   \* tier, cart and coupon of a request
  None

Engines == {"go", "rust", "ts"}
NoCap   == 2147483647

\* the tables as seed.py fills them: prices, rates and caps are not negative, and
\* a rule's id is its primary key
ASSUME ProductsAssumption == \A p \in DOMAIN Product : Product[p].price \in Nat
ASSUME RulesAssumption ==
  \A r \in Rules : /\ r.bp \in Nat /\ r.max \in Nat /\ r.stackable \in BOOLEAN /\ r.id # None
                   /\ \A s \in Rules : r.id = s.id => r = s
ASSUME OrdersAssumption ==
  \A rules \in RuleOrders : rules \in Seq(Rules) /\ ToSet(rules) = Rules /\ IsInjective(rules)
ASSUME TaxesAssumption == Taxes \in Seq(ToSet(Taxes)) /\ \A t \in ToSet(Taxes) : t.bp \in Nat

\* Every line buys at least one unit, and one of them comes to five cents or more for
\* each line of the cart; a coupon takes off half of the subtotal at most.
ASSUME CartsAssumption ==
  \A q \in Requests :
    /\ q.cart \in Seq(ToSet(q.cart))
    /\ \A item \in ToSet(q.cart) : item.sku \in DOMAIN Product /\ item.qty \in Nat \ {0}
    /\ \E item \in ToSet(q.cart) : 5 * Len(q.cart) <= Product[item.sku].price * item.qty
ASSUME CouponsAssumption ==
  \A q \in Requests : q.coupon # None => q.coupon.bp \in Nat /\ q.coupon.bp <= 5000 /\ q.coupon.max \in Nat

VARIABLES
  request,  \* the request all engines price
  order,    \* order[e]: how engine e got the rules
  invoice   \* invoice[e]: what it returned

vars == <<request, order, invoice>>

Init ==
  /\ request \in Requests
  /\ order = [e \in Engines |-> None]
  /\ invoice = [e \in Engines |-> None]

\* mulBP: base * bp + 5000 divided by 10000, towards zero in Go and Rust and
\* down in TypeScript; base is taken apart to stay within TLC's integers
MulBP_Narrow(e, base, bp) ==
  IF e = "rust" /\ bp > 0 /\ base > (2147483647 - 5000) \div bp THEN 0
  ELSE (base \div 10000) * bp + ((base % 10000) * bp + 5000) \div 10000
MulBP(e, base, bp) ==
  LET rest == (base % 10000) * bp + 5000
      down == (base \div 10000) * bp + rest \div 10000
  IN IF e # "ts" /\ down < 0 /\ rest % 10000 # 0 THEN down + 1 ELSE down

RuleMatches(r, tier, p, qty) ==
  \/ r.scope = "tier" /\ r.key = tier.id
  \/ r.scope = "category" /\ r.key = Product[p].category
  \/ r.scope = "volume" /\ qty >= r.key
  \/ r.scope = "sku" /\ r.key = p

\* the category's own rate, the first found, else the last default
RateFor(p) ==
  LET Of(category) == {i \in DOMAIN Taxes : Taxes[i].category = category}
      own == Of(Product[p].category)
  IN IF Product[p].exempt THEN 0
     ELSE IF own # {} THEN Taxes[Min(own)].bp
     ELSE IF Of(None) # {} THEN Taxes[Max(Of(None))].bp ELSE 0

ShippingFor(weight) ==
  CASE weight <= 500 -> 499
    [] weight > 500 /\ weight <= 2000 -> 899
    [] weight > 2000 /\ weight <= 10000 -> 1499
    [] OTHER -> 2499

\* a non-stackable rule replaces the best so far
Takes_First(e, amt, best) == best.id = None
Takes(e, amt, best) ==
  IF e = "go" THEN amt > best.fixed \/ (amt = best.fixed /\ best.id = None)
  ELSE amt > best.fixed \/ best.id = None

Base(item) == Product[item.sku].price * item.qty

\* what a rule takes off, and the loop over the rules that match: the best of the
\* non-stackable ones and the sum of the stackable ones
Amount(e, base, r) == LET amt == MulBP(e, base, r.bp) IN IF amt > r.max THEN r.max ELSE amt
NoBest == [fixed |-> 0, id |-> None, stacked |-> 0, ids |-> {}]
Try(e, base, best, r) ==
  LET amt == Amount(e, base, r) IN
  IF r.stackable THEN [best EXCEPT !.stacked = @ + amt, !.ids = @ \cup {r.id}]
  ELSE IF Takes(e, amt, best) THEN [best EXCEPT !.fixed = amt, !.id = r.id] ELSE best
Scan(e, rules, tier, item) ==
  LET best[i \in 0..Len(rules)] ==
        IF i = 0 THEN NoBest
        ELSE IF RuleMatches(rules[i], tier, item.sku, item.qty) THEN Try(e, Base(item), best[i - 1], rules[i])
        ELSE best[i - 1]
  IN best[Len(rules)]

\* a line: its discount is at most 60% of its base
Applied(e, rules, tier, item, best) ==
  IF e = "go" THEN best.ids \cup ({best.id} \ {None})
  ELSE {r.id : r \in {r \in ToSet(rules) : /\ RuleMatches(r, tier, item.sku, item.qty)
                                           /\ r.stackable \/ r.id = best.id}}
Line(e, rules, tier, item) ==
  LET base == Base(item)
      best == Scan(e, rules, tier, item)
      cap  == MulBP(e, base, 6000)
      disc == IF best.fixed + best.stacked > cap THEN cap ELSE best.fixed + best.stacked
      net  == base - disc
  IN [sku |-> item.sku, base |-> base, disc |-> disc, net |-> net, points |-> (net \div 100) * tier.multiplier,
      weight |-> Product[item.sku].weight * item.qty, rules |-> Applied(e, rules, tier, item, best)]

Lines(e, rules, q) == [i \in DOMAIN q.cart |-> Line(e, rules, q.tier, q.cart[i])]
Nets(lines) == [i \in DOMAIN lines |-> lines[i].net]

\* why a coupon is not applied, the first reason found
Reject(c, subtotal) ==
  CASE c.expired -> "expired"
    [] ~c.expired /\ c.exhausted -> "exhausted"
    [] ~c.expired /\ ~c.exhausted /\ subtotal < c.min -> "min_spend_not_met"
    [] OTHER -> None
CouponDiscount(e, c, subtotal) ==
  IF c = None \/ (c # None /\ Reject(c, subtotal) # None) THEN 0
  ELSE LET off == MulBP(e, subtotal, c.bp) IN IF off > c.max THEN c.max ELSE off

\* pro-rata split, remainder to the first of the largest lines
Largest(nets) ==
  CHOOSE i \in DOMAIN nets : \A j \in DOMAIN nets : nets[j] < nets[i] \/ (nets[j] = nets[i] /\ i <= j)
Down(nets, discount, subtotal) == [i \in DOMAIN nets |-> (discount * nets[i]) \div subtotal]
Shares_NoRemainder(nets, discount, subtotal) ==
  [i \in DOMAIN nets |-> IF discount > 0 /\ subtotal > 0 THEN (discount * nets[i]) \div subtotal ELSE 0]
Shares(nets, discount, subtotal) ==
  IF discount > 0 /\ subtotal > 0
  THEN LET down == Down(nets, discount, subtotal)
       IN [down EXCEPT ![Largest(nets)] = @ + discount - SumOf(down)]
  ELSE [i \in DOMAIN nets |-> 0]

TaxesOn(e, lines, shares) ==
  [i \in DOMAIN lines |-> MulBP(e, lines[i].net - shares[i], RateFor(lines[i].sku))]

Bill(q, lines, discount, shares, taxes) ==
  LET subtotal == SumOf(Nets(lines))
      weight == SumOf([i \in DOMAIN lines |-> lines[i].weight])
      shipping == IF subtotal - discount >= q.tier.freeFrom THEN 0 ELSE ShippingFor(weight)
      total == subtotal - discount + SumOf(taxes) + shipping
  IN [lines |-> lines, shares |-> shares, taxes |-> taxes, subtotal |-> subtotal, discount |-> discount,
      rejected |-> IF q.coupon = None THEN None ELSE Reject(q.coupon, subtotal),
      tax |-> SumOf(taxes), shipping |-> shipping, total |-> total,
      points |-> SumOf([i \in DOMAIN lines |-> lines[i].points]) + IF total >= 50000 THEN q.tier.bonus ELSE 0]

Price(e, rules, q) ==
  LET lines == Lines(e, rules, q)
      subtotal == SumOf(Nets(lines))
      discount == CouponDiscount(e, q.coupon, subtotal)
      shares == Shares(Nets(lines), discount, subtotal)
  IN Bill(q, lines, discount, shares, TaxesOn(e, lines, shares))

\* an engine prices the request, with the rules as it got them
Invoice(e) ==
  /\ invoice[e] = None
  /\ \E rules \in RuleOrders :
       /\ order' = [order EXCEPT ![e] = rules]
       /\ invoice' = [invoice EXCEPT ![e] = Price(e, rules, request)]
  /\ UNCHANGED request

Priced == (\A e \in Engines : invoice[e] # None) /\ UNCHANGED vars
Next   == Priced \/ \E e \in Engines : Invoice(e)
Spec   == Init /\ [][Next]_vars

Done == {e \in Engines : invoice[e] # None}

\* "All rounding is half-up" (SPEC.md:11): the three engines return the same
\* invoice, the rules it names included, when they get the rules in the same
\* order: by truncation or floor, in 32 or 64 bits, and however the best rule
\* is found.
EnginesAgree ==
  \A e, f \in Done : order[e] = order[f] => invoice[e] = invoice[f]

\* Two invoices without the names of their rules, and what the names may differ by.
Bare(inv) == [inv EXCEPT !.lines = [i \in DOMAIN inv.lines |-> [inv.lines[i] EXCEPT !.rules = {}]]]
SameAmounts(e, inv, other) ==
  /\ Bare(inv) = Bare(other)
  /\ \A i \in DOMAIN inv.lines :
       LET a == inv.lines[i]  b == other.lines[i] IN
       \A x \in {r \in Rules : r.id \in a.rules \ b.rules}, y \in {r \in Rules : r.id \in b.rules \ a.rules} :
         ~x.stackable /\ ~y.stackable /\ Amount(e, a.base, x) = Amount(e, a.base, y)

\* Whatever order the database returns the rules in, each amount of the invoice
\* is the same; only of non-stackable rules with equal amounts the one that is
\* named can differ.
AmountsWhateverTheOrder ==
  \A e, f \in Done : SameAmounts(e, invoice[e], invoice[f])

AddsUp(inv) ==
  LET paid == [i \in DOMAIN inv.lines |-> inv.lines[i].net - inv.shares[i] + inv.taxes[i]]
  IN /\ SumOf(inv.shares) = inv.discount
     /\ \A i \in DOMAIN inv.lines :
          /\ inv.shares[i] \in 0..inv.lines[i].net
          /\ 10 * inv.lines[i].net >= 4 * inv.lines[i].base - 5
     /\ inv.total = SumOf(paid) + inv.shipping

\* The coupon's discount is spread whole, no line gets more of it than it costs,
\* no line is sold below 40% of its base, and the total is what the lines add up
\* to, after their shares and with their taxes.
InvoiceAddsUp == \A e \in Done : AddsUp(invoice[e])

=============================================================================
