----------------------------- MODULE MCPricing -----------------------------
(* Products, tiers and rules as db/seed.py draws them: ties between the      *)
(* silver tier's 4% and a special's, rules enough to pass the 60% cap, a     *)
(* price and a quantity whose product with 6000 basis points exceeds i32.    *)
EXTENDS Pricing

MCProduct ==
  <<[price |-> 199, weight |-> 50, category |-> "grocery", exempt |-> TRUE],
    [price |-> 24999, weight |-> 12000, category |-> "books", exempt |-> FALSE],
    [price |-> 1005, weight |-> 700, category |-> "toys", exempt |-> FALSE]>>

R(id, scope, key, bp, max, stackable) ==
  [id |-> id, scope |-> scope, key |-> key, bp |-> bp, max |-> max, stackable |-> stackable]
ById ==
  <<R(1, "tier", 2, 400, 5000, FALSE), R(2, "tier", 4, 800, 5000, FALSE),
    R(3, "category", "grocery", 500, NoCap, FALSE), R(4, "category", "toys", 700, 8000, TRUE),
    R(5, "volume", 3, 300, 12000, TRUE), R(6, "volume", 25, 1400, 12000, TRUE),
    R(7, "sku", 3, 400, 6000, FALSE), R(8, "sku", 3, 1200, 6000, TRUE),
    R(9, "sku", 3, 1200, 6000, TRUE), R(10, "sku", 3, 1200, 6000, TRUE)>>
MCRules  == ToSet(ById)
MCOrders == {ById, Reverse(ById), SubSeq(ById, 6, 10) \o SubSeq(ById, 1, 5)}
MCTaxes  == <<[category |-> None, bp |-> 750], [category |-> "toys", bp |-> 1200]>>

Silver   == [id |-> 2, multiplier |-> 2, freeFrom |-> 80000, bonus |-> 250]
Platinum == [id |-> 4, multiplier |-> 5, freeFrom |-> 0, bonus |-> 2000]
Coupon(bp, min) == [bp |-> bp, max |-> 2000, min |-> min, expired |-> FALSE, exhausted |-> FALSE]
Coupons  == {Coupon(2000, 0), Coupon(1500, 20000), [Coupon(500, 0) EXCEPT !.expired = TRUE],
             [Coupon(500, 0) EXCEPT !.exhausted = TRUE]}
Items == {[sku |-> s, qty |-> q] : s \in 1..3, q \in {1, 25}} \cup {[sku |-> 3, qty |-> 4]}
MCRequests ==
  [tier : {Silver, Platinum}, coupon : Coupons \cup {None},
   cart : (BoundedSeq(Items, 2) \ {<<>>})
             \cup {<<[sku |-> 1, qty |-> 1], [sku |-> 3, qty |-> 1], [sku |-> 1, qty |-> 1]>>}]

=============================================================================
