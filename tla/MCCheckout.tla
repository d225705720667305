----------------------------- MODULE MCCheckout -----------------------------
(***************************************************************************)
(* Instances of Checkout for TLC: two products, a warehouse that stocks    *)
(* both and one that stocks none, and a coupon with one use left.          *)
(***************************************************************************)
EXTENDS Checkout, TLC

CONSTANTS r1, r2, r3, c1

MCProducts  == {1, 2}
MCCustomers == {1}
MCRows      == {<<1, 1>>, <<1, 2>>}
MCOnHand    == <<1, 1>> :> 3 @@ <<1, 2>> :> 1
MCMaxUses   == c1 :> 1

Line(p, q) == [product |-> p, qty |-> q]
Cart(w, lines, coupon) ==
    [kind |-> "checkout", customer |-> 1, warehouse |-> w, lines |-> lines,
     coupon |-> coupon, eligible |-> TRUE]

\* Two carts that name the same products in opposite orders, and share a coupon.
Ascending  == Cart(1, <<Line(1, 1), Line(2, 1)>>, c1)
Descending == Cart(1, <<Line(2, 1), Line(1, 1)>>, c1)
\* Most of the stock of a product.
TwoOfOne   == Cart(1, <<Line(1, 2)>>, None)
\* A unit of either: two carts whose only row in common is the coupon's.
OneOfOne   == Cart(1, <<Line(1, 1)>>, c1)
OneOfTwo   == Cart(1, <<Line(2, 1)>>, c1)
\* A SKU on two lines, products no row exists for, a product that is unknown.
Repeated   == Cart(1, <<Line(1, 1), Line(1, 1)>>, None)
Elsewhere  == Cart(2, <<Line(1, 1)>>, None)
Unknown    == Cart(1, <<Line(3, 1)>>, None)
JustLooking == [Ascending EXCEPT !.kind = "quote"]

SafetyBodies   == {Ascending, Descending, TwoOfOne, OneOfOne, OneOfTwo, Repeated,
                   Elsewhere, Unknown, JustLooking}
LivenessBodies == {Ascending, Descending, JustLooking}

Interchangeable == Permutations(Requests)
=============================================================================
