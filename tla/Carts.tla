-------------------------------- MODULE Carts --------------------------------
(***************************************************************************)
(* What the store holds that no request changes, what clients ask of it,   *)
(* and what a cart wants of the inventory: the constants of the store's    *)
(* specifications, with the assumptions made of them.                      *)
(***************************************************************************)
EXTENDS Sums, FiniteSets

CONSTANTS
    Requests,    \* the requests in flight; a handler serves one and ends
    Bodies,      \* the request bodies clients send
    Products,    \* ids of the product table
    Customers,   \* ids of the customer table
    Rows,        \* primary keys <<warehouse, product>> of the inventory table
    OnHand,      \* inventory.on_hand of every row; no statement changes it
    Coupons,     \* codes of the coupon table
    MaxUses,     \* coupon.max_uses
    PoolSize,    \* DB_POOL_SIZE: how many transactions the service can have open
    None         \* no coupon in a body, no owner of a lock

Lines == [product : Nat, qty : Nat \ {0}]

BodyType ==
    [kind     : {"quote", "checkout"},
     customer : Nat,
     warehouse: Nat,
     lines    : Seq(Lines) \ {<<>>},   \* the INSERT of no items is an error
     coupon   : Coupons \cup {None},   \* an unknown code reads no row: None
     eligible : BOOLEAN]               \* not expired, minimum spend reached

ASSUME RequestsAssumption == IsFiniteSet(Requests) /\ None \notin Requests
ASSUME BodiesAssumption   == Bodies \subseteq BodyType
ASSUME StockAssumption    == /\ Products \subseteq Nat
                             /\ Rows \subseteq Nat \X Products
                             /\ OnHand \in [Rows -> Nat]
ASSUME CouponsAssumption  == /\ None \notin Coupons
                             /\ MaxUses \in [Coupons -> Nat]
ASSUME PoolAssumption     == PoolSize \in Nat \ {0}

-----------------------------------------------------------------------------
(* Carts *)

Asked(b) == {b.lines[i].product : i \in DOMAIN b.lines}

Occurrences(b, p) == {i \in DOMAIN b.lines : b.lines[i].product = p}

\* want[p.ID] += it.Qty
Want(b, p) == SumOf([i \in DOMAIN b.lines |-> IF b.lines[i].product = p THEN b.lines[i].qty ELSE 0])

Found(b) == b.customer \in Customers /\ Asked(b) \subseteq Products

\* The rows the statements on inventory select.
Wanted(b) == {row \in Rows : row[1] = b.warehouse /\ row[2] \in Asked(b)}

RepeatsSku(b) == \E i, j \in DOMAIN b.lines :
                    i # j /\ b.lines[i].product = b.lines[j].product

=============================================================================
