------------------------------ MODULE OrderBook ------------------------------
(***************************************************************************)
(* What POST /api/checkout promises to the clients of a service, with no   *)
(* handler, connection, statement or lock in sight: a request is answered  *)
(* once, and an order is placed in one step or not at all.                 *)
(***************************************************************************)
EXTENDS Carts

VARIABLES
    body,       \* the body of each request
    answer,     \* what each request was answered, "none" before
    orders,     \* the requests that placed an order
    reserved,   \* stock promised to orders, by inventory row
    timesUsed   \* uses of each coupon

vars == <<body, answer, orders, reserved, timesUsed>>

Init ==
    /\ body \in [Requests -> Bodies]
    /\ answer = [r \in Requests |-> "none"]
    /\ orders = {}
    /\ reserved = [row \in Rows |-> 0]
    /\ timesUsed = [c \in Coupons |-> 0]

Answer(r, what) ==
    /\ answer[r] = "none"
    /\ answer' = [answer EXCEPT ![r] = what]
    /\ UNCHANGED body

InStock(b, row) == reserved[row] + Want(b, row[2]) <= OnHand[row]

\* A coupon is honoured while uses are left, give or take the transactions that were
\* open when its last use was taken.
Redeem(b) ==
    LET c == b.coupon IN
    /\ c # None
    /\ b.eligible
    /\ timesUsed[c] + 1 <= MaxUses[c] + PoolSize - 1
    /\ timesUsed' = [timesUsed EXCEPT ![c] = @ + 1]

\* The whole cart is in stock and all of it is reserved.  The client may be told of
\* an error even so.
Place(r) ==
    LET b == body[r] IN
    /\ b.kind = "checkout" /\ Found(b) /\ r \notin orders
    /\ \A row \in Wanted(b) : InStock(b, row)
    /\ orders' = orders \cup {r}
    /\ reserved' = [row \in Rows |-> IF row \in Wanted(b)
                                     THEN reserved[row] + Want(b, row[2])
                                     ELSE reserved[row]]
    /\ UNCHANGED timesUsed \/ Redeem(b)
    /\ Answer(r, "ok") \/ Answer(r, "error")

\* Some line of the cart is not carried by the warehouse, or not in stock.
TurnAway(r) ==
    LET b == body[r] IN
    /\ b.kind = "checkout" /\ Found(b)
    /\ \E p \in Asked(b) : LET row == <<b.warehouse, p>> IN
                           row \in Rows => ~InStock(b, row)
    /\ Answer(r, "insufficient_stock")
    /\ UNCHANGED <<orders, reserved, timesUsed>>

Price(r) ==
    /\ body[r].kind = "quote" /\ Found(body[r])
    /\ Answer(r, "ok")
    /\ UNCHANGED <<orders, reserved, timesUsed>>

\* An unknown customer or product, or a failure: nothing is ordered.
Decline(r) ==
    /\ Answer(r, "not_found") \/ Answer(r, "error")
    /\ UNCHANGED <<orders, reserved, timesUsed>>

Next == \E r \in Requests : Place(r) \/ TurnAway(r) \/ Price(r) \/ Decline(r)

Spec == Init /\ [][Next]_vars

=============================================================================
