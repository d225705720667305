------------------------------ MODULE Checkout ------------------------------
(***************************************************************************)
(* POST /api/quote and POST /api/checkout of one benchmark service: its    *)
(* handlers, the connection pool they share and the PostgreSQL rows they   *)
(* read, lock and write.  The five data layers of the repository (pgx and  *)
(* GORM in Go, tokio-postgres in Rust, pg and Bun.sql in TypeScript) run   *)
(* the same statements; `layer' says which of them this service is built   *)
(* on, and the places where they differ are parameters of the actions.     *)
(*                                                                         *)
(* A step is one statement of the transaction (one row of the SELECT ...   *)
(* FOR UPDATE), because another connection may run between any two.        *)
(* PostgreSQL is modelled from how the code uses it: READ COMMITTED, row   *)
(* locks held until the transaction ends, writes visible at COMMIT.        *)
(***************************************************************************)
EXTENDS Carts

CONSTANT Layers  \* the data layers to consider

AllLayers == {"pgx", "gorm", "rust", "pg", "bun"}

ASSUME LayersAssumption == Layers \subseteq AllLayers

-----------------------------------------------------------------------------
VARIABLES
    layer,       \* the data layer of this service
    body,        \* the body of each request
    pc,          \* the next statement of each handler
    outcome,     \* what each handler answers
    conns,       \* requests that hold a connection of the pool
    rowLock,     \* inventory row -> the request that locked it
    couponLock,  \* coupon row -> the request that updated it
    seen,        \* avail[pid] as the handler read it under the lock
    usedSeen,    \* coupon.times_used as the handler read it
    draft,       \* tables with uncommitted rows of a request's order
    booked,      \* uncommitted increments of inventory.reserved
    reserved,    \* inventory.reserved
    timesUsed,   \* coupon.times_used
    stored       \* tables with committed rows of a request's order

config  == <<layer, body>>
locks   == <<rowLock, couponLock>>
private == <<seen, usedSeen, draft, booked>>
tables  == <<reserved, timesUsed, stored>>
vars    == <<config, pc, outcome, conns, locks, private, tables>>

Reading  == {"load", "peek"}
Writing  == {"order", "reserve", "coupon", "points", "commit"}
InDialog == Reading \cup {"lock"} \cup Writing

Tables == {"order", "order_item", "inventory", "ledger_entry", "coupon",
           "loyalty_transaction"}

NothingBooked == [row \in Rows |-> 0]

Init ==
    /\ layer \in Layers
    /\ body \in [Requests -> Bodies]
    /\ pc = [r \in Requests |-> "arrived"]
    /\ outcome = [r \in Requests |-> "none"]
    /\ conns = {}
    /\ rowLock = [row \in Rows |-> None]
    /\ couponLock = [c \in Coupons |-> None]
    /\ seen = [r \in Requests |-> [p \in Products |-> 0]]
    /\ usedSeen = [r \in Requests |-> 0]
    /\ draft = [r \in Requests |-> {}]
    /\ booked = [r \in Requests |-> NothingBooked]
    /\ reserved = [row \in Rows |-> 0]
    /\ timesUsed = [c \in Coupons |-> 0]
    /\ stored = [r \in Requests |-> {}]

-----------------------------------------------------------------------------
(* Ending a handler *)

\* COMMIT and ROLLBACK release every lock; the handler's locals go out of scope
\* and its connection returns to the pool.
Release(r) ==
    /\ rowLock' = [row \in Rows |-> IF rowLock[row] = r THEN None ELSE rowLock[row]]
    /\ couponLock' = [c \in Coupons |->
                        IF couponLock[c] = r THEN None ELSE couponLock[c]]
    /\ conns' = conns \ {r}
    /\ seen' = [seen EXCEPT ![r] = [p \in Products |-> 0]]
    /\ draft' = [draft EXCEPT ![r] = {}]
    /\ booked' = [booked EXCEPT ![r] = NothingBooked]
    /\ pc' = [pc EXCEPT ![r] = "done"]

\* An early return: the ROLLBACK is still to be executed.
Abort(r, why) ==
    /\ pc' = [pc EXCEPT ![r] = "rollback"]
    /\ outcome' = [outcome EXCEPT ![r] = why]
    /\ UNCHANGED <<config, conns, locks, private, tables>>

\* Mutants of Rollback: the UPDATEs of inventory ran outside the transaction; a
\* swallowed error lets the wrapper COMMIT what was written so far.
Rollback_KeepsStock(r) ==
    /\ pc[r] = "rollback"
    /\ reserved' = [row \in Rows |-> reserved[row] + booked[r][row]]
    /\ Release(r)
    /\ UNCHANGED <<config, outcome, usedSeen, timesUsed, stored>>
Rollback_Commits(r) ==
    /\ pc[r] = "rollback"
    /\ stored' = [stored EXCEPT ![r] = draft[r]]
    /\ Release(r)
    /\ UNCHANGED <<config, outcome, usedSeen, reserved, timesUsed>>

\* defer tx.Rollback, ROLLBACK in the catch, the drop of a Rust transaction.  A
\* quote has no transaction: it gives its connection back.
Rollback(r) ==
    /\ pc[r] = "rollback"
    /\ Release(r)
    /\ UNCHANGED <<config, outcome, usedSeen, tables>>

\* The service answers once the handler returns.  A Rust transaction is dropped
\* without waiting for its ROLLBACK, so the answer can come first; whoever borrows
\* that connection queues behind the ROLLBACK, so its slot is still taken.
Answered(r) == pc[r] = "done" \/ (layer = "rust" /\ pc[r] = "rollback")

-----------------------------------------------------------------------------
(* Reading *)

Begin(r) ==
    /\ pc[r] = "arrived"
    /\ Cardinality(conns) < PoolSize
    /\ conns' = conns \cup {r}
    /\ pc' = [pc EXCEPT ![r] = "load"]
    /\ UNCHANGED <<config, outcome, locks, private, tables>>

\* A GORM quote opens no transaction: every statement borrows a connection.
Enter(r) ==
    /\ pc[r] = "arrived"
    /\ pc' = [pc EXCEPT ![r] = "load"]
    /\ UNCHANGED <<config, outcome, conns, locks, private, tables>>

CanQuery(r) == r \in conns \/ Cardinality(conns) < PoolSize

\* customer, product, discount_rule, tax_rate and coupon; of these only
\* coupon.times_used is ever written, so one step reads them all.
LoadRef(r) ==
    LET b == body[r] IN
    /\ pc[r] = "load"
    /\ CanQuery(r)
    /\ Found(b)
    /\ usedSeen' = [usedSeen EXCEPT ![r] =
                      IF b.coupon = None THEN 0 ELSE timesUsed[b.coupon]]
    /\ pc' = [pc EXCEPT ![r] = IF b.kind = "quote" THEN "peek" ELSE "lock"]
    /\ UNCHANGED <<config, outcome, conns, locks, seen, draft, booked, tables>>

\* Mutant of RejectUnknown: an early return that keeps the connection.
RejectUnknown_Leaks(r) ==
    /\ pc[r] = "load"
    /\ ~Found(body[r])
    /\ pc' = [pc EXCEPT ![r] = "done"]
    /\ outcome' = [outcome EXCEPT ![r] = "not_found"]
    /\ UNCHANGED <<config, conns, locks, private, tables>>

RejectUnknown(r) ==
    /\ pc[r] = "load"
    /\ CanQuery(r)
    /\ ~Found(body[r])
    /\ Abort(r, "not_found")

\* The read of inventory that ends a quote: its rows are not used.
Peek(r) ==
    /\ pc[r] = "peek"
    /\ CanQuery(r)
    /\ Release(r)
    /\ outcome' = [outcome EXCEPT ![r] = "ok"]
    /\ UNCHANGED <<config, usedSeen, tables>>

-----------------------------------------------------------------------------
(* The transaction *)

\* ORDER BY product_id FOR UPDATE: the rows are locked one at a time, in order.
Unlocked(r) == {row \in Wanted(body[r]) : rowLock[row] # r}
\* Mutant of NextRow: no ORDER BY.
NextRow_AnyOrder(r, row) == row \in Unlocked(r)
NextRow(r, row) == row \in Unlocked(r) /\ \A other \in Unlocked(r) : row[2] <= other[2]

LockRow(r) ==
    /\ pc[r] = "lock"
    /\ \E row \in Rows :
         /\ NextRow(r, row)
         /\ rowLock[row] = None
         /\ rowLock' = [rowLock EXCEPT ![row] = r]
         /\ seen' = [seen EXCEPT ![r][row[2]] = OnHand[row] - reserved[row]]
    /\ UNCHANGED <<config, pc, outcome, conns, couponLock, usedSeen, draft, booked,
                   tables>>

\* Mutants of Short: each line checked on its own; an off-by-one.
Short_PerLine(r, checked) ==
    {p \in checked : \E i \in Occurrences(body[r], p) : seen[r][p] < body[r].lines[i].qty}
Short_OffByOne(r, checked) == {p \in checked : seen[r][p] <= Want(body[r], p)}

\* The products of r's cart, among those the layer checks, that are out of stock.
Short(r, checked) == {p \in checked : seen[r][p] < Want(body[r], p)}

\* Mutant of Accept: the SELECT ... FOR UPDATE ran in a transaction of its own.
Accept_Unlocks(r, checked) ==
    /\ pc[r] = "lock"
    /\ Unlocked(r) = {}
    /\ Short(r, checked) = {}
    /\ rowLock' = [row \in Rows |-> IF rowLock[row] = r THEN None ELSE rowLock[row]]
    /\ pc' = [pc EXCEPT ![r] = "order"]
    /\ UNCHANGED <<config, outcome, conns, couponLock, private, tables>>

Accept(r, checked) ==
    /\ pc[r] = "lock"
    /\ Unlocked(r) = {}
    /\ Short(r, checked) = {}
    /\ pc' = [pc EXCEPT ![r] = "order"]
    /\ UNCHANGED <<config, outcome, conns, locks, private, tables>>

Refuse(r, checked) ==
    /\ pc[r] = "lock"
    /\ Unlocked(r) = {}
    /\ Short(r, checked) # {}
    /\ Abort(r, "insufficient_stock")

Insert(r, new) == draft' = [draft EXCEPT ![r] = @ \cup new]

InsertOrder(r) ==
    /\ pc[r] = "order"
    /\ Insert(r, {"order", "order_item"})
    /\ pc' = [pc EXCEPT ![r] = "reserve"]
    /\ UNCHANGED <<config, outcome, conns, locks, seen, usedSeen, booked, tables>>

\* Mutant of Applied: an off-by-one.
Applied_OffByOne(r) ==
    LET b == body[r] IN
    b.coupon # None /\ b.eligible /\ usedSeen[r] <= MaxUses[b.coupon]

\* The engine prices the coupon with the times_used that loadRef read.
Applied(r) ==
    LET b == body[r] IN
    b.coupon # None /\ b.eligible /\ usedSeen[r] < MaxUses[b.coupon]

\* Mutant of Increment: the sign.
Increment_Negated(r, copies) ==
    [row \in Rows |-> IF row \in Wanted(body[r])
                      THEN 0 - copies[row[2]] * Want(body[r], row[2]) ELSE 0]

Increment(r, copies) ==
    [row \in Rows |-> IF row \in Wanted(body[r])
                      THEN copies[row[2]] * Want(body[r], row[2]) ELSE 0]

\* copies[p] UPDATEs per product, each adding the whole quantity wanted and each
\* taking the row's lock if another transaction does not hold it; then the ledger.
\* One step: nobody else can read or lock what these statements write.
Reserve(r, copies) ==
    LET b == body[r] IN
    /\ pc[r] = "reserve"
    /\ \A row \in Wanted(b) : rowLock[row] \in {r, None}
    /\ rowLock' = [row \in Rows |-> IF row \in Wanted(b) THEN r ELSE rowLock[row]]
    /\ booked' = [booked EXCEPT ![r] = Increment(r, copies)]
    /\ Insert(r, {"inventory", "ledger_entry"})
    /\ pc' = [pc EXCEPT ![r] = IF Applied(r) THEN "coupon" ELSE "points"]
    /\ UNCHANGED <<config, outcome, conns, couponLock, seen, usedSeen, tables>>

BumpCoupon(r) ==
    LET c == body[r].coupon IN
    /\ pc[r] = "coupon"
    /\ couponLock[c] = None
    /\ couponLock' = [couponLock EXCEPT ![c] = r]
    /\ Insert(r, {"coupon"})
    /\ pc' = [pc EXCEPT ![r] = "points"]
    /\ UNCHANGED <<config, outcome, conns, rowLock, seen, usedSeen, booked, tables>>

EarnPoints(r) ==
    /\ pc[r] = "points"
    /\ Insert(r, {"loyalty_transaction"})
    /\ pc' = [pc EXCEPT ![r] = "commit"]
    /\ UNCHANGED <<config, outcome, conns, locks, seen, usedSeen, booked, tables>>

\* Mutant of UsesAfter: read, add, write back.
UsesAfter_Stale(r, c) ==
    IF "coupon" \in draft[r] /\ c = body[r].coupon THEN usedSeen[r] + 1 ELSE timesUsed[c]

UsesAfter(r, c) ==
    IF "coupon" \in draft[r] /\ c = body[r].coupon THEN timesUsed[c] + 1 ELSE timesUsed[c]

\* Mutant of Commit: COMMIT forgotten, so the deferred ROLLBACK ends the transaction.
Commit_Forgotten(r, answer) ==
    /\ pc[r] = "commit"
    /\ outcome' = [outcome EXCEPT ![r] = answer]
    /\ Release(r)
    /\ UNCHANGED <<config, usedSeen, tables>>

\* The increments are relative to the committed value, as the UPDATEs are.
Commit(r, answer) ==
    /\ pc[r] = "commit"
    /\ reserved' = [row \in Rows |-> reserved[row] + booked[r][row]]
    /\ timesUsed' = [c \in Coupons |-> UsesAfter(r, c)]
    /\ stored' = [stored EXCEPT ![r] = draft[r]]
    /\ outcome' = [outcome EXCEPT ![r] = answer]
    /\ Release(r)
    /\ UNCHANGED <<config, usedSeen>>

-----------------------------------------------------------------------------
(* Failures *)

\* No connection: the pool's error, a cancelled request.
GiveUp(r) ==
    /\ pc[r] = "arrived"
    /\ pc' = [pc EXCEPT ![r] = "done"]
    /\ outcome' = [outcome EXCEPT ![r] = "error"]
    /\ UNCHANGED <<config, conns, locks, private, tables>>

\* A statement fails or the request is cancelled: nothing it did stays.
Fail(r) ==
    /\ pc[r] \in InDialog
    /\ Abort(r, "error")

\* GORM's loadRef answers every error of the customer's query alike.  (It ignores one of
\* the coupon's query; in a transaction the next statement then fails: see Fail.)
MaskedFailure(r) ==
    /\ layer = "gorm"
    /\ pc[r] = "load"
    /\ Abort(r, "not_found")

\* COMMIT was executed and its acknowledgement lost: the client is told 500.
LostAck(r) == Commit(r, "error")

Disturb(r) == GiveUp(r) \/ Fail(r) \/ MaskedFailure(r) \/ LostAck(r)

-----------------------------------------------------------------------------
(* The handlers of the five layers *)

Quote(r) == body[r].kind = "quote" /\ (Begin(r) \/ LoadRef(r) \/ RejectUnknown(r)
                                       \/ Peek(r) \/ Rollback(r))

Transact(r, checked, copies) ==
    /\ body[r].kind = "checkout"
    /\ \/ Begin(r) \/ LoadRef(r) \/ RejectUnknown(r) \/ LockRow(r)
       \/ Accept(r, checked) \/ Refuse(r, checked) \/ InsertOrder(r)
       \/ Reserve(r, copies) \/ BumpCoupon(r) \/ EarnPoints(r)
       \/ Commit(r, "ok") \/ Rollback(r)

\* The products of the rows that came back, which all layers but pgx go over, and
\* one UPDATE for each product of the cart.
RowProducts(r) == {row[2] : row \in Wanted(body[r])}
Once(r) == [p \in Asked(body[r]) |-> 1]

PgxQuote(r)  == layer = "pgx"  /\ Quote(r)
RustQuote(r) == layer = "rust" /\ Quote(r)
PgQuote(r)   == layer = "pg"   /\ Quote(r)
BunQuote(r)  == layer = "bun"  /\ Quote(r)

GormQuote(r) ==
    /\ layer = "gorm"
    /\ body[r].kind = "quote"
    /\ Enter(r) \/ LoadRef(r) \/ RejectUnknown(r) \/ Peek(r) \/ Rollback(r)

\* Mutant of PgxCheckout: it checks the rows that came back, as the others do.
PgxCheckout_ChecksRows(r) ==
    /\ layer = "pgx"
    /\ Transact(r, RowProducts(r),
                [p \in Asked(body[r]) |-> Cardinality(Occurrences(body[r], p))])

\* ids has one element per line of the cart: avail is looked up for each, 0 when
\* there was no row, and each element queues an UPDATE.
PgxCheckout(r) ==
    /\ layer = "pgx"
    /\ Transact(r, Asked(body[r]),
                [p \in Asked(body[r]) |-> Cardinality(Occurrences(body[r], p))])

GormCheckout(r) == layer = "gorm" /\ Transact(r, RowProducts(r), Once(r))
RustCheckout(r) == layer = "rust" /\ Transact(r, RowProducts(r), Once(r))
PgCheckout(r)   == layer = "pg"   /\ Transact(r, RowProducts(r), Once(r))
BunCheckout(r)  == layer = "bun"  /\ Transact(r, RowProducts(r), Once(r))

Serve(r) ==
    \/ PgxQuote(r) \/ GormQuote(r) \/ RustQuote(r) \/ PgQuote(r) \/ BunQuote(r)
    \/ PgxCheckout(r) \/ GormCheckout(r) \/ RustCheckout(r) \/ PgCheckout(r)
    \/ BunCheckout(r)

Finished == (\A r \in Requests : pc[r] = "done") /\ UNCHANGED vars

Next == (\E r \in Requests : Serve(r) \/ Disturb(r)) \/ Finished

\* A handler whose statement can run eventually runs it: goroutines, tokio tasks
\* and promises are scheduled, and PostgreSQL wakes the waiters of a lock.
\* Failures are not promised.
Spec == Init /\ [][Next]_vars /\ \A r \in Requests : WF_vars(Serve(r))

-----------------------------------------------------------------------------
(* Properties *)

Outcomes == {"none", "ok", "not_found", "insufficient_stock", "error"}
Stages   == InDialog \cup {"arrived", "rollback", "done"}

TypeOK ==
    /\ layer \in Layers
    /\ body \in [Requests -> Bodies]
    /\ pc \in [Requests -> Stages]
    /\ outcome \in [Requests -> Outcomes]
    /\ conns \subseteq Requests
    /\ rowLock \in [Rows -> Requests \cup {None}]
    /\ couponLock \in [Coupons -> Requests \cup {None}]
    /\ seen \in [Requests -> [Products -> Int]]
    /\ usedSeen \in [Requests -> Nat]
    /\ draft \in [Requests -> SUBSET Tables]
    /\ booked \in [Requests -> [Rows -> Nat]]
    /\ reserved \in [Rows -> Nat]
    /\ timesUsed \in [Coupons -> Nat]
    /\ stored \in [Requests -> SUBSET Tables]

\* No cart of a pgx service names one SKU on two lines (see ReservedAsOrdered).
PlainCarts == layer = "pgx" => \A r \in Requests : ~RepeatsSku(body[r])

\* The stock promised to committed orders never exceeds the stock on hand,
\* whatever checkouts run against each other between the check and the UPDATE.
NoOversell == PlainCarts => \A row \in Rows : reserved[row] <= OnHand[row]

\* The check stays true until the writes: from the moment a checkout has passed it
\* until COMMIT, every row of its cart is locked by it and still has the stock.
StockCheckHolds ==
    PlainCarts =>
      \A r \in Requests : pc[r] \in Writing =>
        \A row \in Wanted(body[r]) :
          /\ rowLock[row] = r
          /\ reserved[row] + Want(body[r], row[2]) <= OnHand[row]

\* The units of a row that committed orders asked for, one by one.
Ordered(row)      == {r \in Requests : "order" \in stored[r] /\ row \in Wanted(body[r])}
UnitsOrdered(row) == UNION {{r} \X (1..Want(body[r], row[2])) : r \in Ordered(row)}

\* inventory.reserved is what the committed orders asked for, unit for unit: nothing is
\* lost between concurrent UPDATEs, kept from a rolled back one or counted twice.
ReservedAsOrdered == \A row \in Rows : reserved[row] = Cardinality(UnitsOrdered(row))

ReservationsBacked == PlainCarts => ReservedAsOrdered

\* A 409 is the truth, and stays the truth: the refused cart has a line that the
\* committed stock cannot serve, or, with pgx, that the warehouse does not carry.
RefusalsJustified ==
    \A r \in Requests : outcome[r] = "insufficient_stock" =>
      \E p \in Asked(body[r]) :
        LET row == <<body[r].warehouse, p>> IN
        IF row \in Rows THEN OnHand[row] - reserved[row] < Want(body[r], p)
                        ELSE layer = "pgx"

\* coupon.times_used counts the committed orders that used the coupon.
CouponCountExact ==
    \A c \in Coupons :
      timesUsed[c] = Cardinality({r \in Requests : "coupon" \in stored[r]
                                                   /\ body[r].coupon = c})

\* loadRef reads times_used without a lock, so checkouts that overlap can all find
\* the last use free; no more of them than the pool has connections.
CouponOverrunBounded ==
    \A c \in Coupons : timesUsed[c] <= MaxUses[c] + PoolSize - 1

\* An order is stored with its items, its reservations, its ledger entries, its
\* points and, exactly when its invoice says so, its coupon use, or not at all.
WholeOrders ==
    \A r \in Requests : stored[r] # {} =>
      /\ body[r].kind = "checkout"
      /\ stored[r] = Tables \ (IF Applied(r) THEN {} ELSE {"coupon"})

\* A customer told 200 has an order, one told 404 or 409 has none, and only GORM
\* says 404 of a customer and products that exist.
HonestAnswers ==
    \A r \in Requests : Answered(r) =>
      /\ outcome[r] # "none"
      /\ outcome[r] = "ok" /\ body[r].kind = "checkout" => stored[r] # {}
      /\ outcome[r] \in {"not_found", "insufficient_stock"} => stored[r] = {}
      /\ outcome[r] = "not_found" => ~Found(body[r]) \/ layer = "gorm"

\* pgx books an order only if the warehouse carries every product of the cart.
EveryLineReserved ==
    \A r \in Requests : stored[r] # {} =>
      \A p \in Asked(body[r]) : <<body[r].warehouse, p>> \in Rows

PgxReservesEveryLine == layer = "pgx" => EveryLineReserved

\* The pool is never overdrawn, and every way out of a handler gives back its
\* connection and leaves no lock and no uncommitted row.
NothingLeaks ==
    /\ Cardinality(conns) <= PoolSize
    /\ \A r \in Requests : pc[r] = "done" =>
         /\ r \notin conns
         /\ \A row \in Rows : rowLock[row] # r
         /\ \A c \in Coupons : couponLock[c] # r
         /\ draft[r] = {} /\ booked[r] = NothingBooked

\* r's next statement waits for a lock that q holds.
WaitsForRow(r, q) ==
    pc[r] = "lock" /\ \E row \in Rows : NextRow(r, row) /\ rowLock[row] = q
WaitsForCoupon(r, q) == pc[r] = "coupon" /\ couponLock[body[r].coupon] = q
WaitsFor(r, q) == q # r /\ (WaitsForRow(r, q) \/ WaitsForCoupon(r, q))

\* Rows in product order, then the coupon: no set of checkouts is deadlocked, each
\* waiting for another of the set, however their carts overlap.
NoWaitCycle ==
    \A S \in SUBSET Requests :
      S # {} => \E r \in S : \A q \in S : ~WaitsFor(r, q)

\* Every request is answered, though handlers queue for connections and for locks.
EveryRequestAnswered == \A r \in Requests : <>(pc[r] = "done")

\* What SPEC.md says of a coupon, in a transaction it calls serialisable.
CouponWithinLimit == \A c \in Coupons : timesUsed[c] <= MaxUses[c]

-----------------------------------------------------------------------------
(* What the handlers, their statements and their locks amount to: orders placed *)
(* or turned away one at a time.                                               *)

Book == INSTANCE OrderBook WITH
          answer <- [r \in Requests |-> IF Answered(r) THEN outcome[r] ELSE "none"],
          orders <- {r \in Requests : stored[r] # {}}

\* Whatever the interleaving, the store behaves as OrderBook allows.
PlacesOrdersAtomically == Book!Spec

=============================================================================
