--------------------------- MODULE CheckoutProofs ---------------------------
(***************************************************************************)
(* Proofs about Checkout, for any requests, carts, stock, pool and layer:  *)
(* stock and orders, and what the handlers share, the connections of the   *)
(* pool, the locks of inventory and coupon rows, the uses of a coupon.     *)
(***************************************************************************)
EXTENDS Checkout, SumProofs, WellFoundedInduction

-----------------------------------------------------------------------------
(* The steps, one by one *)

\* The products a layer checks against the stock, and the UPDATEs it issues for
\* each of them: the only places where the layers' transactions differ.
Checked(r) == IF layer = "pgx" THEN Asked(body[r]) ELSE RowProducts(r)
Copies(r)  == IF layer = "pgx"
              THEN [p \in Asked(body[r]) |-> Cardinality(Occurrences(body[r], p))]
              ELSE Once(r)

\* Every step of a handler, of any layer, is one of these.
LEMMA StepCases ==
    ASSUME NEW r \in Requests, Serve(r) \/ Disturb(r)
    PROVE  \/ Begin(r) \/ (Enter(r) /\ body[r].kind = "quote") \/ GiveUp(r)
           \/ LoadRef(r) \/ RejectUnknown(r) \/ MaskedFailure(r)
           \/ Peek(r) \/ LockRow(r)
           \/ Accept(r, Checked(r)) \/ Refuse(r, Checked(r))
           \/ InsertOrder(r) \/ Reserve(r, Copies(r))
           \/ BumpCoupon(r) \/ EarnPoints(r)
           \/ (\E answer \in {"ok", "error"} : Commit(r, answer))
           \/ Fail(r) \/ Rollback(r)
<1>1. CASE Disturb(r)
  BY <1>1 DEF Disturb, LostAck
<1>2. CASE PgxQuote(r) \/ GormQuote(r) \/ RustQuote(r) \/ PgQuote(r) \/ BunQuote(r)
  BY <1>2 DEF PgxQuote, GormQuote, RustQuote, PgQuote, BunQuote, Quote
<1>3. CASE PgxCheckout(r)
  BY <1>3 DEF PgxCheckout, Transact, Checked, Copies
<1>4. CASE GormCheckout(r) \/ RustCheckout(r) \/ PgCheckout(r) \/ BunCheckout(r)
  BY <1>4 DEF GormCheckout, RustCheckout, PgCheckout, BunCheckout, Transact, Checked,
              Copies
<1> QED BY <1>1, <1>2, <1>3, <1>4 DEF Serve

-----------------------------------------------------------------------------
(* Carts *)

\* The lines of a cart that name a product are finitely many, at least one if the
\* product is asked for, and exactly one if no SKU is repeated.
LEMMA OccurrencesCount ==
    ASSUME NEW b \in Bodies, NEW p \in Asked(b)
    PROVE  /\ Cardinality(Occurrences(b, p)) \in Nat
           /\ ~RepeatsSku(b) => Cardinality(Occurrences(b, p)) = 1
<1>1. b.lines \in Seq(Lines)
  BY BodiesAssumption DEF BodyType
<1>2. PICK n \in Nat : DOMAIN b.lines = 1 .. n
  BY <1>1
<1>3. IsFiniteSet(1 .. n)
  BY <1>2, FS_Interval
<1>4. Cardinality(Occurrences(b, p)) \in Nat
  BY <1>2, <1>3, FS_Subset, FS_CardinalityType DEF Occurrences
<1>5. ASSUME ~RepeatsSku(b)
      PROVE  Cardinality(Occurrences(b, p)) = 1
  <2>1. PICK i \in DOMAIN b.lines : b.lines[i].product = p
    BY DEF Asked
  <2>2. Occurrences(b, p) = {i}
    BY <1>5, <2>1 DEF Occurrences, RepeatsSku
  <2> QED BY <2>2, FS_Singleton
<1> QED BY <1>4, <1>5

\* The quantities of a product in a cart add up to a number, positive if it is asked for.
LEMMA Wants ==
    ASSUME NEW b \in Bodies
    PROVE  /\ \A p : Want(b, p) \in Nat
           /\ \A p \in Asked(b) : Want(b, p) \in Nat \ {0}
<1>1. b.lines \in Seq(Lines)
  BY BodiesAssumption DEF BodyType
<1>2. PICK n \in Nat : DOMAIN b.lines = 1..n /\ \A i \in 1..n : b.lines[i].qty \in Nat \ {0}
  <2>1. \A i \in DOMAIN b.lines : b.lines[i] \in Lines
    BY <1>1
  <2> QED BY <1>1, <2>1 DEF Lines
<1> SUFFICES ASSUME NEW p
             PROVE  Want(b, p) \in Nat /\ (p \in Asked(b) => Want(b, p) # 0)
  OBVIOUS
<1> DEFINE s == [i \in DOMAIN b.lines |-> IF b.lines[i].product = p THEN b.lines[i].qty ELSE 0]
<1>3. s \in [1..n -> Nat]
  BY <1>2
<1>4. s \in Seq(Nat) /\ Len(s) = n
  <2> HIDE DEF s
  <2> QED BY <1>2, <1>3
<1>5. SumOf(s) \in Nat /\ \A k \in 1..n : s[k] <= SumOf(s)
  <2> HIDE DEF s
  <2> QED BY <1>4, SumNat
<1>6. p \in Asked(b) => \E k \in 1..n : s[k] \in Nat \ {0}
  BY <1>2 DEF Asked
<1>7. Want(b, p) = SumOf(s)
  BY DEF Want
<1> HIDE DEF s
<1> QED BY <1>5, <1>6, <1>7

\* Each row that a cart selects belongs to the inventory of one of its products.
LEMMA WantedRows ==
    ASSUME NEW b \in Bodies, NEW row \in Wanted(b)
    PROVE  /\ row \in Rows
           /\ row[2] \in Products /\ row[2] \in Asked(b)
           /\ row = <<b.warehouse, row[2]>>
           /\ Want(b, row[2]) \in Nat
BY StockAssumption, Wants DEF Wanted

\* What the UPDATEs of a cart add to the inventory, of every layer.
LEMMA Increments ==
    ASSUME TypeOK, NEW r \in Requests
    PROVE  /\ Increment(r, Copies(r)) \in [Rows -> Nat]
           /\ \A row \in Rows \ Wanted(body[r]) : Increment(r, Copies(r))[row] = 0
           /\ PlainCarts => \A row \in Wanted(body[r]) :
                              Increment(r, Copies(r))[row] = Want(body[r], row[2])
<1>1. body[r] \in Bodies
  BY DEF TypeOK
<1>2. \A row \in Wanted(body[r]) :
        /\ Copies(r)[row[2]] \in Nat
        /\ PlainCarts => Copies(r)[row[2]] = 1
  BY <1>1, WantedRows, OccurrencesCount DEF Copies, Once, PlainCarts
<1>3. \A row \in Wanted(body[r]) : row \in Rows /\ Want(body[r], row[2]) \in Nat
  BY <1>1, WantedRows
<1>4. \A row \in Rows :
        Increment(r, Copies(r))[row] =
          IF row \in Wanted(body[r])
          THEN Copies(r)[row[2]] * Want(body[r], row[2]) ELSE 0
  BY DEF Increment
<1>5. \A row \in Wanted(body[r]) :
        /\ Copies(r)[row[2]] * Want(body[r], row[2]) \in Nat
        /\ PlainCarts => Copies(r)[row[2]] * Want(body[r], row[2]) = Want(body[r], row[2])
  <2> SUFFICES ASSUME NEW row \in Wanted(body[r])
               PROVE  /\ Copies(r)[row[2]] * Want(body[r], row[2]) \in Nat
                      /\ PlainCarts => Copies(r)[row[2]] * Want(body[r], row[2])
                                         = Want(body[r], row[2])
    OBVIOUS
  <2> DEFINE k == Copies(r)[row[2]]
             w == Want(body[r], row[2])
  <2>1. k \in Nat /\ (PlainCarts => k = 1) /\ w \in Nat
    BY <1>2, <1>3
  <2> HIDE DEF k, w
  <2>2. k * w \in Nat /\ (PlainCarts => k * w = w)
    BY <2>1
  <2> QED BY <2>2 DEF k, w
<1> QED BY <1>3, <1>4, <1>5 DEF Increment

-----------------------------------------------------------------------------
(* Type correctness *)

LEMMA InitTypeOK == Init => TypeOK
BY StockAssumption DEF Init, TypeOK, Stages, Outcomes, NothingBooked, InDialog, Reading, Writing

\* Ending a handler clears what it held.
LEMMA ReleaseTypeOK ==
    ASSUME TypeOK, NEW r \in Requests, Release(r)
    PROVE  /\ rowLock' \in [Rows -> Requests \cup {None}]
           /\ couponLock' \in [Coupons -> Requests \cup {None}]
           /\ conns' \subseteq Requests
           /\ seen' \in [Requests -> [Products -> Int]]
           /\ draft' \in [Requests -> SUBSET Tables]
           /\ booked' \in [Requests -> [Rows -> Nat]]
           /\ pc' \in [Requests -> Stages]
BY DEF TypeOK, Release, NothingBooked, Stages

LEMMA InsertTypeOK ==
    ASSUME TypeOK, NEW r \in Requests, NEW new \in SUBSET Tables, Insert(r, new)
    PROVE  draft' \in [Requests -> SUBSET Tables]
BY DEF TypeOK, Insert

LEMMA NextTypeOK == TypeOK /\ [Next]_vars => TypeOK'
<1> SUFFICES ASSUME TypeOK, [Next]_vars PROVE TypeOK'
  OBVIOUS
<1> USE DEF vars, config, locks, private, tables
<1>1. CASE UNCHANGED vars
  BY <1>1 DEF TypeOK
<1>2. CASE Finished
  BY <1>2 DEF Finished, TypeOK
<1>3. ASSUME NEW r \in Requests, Serve(r) \/ Disturb(r) PROVE TypeOK'
  <2> USE DEF TypeOK, Stages, InDialog, Reading, Writing, Outcomes
  <2>1. CASE Begin(r) \/ Enter(r) \/ GiveUp(r)
    BY <2>1 DEF Begin, Enter, GiveUp
  <2>2. CASE LoadRef(r)
    <3>1. body[r] \in Bodies /\ body[r].coupon \in Coupons \cup {None}
      BY BodiesAssumption DEF BodyType
    <3>2. (IF body[r].coupon = None THEN 0 ELSE timesUsed[body[r].coupon]) \in Nat
      BY <3>1
    <3> QED BY <2>2, <3>2 DEF LoadRef
  <2>3. CASE RejectUnknown(r) \/ MaskedFailure(r) \/ Refuse(r, Checked(r)) \/ Fail(r)
    BY <2>3 DEF RejectUnknown, MaskedFailure, Refuse, Fail, Abort
  <2>4. CASE Peek(r)
    BY <2>4, ReleaseTypeOK DEF Peek
  <2>5. CASE LockRow(r)
    <3>1. PICK row \in Rows :
            /\ rowLock' = [rowLock EXCEPT ![row] = r]
            /\ seen' = [seen EXCEPT ![r][row[2]] = OnHand[row] - reserved[row]]
      BY <2>5 DEF LockRow
    <3>2. row[2] \in Products /\ OnHand[row] - reserved[row] \in Int
      BY StockAssumption
    <3>3. seen' \in [Requests -> [Products -> Int]]
      BY <3>1, <3>2
    <3>4. rowLock' \in [Rows -> Requests \cup {None}]
      BY <3>1
    <3> QED BY <2>5, <3>3, <3>4 DEF LockRow
  <2>6. CASE Accept(r, Checked(r))
    BY <2>6 DEF Accept
  <2>7. CASE InsertOrder(r) \/ EarnPoints(r)
    <3>1. {"order", "order_item"} \in SUBSET Tables /\ {"loyalty_transaction"} \in SUBSET Tables
      BY DEF Tables
    <3>2. draft' \in [Requests -> SUBSET Tables]
      BY <2>7, <3>1, InsertTypeOK DEF InsertOrder, EarnPoints
    <3> QED BY <2>7, <3>2 DEF InsertOrder, EarnPoints
  <2>8. CASE Reserve(r, Copies(r))
    <3>1. Increment(r, Copies(r)) \in [Rows -> Nat]
      BY Increments
    <3>2. booked' \in [Requests -> [Rows -> Nat]]
      BY <2>8, <3>1 DEF Reserve
    <3>3. rowLock' \in [Rows -> Requests \cup {None}]
      BY <2>8 DEF Reserve
    <3>4. draft' \in [Requests -> SUBSET Tables]
      BY <2>8 DEF Reserve, Insert, Tables
    <3> QED BY <2>8, <3>2, <3>3, <3>4 DEF Reserve
  <2>9. CASE BumpCoupon(r)
    BY <2>9 DEF BumpCoupon, Insert, Tables
  <2>10. ASSUME NEW answer \in {"ok", "error"}, Commit(r, answer) PROVE TypeOK'
    <3>1. Release(r)
      BY <2>10 DEF Commit
    <3>2. reserved' \in [Rows -> Nat]
      BY <2>10 DEF Commit
    <3>3. timesUsed' \in [Coupons -> Nat]
      BY <2>10 DEF Commit, UsesAfter
    <3>4. stored' \in [Requests -> SUBSET Tables]
      BY <2>10 DEF Commit
    <3> QED BY <2>10, <3>1, <3>2, <3>3, <3>4, ReleaseTypeOK DEF Commit
  <2>11. CASE Rollback(r)
    BY <2>11, ReleaseTypeOK DEF Rollback
  <2> HIDE DEF TypeOK, Stages, InDialog, Reading, Writing, Outcomes
  <2> QED BY <1>3, <2>1, <2>2, <2>3, <2>4, <2>5, <2>6, <2>7, <2>8, <2>9, <2>10, <2>11,
             StepCases
<1> QED BY <1>1, <1>2, <1>3 DEF Next

\* Every variable keeps its type: in particular no UPDATE ever lowers a reservation
\* or a coupon's count below zero.
THEOREM TypeCorrect == Spec => []TypeOK
BY InitTypeOK, NextTypeOK, PTL DEF Spec

-----------------------------------------------------------------------------
(* No overselling *)

\* The stages at which a handler may hold rows.
Holding == {"lock", "rollback"} \cup Writing
NoEarlyLocks ==
    \A r \in Requests, row \in Rows : rowLock[row] = r => pc[r] \in Holding

\* A checkout past its check holds every row of its cart.
CartsLocked ==
    \A r \in Requests : pc[r] \in Writing =>
      \A row \in Wanted(body[r]) : rowLock[row] = r

\* What a checkout has read under its locks is still what the table holds.
SeenIsCurrent ==
    \A r \in Requests : pc[r] = "lock" =>
      \A row \in Wanted(body[r]) :
        rowLock[row] = r => seen[r][row[2]] = OnHand[row] - reserved[row]

\* Its uncommitted increments are on rows it holds, and are what its cart wants.
BookedUnderLock ==
    \A r \in Requests, row \in Rows : booked[r][row] # 0 =>
      /\ row \in Wanted(body[r])
      /\ rowLock[row] = r
      /\ PlainCarts => booked[r][row] = Want(body[r], row[2])

\* NoOversell and StockCheckHolds alone are not inductive: that the check holds
\* follows from what was seen under the locks, and that COMMIT keeps it from the
\* increments being the committer's own.
StockInv ==
    /\ NoEarlyLocks
    /\ CartsLocked
    /\ SeenIsCurrent
    /\ BookedUnderLock
    /\ StockCheckHolds
    /\ NoOversell

LEMMA InitStockInv == Init => StockInv
BY StockAssumption, RequestsAssumption
   DEF Init, StockInv, NoEarlyLocks, CartsLocked, SeenIsCurrent, BookedUnderLock, StockCheckHolds,
       NoOversell, NothingBooked, Writing

\* A step of r that takes no lock, reads no row, books nothing and leaves the tables
\* alone keeps the invariant, if r moves to a stage that promises nothing more.
LEMMA QuietStep ==
    ASSUME TypeOK, StockInv, NEW r \in Requests, NEW stage \in Stages,
           pc' = [pc EXCEPT ![r] = stage],
           stage \in Writing => pc[r] \in Writing,
           stage = "lock" => pc[r] \notin Holding,
           stage \notin Holding => pc[r] \notin Holding,
           UNCHANGED <<config, rowLock, seen, booked, reserved>>
    PROVE  StockInv'
<1> USE DEF config
<1>1. PlainCarts' <=> PlainCarts
  BY DEF PlainCarts
<1>2. \A q \in Requests : /\ pc'[q] \in Writing => pc[q] \in Writing
                          /\ pc[q] \in Holding => pc'[q] \in Holding
                          /\ pc'[q] = "lock" => pc[q] = "lock" \/ pc[q] \notin Holding
  BY DEF TypeOK
<1>3. NoEarlyLocks' /\ CartsLocked'
  BY <1>2 DEF StockInv, NoEarlyLocks, CartsLocked
<1>4. SeenIsCurrent'
  <2> SUFFICES ASSUME NEW q \in Requests, pc'[q] = "lock",
                      NEW row \in Wanted(body[q]), rowLock[row] = q
               PROVE  seen[q][row[2]] = OnHand[row] - reserved[row]
    BY DEF SeenIsCurrent
  <2>1. row \in Rows
    BY DEF Wanted
  <2>2. pc[q] = "lock"
    BY <1>2, <2>1 DEF StockInv, NoEarlyLocks
  <2> QED BY <2>2 DEF StockInv, SeenIsCurrent
<1>5. BookedUnderLock' /\ StockCheckHolds' /\ NoOversell'
  BY <1>1, <1>2 DEF StockInv, BookedUnderLock, StockCheckHolds, NoOversell
<1> QED BY <1>3, <1>4, <1>5 DEF StockInv

\* Ending a handler, whether or not its increments are committed: the rows it had
\* booked were its own, so nobody else's check is touched.
LEMMA EndStep ==
    ASSUME TypeOK, StockInv, NEW r \in Requests, Release(r), UNCHANGED config,
           \/ UNCHANGED reserved
           \/ /\ pc[r] \in Writing
              /\ reserved' = [row \in Rows |-> reserved[row] + booked[r][row]]
    PROVE  StockInv'
<1> USE DEF config
<1>1. PlainCarts' <=> PlainCarts
  BY DEF PlainCarts
<1>2. /\ \A q \in Requests : pc'[q] = IF q = r THEN "done" ELSE pc[q]
      /\ \A row \in Rows : rowLock'[row] = IF rowLock[row] = r THEN None ELSE rowLock[row]
      /\ \A q \in Requests : q # r => seen'[q] = seen[q] /\ booked'[q] = booked[q]
      /\ \A row \in Rows : booked'[r][row] = 0
  BY DEF Release, TypeOK, NothingBooked
<1>3. \A row \in Rows : reserved'[row] # reserved[row] => rowLock[row] = r
  BY DEF StockInv, BookedUnderLock, TypeOK
<1>4. NoEarlyLocks' /\ CartsLocked'
  BY <1>2, RequestsAssumption
     DEF StockInv, NoEarlyLocks, CartsLocked, Holding, Writing, Wanted
<1>5. SeenIsCurrent'
  <2> SUFFICES ASSUME NEW q \in Requests, pc'[q] = "lock",
                      NEW row \in Wanted(body[q]), rowLock'[row] = q
               PROVE  seen'[q][row[2]] = OnHand[row] - reserved'[row]
    BY DEF SeenIsCurrent
  <2>1. row \in Rows /\ q # r /\ rowLock[row] = q /\ pc[q] = "lock"
    BY <1>2, RequestsAssumption DEF Wanted
  <2> QED BY <1>2, <1>3, <2>1 DEF StockInv, SeenIsCurrent
<1>6. BookedUnderLock'
  <2> SUFFICES ASSUME NEW q \in Requests, NEW row \in Rows, booked'[q][row] # 0
               PROVE  /\ row \in Wanted(body[q])
                      /\ rowLock'[row] = q
                      /\ PlainCarts => booked'[q][row] = Want(body[q], row[2])
    BY <1>1 DEF BookedUnderLock
  <2>1. q # r /\ booked[q][row] # 0
    BY <1>2
  <2> QED BY <1>2, <2>1 DEF StockInv, BookedUnderLock
<1>7. StockCheckHolds'
  <2> SUFFICES ASSUME PlainCarts, NEW q \in Requests, pc'[q] \in Writing,
                      NEW row \in Wanted(body[q])
               PROVE  /\ rowLock'[row] = q
                      /\ reserved'[row] + Want(body[q], row[2]) <= OnHand[row]
    BY <1>1 DEF StockCheckHolds
  <2>1. row \in Rows /\ q # r /\ pc[q] \in Writing
    BY <1>2 DEF Wanted, Writing
  <2>2. rowLock[row] = q /\ reserved[row] + Want(body[q], row[2]) <= OnHand[row]
    BY <2>1 DEF StockInv, StockCheckHolds
  <2> QED BY <1>2, <1>3, <2>1, <2>2
<1>8. NoOversell'
  <2> SUFFICES ASSUME PlainCarts, NEW row \in Rows
               PROVE  reserved'[row] <= OnHand[row]
    BY <1>1 DEF NoOversell
  <2>1. CASE reserved'[row] = reserved[row]
    BY <2>1 DEF StockInv, NoOversell
  <2>2. CASE reserved'[row] # reserved[row]
    <3>1. /\ pc[r] \in Writing
          /\ reserved'[row] = reserved[row] + booked[r][row]
          /\ booked[r][row] # 0
      BY <2>2 DEF TypeOK
    <3>2. row \in Wanted(body[r]) /\ booked[r][row] = Want(body[r], row[2])
      BY <3>1 DEF StockInv, BookedUnderLock
    <3>3. reserved[row] + Want(body[r], row[2]) <= OnHand[row]
      BY <3>1, <3>2 DEF StockInv, StockCheckHolds
    <3> QED BY <3>1, <3>2, <3>3
  <2> QED BY <2>1, <2>2
<1> QED BY <1>4, <1>5, <1>6, <1>7, <1>8 DEF StockInv

\* Reading a row and locking it are one step, so what is read is current.
LEMMA LockStep ==
    ASSUME TypeOK, StockInv, NEW r \in Requests, LockRow(r)
    PROVE  StockInv'
<1> USE DEF config, tables, private
<1>1. PICK row \in Rows :
        /\ row \in Wanted(body[r])
        /\ rowLock[row] = None
        /\ rowLock' = [rowLock EXCEPT ![row] = r]
        /\ seen' = [seen EXCEPT ![r][row[2]] = OnHand[row] - reserved[row]]
  BY DEF LockRow, NextRow, Unlocked
<1>2. pc[r] = "lock" /\ UNCHANGED <<layer, body, pc, booked, reserved>>
  BY DEF LockRow
<1>3. PlainCarts' <=> PlainCarts
  BY <1>2 DEF PlainCarts
<1>4. \A q \in Requests : rowLock[row] # q
  BY <1>1, RequestsAssumption
<1>5. NoEarlyLocks' /\ CartsLocked'
  BY <1>1, <1>2, <1>4
     DEF StockInv, NoEarlyLocks, CartsLocked, Holding, Writing, Wanted, TypeOK
<1>6. SeenIsCurrent'
  <2> SUFFICES ASSUME NEW q \in Requests, pc[q] = "lock",
                      NEW other \in Wanted(body[q]), rowLock'[other] = q
               PROVE  seen'[q][other[2]] = OnHand[other] - reserved[other]
    BY <1>2 DEF SeenIsCurrent
  <2>1. other \in Rows /\ other[2] \in Products /\ row[2] \in Products
    BY <1>1, WantedRows, StockAssumption DEF TypeOK
  <2>2. CASE q # r
    BY <1>1, <1>4, <2>1, <2>2 DEF StockInv, SeenIsCurrent, TypeOK
  <2>3. CASE q = r /\ other # row
    <3>1. rowLock[other] = r
      BY <1>1, <2>1, <2>3 DEF TypeOK
    <3>2. body[r] \in Bodies
      BY DEF TypeOK
    <3>3. /\ row = <<body[r].warehouse, row[2]>>
          /\ other = <<body[r].warehouse, other[2]>>
      BY <1>1, <2>3, <3>2, WantedRows
    <3>4. other[2] # row[2]
      BY <2>3, <3>3
    <3> QED BY <1>1, <2>1, <2>3, <3>1, <3>4 DEF StockInv, SeenIsCurrent, TypeOK
  <2>4. CASE q = r /\ other = row
    BY <1>1, <2>1, <2>4 DEF TypeOK
  <2> QED BY <2>2, <2>3, <2>4
<1>7. BookedUnderLock'
  BY <1>1, <1>2, <1>3, <1>4 DEF StockInv, BookedUnderLock, TypeOK
<1>8. StockCheckHolds' /\ NoOversell'
  BY <1>1, <1>2, <1>3, <1>4 DEF StockInv, StockCheckHolds, NoOversell, TypeOK, Wanted
<1> QED BY <1>5, <1>6, <1>7, <1>8 DEF StockInv

\* The check: what was seen of every row of the cart is enough, and still true.
LEMMA AcceptStep ==
    ASSUME TypeOK, StockInv, NEW r \in Requests, Accept(r, Checked(r))
    PROVE  StockInv'
<1> USE DEF config, tables, private, locks
<1>1. /\ pc[r] = "lock"
      /\ Unlocked(r) = {} /\ Short(r, Checked(r)) = {}
      /\ UNCHANGED <<layer, body, rowLock, seen, booked, reserved>>
      /\ \A q \in Requests : pc'[q] = IF q = r THEN "order" ELSE pc[q]
  BY DEF Accept, TypeOK
<1>2. PlainCarts' <=> PlainCarts
  BY <1>1 DEF PlainCarts
<1>3. \A row \in Wanted(body[r]) : rowLock[row] = r
  BY <1>1 DEF Unlocked
<1>4. \A row \in Wanted(body[r]) : reserved[row] + Want(body[r], row[2]) <= OnHand[row]
  <2> SUFFICES ASSUME NEW row \in Wanted(body[r])
               PROVE  reserved[row] + Want(body[r], row[2]) <= OnHand[row]
    OBVIOUS
  <2>1. body[r] \in Bodies
    BY DEF TypeOK
  <2>2. /\ row \in Rows /\ row[2] \in Products /\ row[2] \in Asked(body[r])
        /\ Want(body[r], row[2]) \in Nat
    BY <2>1, WantedRows
  <2>3. row[2] \in Checked(r)
    BY <2>2 DEF Checked, RowProducts
  <2>4. ~(seen[r][row[2]] < Want(body[r], row[2]))
    BY <1>1, <2>3 DEF Short
  <2>5. seen[r][row[2]] = OnHand[row] - reserved[row]
    BY <1>1, <1>3 DEF StockInv, SeenIsCurrent
  <2>6. reserved[row] \in Nat /\ OnHand[row] \in Nat
    BY <2>2, StockAssumption DEF TypeOK
  <2> QED BY <2>2, <2>4, <2>5, <2>6
<1>5. NoEarlyLocks' /\ CartsLocked' /\ SeenIsCurrent'
  BY <1>1, <1>3 DEF StockInv, NoEarlyLocks, CartsLocked, SeenIsCurrent, Holding, Writing
<1>6. BookedUnderLock' /\ NoOversell'
  BY <1>1, <1>2 DEF StockInv, BookedUnderLock, NoOversell
<1>7. StockCheckHolds'
  BY <1>1, <1>2, <1>3, <1>4 DEF StockInv, StockCheckHolds
<1> QED BY <1>5, <1>6, <1>7 DEF StockInv

\* The UPDATEs book, on rows the transaction already holds, what the cart wants.
LEMMA ReserveStep ==
    ASSUME TypeOK, StockInv, NEW r \in Requests, Reserve(r, Copies(r))
    PROVE  StockInv'
<1> USE DEF config, tables
<1>1. /\ pc[r] \in Writing
      /\ booked' = [booked EXCEPT ![r] = Increment(r, Copies(r))]
      /\ UNCHANGED <<layer, body, seen, reserved>>
      /\ \A row \in Rows : rowLock'[row] = IF row \in Wanted(body[r]) THEN r
                                           ELSE rowLock[row]
      /\ \A q \in Requests : /\ q # r => pc'[q] = pc[q]
                             /\ pc'[r] \in Writing
  BY DEF Reserve, TypeOK, Writing
<1>2. PlainCarts' <=> PlainCarts
  BY <1>1 DEF PlainCarts
<1>3. \A row \in Rows : rowLock'[row] = rowLock[row]
  BY <1>1 DEF StockInv, CartsLocked
<1>4. NoEarlyLocks' /\ CartsLocked' /\ SeenIsCurrent'
  BY <1>1, <1>3
     DEF StockInv, NoEarlyLocks, CartsLocked, SeenIsCurrent, Holding, Writing, Wanted
<1>5. BookedUnderLock'
  <2> SUFFICES ASSUME NEW q \in Requests, NEW row \in Rows, booked'[q][row] # 0
               PROVE  /\ row \in Wanted(body[q])
                      /\ rowLock'[row] = q
                      /\ PlainCarts => booked'[q][row] = Want(body[q], row[2])
    BY <1>1, <1>2 DEF BookedUnderLock
  <2>1. CASE q = r
    <3>1. booked'[q][row] = Increment(r, Copies(r))[row]
      BY <1>1, <2>1 DEF TypeOK
    <3>2. row \in Wanted(body[r])
      BY <3>1, Increments
    <3> QED BY <1>1, <2>1, <3>1, <3>2, Increments
  <2>2. CASE q # r
    <3>1. booked'[q][row] = booked[q][row]
      BY <1>1, <2>2 DEF TypeOK
    <3> QED BY <1>3, <3>1 DEF StockInv, BookedUnderLock
  <2> QED BY <2>1, <2>2
<1>6. StockCheckHolds' /\ NoOversell'
  BY <1>1, <1>2, <1>3 DEF StockInv, StockCheckHolds, NoOversell, Wanted
<1> QED BY <1>4, <1>5, <1>6 DEF StockInv

LEMMA NextStockInv == TypeOK /\ StockInv /\ [Next]_vars => StockInv'
<1> SUFFICES ASSUME TypeOK, StockInv, [Next]_vars PROVE StockInv'
  OBVIOUS
<1> USE DEF vars, config, locks, private, tables
<1>1. ASSUME UNCHANGED vars PROVE StockInv'
  BY <1>1 DEF StockInv, NoEarlyLocks, CartsLocked, SeenIsCurrent, BookedUnderLock,
              StockCheckHolds, NoOversell, PlainCarts
<1>2. ASSUME NEW r \in Requests, Serve(r) \/ Disturb(r) PROVE StockInv'
  <2>1. CASE Begin(r) \/ Enter(r)
    BY <2>1, QuietStep DEF Begin, Enter, Stages, InDialog, Reading, Writing, Holding
  <2>2. CASE GiveUp(r)
    BY <2>2, QuietStep DEF GiveUp, Stages, Writing, Holding
  <2>3. CASE LoadRef(r)
    <3> DEFINE next == IF body[r].kind = "quote" THEN "peek" ELSE "lock"
    <3>1. next \in Stages /\ next \notin Writing
      BY DEF Stages, InDialog, Reading, Writing
    <3>2. pc[r] \notin Holding
      BY <2>3 DEF LoadRef, Holding, Writing
    <3> QED BY <2>3, <3>1, <3>2, QuietStep DEF LoadRef
  <2>4. CASE RejectUnknown(r) \/ MaskedFailure(r) \/ Refuse(r, Checked(r)) \/ Fail(r)
    BY <2>4, QuietStep
       DEF RejectUnknown, MaskedFailure, Refuse, Fail, Abort, Stages, Writing, Holding
  <2>5. CASE Peek(r) \/ Rollback(r)
    BY <2>5, EndStep DEF Peek, Rollback
  <2>6. CASE InsertOrder(r) \/ BumpCoupon(r) \/ EarnPoints(r)
    BY <2>6, QuietStep
       DEF InsertOrder, BumpCoupon, EarnPoints, Stages, InDialog, Writing, Holding
  <2>7. ASSUME NEW answer \in {"ok", "error"}, Commit(r, answer) PROVE StockInv'
    BY <2>7, EndStep DEF Commit, Writing
  <2> QED BY <1>2, <2>1, <2>2, <2>3, <2>4, <2>5, <2>6, <2>7, LockStep, AcceptStep,
             ReserveStep, StepCases
<1> QED BY <1>1, <1>2 DEF Next, Finished

LEMMA StockInvariant == Spec => [](TypeOK /\ StockInv)
BY InitTypeOK, NextTypeOK, InitStockInv, NextStockInv, PTL DEF Spec

\* Committed reservations never exceed the stock on hand, for any number of
\* concurrent checkouts over any carts, on every layer (on pgx, if no cart names a
\* SKU twice).
THEOREM StockNeverOversold == Spec => []NoOversell
BY StockInvariant, PTL DEF StockInv

\* From the check to COMMIT, a checkout holds its rows and they have its stock.
THEOREM CheckStaysTrue == Spec => []StockCheckHolds
BY StockInvariant, PTL DEF StockInv

-----------------------------------------------------------------------------
(* Orders and answers *)

\* A step of one handler leaves the locals, the draft, the order and the answer of
\* every other alone.
LEMMA OthersUntouched ==
    ASSUME TypeOK, NEW r \in Requests, Serve(r) \/ Disturb(r),
           NEW q \in Requests, q # r
    PROVE  /\ UNCHANGED config
           /\ pc'[q] = pc[q] /\ outcome'[q] = outcome[q]
           /\ usedSeen'[q] = usedSeen[q]
           /\ draft'[q] = draft[q] /\ stored'[q] = stored[q]
<1> USE DEF TypeOK, config, private, tables, locks
<1>1. CASE Begin(r) \/ Enter(r) \/ GiveUp(r) \/ LoadRef(r)
  BY <1>1 DEF Begin, Enter, GiveUp, LoadRef
<1>2. CASE RejectUnknown(r) \/ MaskedFailure(r) \/ Refuse(r, Checked(r)) \/ Fail(r)
  BY <1>2 DEF RejectUnknown, MaskedFailure, Refuse, Fail, Abort
<1>3. CASE Peek(r) \/ Rollback(r)
  BY <1>3 DEF Peek, Rollback, Release
<1>4. CASE LockRow(r) \/ Accept(r, Checked(r)) \/ InsertOrder(r)
  BY <1>4 DEF LockRow, Accept, InsertOrder, Insert
<1>5. CASE Reserve(r, Copies(r)) \/ BumpCoupon(r) \/ EarnPoints(r)
  BY <1>5 DEF Reserve, BumpCoupon, EarnPoints, Insert
<1>6. ASSUME NEW answer \in {"ok", "error"}, Commit(r, answer)
      PROVE  /\ UNCHANGED config
             /\ pc'[q] = pc[q] /\ outcome'[q] = outcome[q]
             /\ usedSeen'[q] = usedSeen[q]
             /\ draft'[q] = draft[q] /\ stored'[q] = stored[q]
  BY <1>6 DEF Commit, Release
<1> HIDE DEF TypeOK, config, private, tables, locks
<1> QED BY <1>1, <1>2, <1>3, <1>4, <1>5, <1>6, StepCases

\* The tables an order has rows in once it is whole.
WholeOrder(r) == Tables \ (IF Applied(r) THEN {} ELSE {"coupon"})

\* The tables written so far, by stage.
DraftAt(r) ==
    CASE pc[r] = "reserve" -> {"order", "order_item"}
      [] pc[r] = "coupon"  -> {"order", "order_item", "inventory", "ledger_entry"}
      [] pc[r] = "points"  -> WholeOrder(r) \ {"loyalty_transaction"}
      [] pc[r] = "commit"  -> WholeOrder(r)
      [] OTHER -> {}

\* Where a handler stands says what it may have written and answered.
OrderInvOf(r) ==
    /\ pc[r] \in {"lock"} \cup Writing => body[r].kind = "checkout" /\ Found(body[r])
    /\ pc[r] = "peek" => body[r].kind = "quote" /\ Found(body[r])
    /\ outcome[r] = "none" <=> pc[r] \notin {"rollback", "done"}
    /\ pc[r] = "rollback" => outcome[r] # "ok"
    /\ pc[r] # "rollback" => draft[r] = DraftAt(r)
    /\ pc[r] = "coupon" => Applied(r)
    /\ stored[r] # {} => /\ pc[r] = "done" /\ outcome[r] \in {"ok", "error"}
                         /\ body[r].kind = "checkout"
                         /\ stored[r] = WholeOrder(r)
    /\ outcome[r] = "ok" /\ body[r].kind = "checkout" => stored[r] # {}
    /\ outcome[r] = "not_found" => ~Found(body[r]) \/ layer = "gorm"
    /\ outcome[r] = "insufficient_stock" => body[r].kind = "checkout" /\ Found(body[r])

OrderInv == \A r \in Requests : OrderInvOf(r)

LEMMA InitOrderInv == Init => OrderInv
BY DEF Init, OrderInv, OrderInvOf, DraftAt, Writing

\* OrderInvOf(q) reads nothing but q's own state.
LEMMA OrderInvFrame ==
    ASSUME NEW q \in Requests, OrderInvOf(q), UNCHANGED config,
           pc'[q] = pc[q], outcome'[q] = outcome[q], usedSeen'[q] = usedSeen[q],
           draft'[q] = draft[q], stored'[q] = stored[q]
    PROVE  OrderInvOf(q)'
BY DEF OrderInvOf, config, DraftAt, WholeOrder, Applied, Found

LEMMA NextOrderInv == TypeOK /\ OrderInv /\ [Next]_vars => OrderInv'
<1> SUFFICES ASSUME TypeOK, OrderInv, [Next]_vars PROVE OrderInv'
  OBVIOUS
<1> USE DEF vars, config, locks, private, tables
<1>1. ASSUME UNCHANGED vars PROVE OrderInv'
  BY <1>1, OrderInvFrame DEF OrderInv
<1>2. ASSUME NEW r \in Requests, Serve(r) \/ Disturb(r) PROVE OrderInv'
  <2>1. ASSUME NEW q \in Requests, q # r PROVE OrderInvOf(q)'
    BY <1>2, <2>1, OthersUntouched, OrderInvFrame DEF OrderInv
  <2>2. OrderInvOf(r)'
    <3> USE DEF TypeOK
    <3>1. OrderInvOf(r) /\ body[r] \in Bodies
      BY DEF OrderInv
    <3>2. body[r].kind \in {"quote", "checkout"}
      BY <3>1, BodiesAssumption DEF BodyType
    <3>3. CASE Begin(r) \/ Enter(r) \/ GiveUp(r)
      BY <3>1, <3>3 DEF Begin, Enter, GiveUp, OrderInvOf, DraftAt, Writing
    <3>4. CASE LoadRef(r)
      BY <3>1, <3>2, <3>4 DEF LoadRef, OrderInvOf, DraftAt, Writing
    <3>5. CASE RejectUnknown(r)
      BY <3>1, <3>5 DEF RejectUnknown, Abort, OrderInvOf, Writing
    <3>6. CASE MaskedFailure(r) \/ Fail(r)
      BY <3>1, <3>6 DEF MaskedFailure, Fail, Abort, OrderInvOf, InDialog, Reading, Writing
    <3>7. CASE Refuse(r, Checked(r))
      BY <3>1, <3>7 DEF Refuse, Abort, OrderInvOf, Writing
    <3>8. CASE Peek(r) \/ Rollback(r)
      BY <3>1, <3>8 DEF Peek, Rollback, Release, OrderInvOf, DraftAt, Writing
    <3>9. CASE LockRow(r) \/ Accept(r, Checked(r))
      BY <3>1, <3>9 DEF LockRow, Accept, OrderInvOf, DraftAt, Writing
    <3>10. CASE InsertOrder(r)
      BY <3>1, <3>10 DEF InsertOrder, Insert, OrderInvOf, DraftAt, Writing
    <3>11. CASE Reserve(r, Copies(r))
      <4>1. /\ pc[r] = "reserve"
            /\ pc' = [pc EXCEPT ![r] = IF Applied(r) THEN "coupon" ELSE "points"]
            /\ draft'[r] = {"order", "order_item", "inventory", "ledger_entry"}
            /\ UNCHANGED <<config, outcome, usedSeen, stored>>
        BY <3>1, <3>11 DEF Reserve, Insert, OrderInvOf, DraftAt
      <4>2. (Applied(r) <=> Applied(r)') /\ (WholeOrder(r) = WholeOrder(r)')
        BY <4>1 DEF Applied, WholeOrder
      <4>3. ~Applied(r) => WholeOrder(r) \ {"loyalty_transaction"}
                             = {"order", "order_item", "inventory", "ledger_entry"}
        BY DEF WholeOrder, Tables
      <4> QED BY <3>1, <4>1, <4>2, <4>3 DEF OrderInvOf, DraftAt, Writing, Found
    <3>12. CASE BumpCoupon(r)
      <4>1. /\ pc[r] = "coupon" /\ pc'[r] = "points"
            /\ draft'[r] = {"order", "order_item", "inventory", "ledger_entry", "coupon"}
            /\ UNCHANGED <<config, outcome, usedSeen, stored>>
        BY <3>1, <3>12 DEF BumpCoupon, Insert, OrderInvOf, DraftAt
      <4>2. Applied(r) /\ Applied(r)' /\ WholeOrder(r)' = WholeOrder(r)
        BY <3>1, <4>1 DEF OrderInvOf, Applied, WholeOrder
      <4>3. WholeOrder(r) \ {"loyalty_transaction"} = draft'[r]
        BY <4>1, <4>2 DEF WholeOrder, Tables
      <4> QED BY <3>1, <4>1, <4>2, <4>3 DEF OrderInvOf, DraftAt, Writing, Found
    <3>13. CASE EarnPoints(r)
      <4>1. /\ pc[r] = "points" /\ pc'[r] = "commit"
            /\ draft'[r] = (WholeOrder(r) \ {"loyalty_transaction"})
                             \cup {"loyalty_transaction"}
            /\ UNCHANGED <<config, outcome, usedSeen, stored>>
        BY <3>1, <3>13 DEF EarnPoints, Insert, OrderInvOf, DraftAt
      <4>2. WholeOrder(r)' = WholeOrder(r)
        BY <4>1 DEF WholeOrder, Applied
      <4>3. draft'[r] = WholeOrder(r)
        BY <4>1 DEF WholeOrder, Tables
      <4> QED BY <3>1, <4>1, <4>2, <4>3 DEF OrderInvOf, DraftAt, Writing, Found
    <3>14. ASSUME NEW answer \in {"ok", "error"}, Commit(r, answer)
           PROVE  OrderInvOf(r)'
      <4>0. pc[r] = "commit" /\ draft[r] = WholeOrder(r)
        BY <3>1, <3>14 DEF Commit, OrderInvOf, DraftAt
      <4>1. /\ pc[r] = "commit" /\ pc'[r] = "done"
            /\ outcome'[r] = answer
            /\ stored'[r] = WholeOrder(r) /\ draft'[r] = {}
            /\ UNCHANGED <<config, usedSeen>>
        <5>1. pc'[r] = "done" /\ draft'[r] = {}
          BY <3>14 DEF Commit, Release
        <5>2. outcome'[r] = answer /\ UNCHANGED <<config, usedSeen>>
          BY <3>14 DEF Commit
        <5>3. stored'[r] = draft[r]
          BY <3>14 DEF Commit
        <5> QED BY <4>0, <5>1, <5>2, <5>3
      <4>2. WholeOrder(r)' = WholeOrder(r) /\ WholeOrder(r) # {}
        <5>1. WholeOrder(r)' = WholeOrder(r)
          BY <4>1 DEF WholeOrder, Applied
        <5>2. "order" \in WholeOrder(r)
          BY DEF WholeOrder, Tables
        <5> QED BY <5>1, <5>2
      <4> QED BY <3>1, <3>14, <4>1, <4>2 DEF OrderInvOf, DraftAt, Writing
    <3> HIDE DEF TypeOK
    <3> QED BY <1>2, <3>3, <3>4, <3>5, <3>6, <3>7, <3>8, <3>9, <3>10, <3>11, <3>12,
               <3>13, <3>14, StepCases
  <2> QED BY <2>1, <2>2 DEF OrderInv
<1> QED BY <1>1, <1>2 DEF Next, Finished

LEMMA OrderInvariant == Spec => [](TypeOK /\ OrderInv)
BY InitTypeOK, NextTypeOK, InitOrderInv, NextOrderInv, PTL DEF Spec

\* A committed order has its rows in every table it needs, and a row in coupon
\* exactly when its invoice honoured the coupon.
THEOREM OrdersAreWhole == Spec => []WholeOrders
<1>1. TypeOK /\ OrderInv => WholeOrders
  BY DEF OrderInv, OrderInvOf, WholeOrders, WholeOrder
<1> QED BY <1>1, OrderInvariant, PTL

\* A 200 means an order, a 404 or a 409 means none.
THEOREM AnswersAreHonest == Spec => []HonestAnswers
<1>1. TypeOK /\ OrderInv => HonestAnswers
  BY DEF OrderInv, OrderInvOf, HonestAnswers, Answered
<1> QED BY <1>1, OrderInvariant, PTL

-----------------------------------------------------------------------------
(* Connections and locks *)

\* The stages at which a handler may have updated a coupon.
Bumped == {"points", "commit", "rollback"}

\* Who holds what, by stage.  A cart's rows are locked in the order of their
\* products; the coupon, after all of them.
LocksInv ==
    /\ Cardinality(conns) <= PoolSize
    /\ \A r \in conns : pc[r] \in InDialog \cup {"rollback"}
    /\ \A c \in Coupons, r \in Requests :
         couponLock[c] = r => pc[r] \in Bumped /\ body[r].coupon = c
    /\ \A row \in Rows, r \in Requests : rowLock[row] = r => row \in Wanted(body[r])
    /\ \A r \in Requests : pc[r] = "lock" =>
         \A mine, other \in Wanted(body[r]) :
           rowLock[mine] = r /\ rowLock[other] # r => mine[2] < other[2]

LEMMA InitLocksInv == Init => LocksInv
<1>1. Cardinality({}) = 0
  BY FS_EmptySet
<1> QED BY <1>1, PoolAssumption, RequestsAssumption DEF Init, LocksInv

\* A step of r that neither takes nor gives back anything.
LEMMA KeepsHoldings ==
    ASSUME TypeOK, StockInv, LocksInv, NEW r \in Requests, NEW stage \in Stages,
           pc' = [pc EXCEPT ![r] = stage],
           UNCHANGED <<config, conns, locks>>,
           r \in conns => stage \in InDialog \cup {"rollback"},
           pc[r] \in Bumped => stage \in Bumped,
           stage = "lock" => pc[r] \notin Holding
    PROVE  LocksInv'
<1> USE DEF config, locks
<1>1. \A q \in Requests : pc'[q] = IF q = r THEN stage ELSE pc[q]
  BY DEF TypeOK
<1>2. /\ Cardinality(conns') <= PoolSize
      /\ \A q \in conns' : pc'[q] \in InDialog \cup {"rollback"}
      /\ \A c \in Coupons, q \in Requests :
           couponLock'[c] = q => pc'[q] \in Bumped /\ body'[q].coupon = c
  BY <1>1 DEF LocksInv, TypeOK
<1>3. ASSUME NEW q \in Requests, pc'[q] = "lock",
             NEW mine \in Wanted(body[q]), NEW other \in Wanted(body[q]),
             rowLock[mine] = q, rowLock[other] # q
      PROVE  mine[2] < other[2]
  <2>1. mine \in Rows
    BY DEF Wanted
  <2>2. q # r
    BY <1>1, <1>3, <2>1 DEF StockInv, NoEarlyLocks
  <2> QED BY <1>1, <1>3, <2>2 DEF LocksInv
<1> QED BY <1>2, <1>3 DEF LocksInv

\* Ending a handler gives everything back.
LEMMA EndGivesBack ==
    ASSUME TypeOK, LocksInv, NEW r \in Requests, Release(r), UNCHANGED config
    PROVE  LocksInv'
<1> USE DEF config
<1>1. /\ conns' = conns \ {r}
      /\ \A q \in Requests : pc'[q] = IF q = r THEN "done" ELSE pc[q]
      /\ \A row \in Rows : rowLock'[row] = IF rowLock[row] = r THEN None ELSE rowLock[row]
      /\ \A c \in Coupons : couponLock'[c] = IF couponLock[c] = r THEN None ELSE couponLock[c]
  BY DEF Release, TypeOK
<1>2. Cardinality(conns') <= PoolSize
  <2>1. IsFiniteSet(conns) /\ conns' \subseteq conns
    BY <1>1, RequestsAssumption, FS_Subset DEF TypeOK
  <2>2. Cardinality(conns') <= Cardinality(conns) /\ Cardinality(conns') \in Nat
        /\ Cardinality(conns) \in Nat
    BY <2>1, FS_Subset, FS_CardinalityType
  <2> QED BY <2>2, PoolAssumption DEF LocksInv
<1>3. \A q \in conns' : pc'[q] \in InDialog \cup {"rollback"}
  BY <1>1 DEF LocksInv, TypeOK
<1>4. \A c \in Coupons, q \in Requests :
        couponLock'[c] = q => pc'[q] \in Bumped /\ body'[q].coupon = c
  BY <1>1, RequestsAssumption DEF LocksInv
<1>5. \A row \in Rows, q \in Requests :
        /\ rowLock'[row] = q => rowLock[row] = q /\ q # r
        /\ q # r => (rowLock'[row] = q <=> rowLock[row] = q)
  BY <1>1, RequestsAssumption
<1>6. \A row \in Rows, q \in Requests : rowLock'[row] = q => row \in Wanted(body'[q])
  BY <1>5 DEF LocksInv
<1>7. \A q \in Requests : pc'[q] = "lock" =>
         \A mine, other \in Wanted(body'[q]) :
           rowLock'[mine] = q /\ rowLock'[other] # q => mine[2] < other[2]
  BY <1>1, <1>5 DEF LocksInv, Wanted
<1> QED BY <1>2, <1>3, <1>4, <1>6, <1>7 DEF LocksInv

LEMMA BeginKeepsLocksInv ==
    ASSUME TypeOK, LocksInv, NEW r \in Requests, Begin(r)
    PROVE  LocksInv'
<1> USE DEF config, locks, tables, private
<1>1. /\ conns' = conns \cup {r} /\ Cardinality(conns) < PoolSize
      /\ \A q \in Requests : pc'[q] = IF q = r THEN "load" ELSE pc[q]
      /\ pc[r] = "arrived"
      /\ UNCHANGED <<body, rowLock, couponLock>>
  BY DEF Begin, TypeOK
<1>2. IsFiniteSet(conns) /\ r \notin conns
  BY <1>1, RequestsAssumption, FS_Subset
     DEF TypeOK, LocksInv, InDialog, Reading, Writing
<1>3. Cardinality(conns') <= PoolSize
  <2>1. Cardinality(conns') = Cardinality(conns) + 1 /\ Cardinality(conns) \in Nat
    BY <1>1, <1>2, FS_AddElement, FS_CardinalityType
  <2> QED BY <1>1, <2>1, PoolAssumption
<1>4. \A q \in conns' : pc'[q] \in InDialog \cup {"rollback"}
  BY <1>1 DEF LocksInv, TypeOK, InDialog, Reading
<1>5. \A c \in Coupons, q \in Requests :
        couponLock'[c] = q => pc'[q] \in Bumped /\ body'[q].coupon = c
  BY <1>1 DEF LocksInv, Bumped
<1> QED BY <1>1, <1>3, <1>4, <1>5 DEF LocksInv, Wanted

LEMMA LockRowKeepsLocksInv ==
    ASSUME TypeOK, LocksInv, NEW r \in Requests, LockRow(r)
    PROVE  LocksInv'
<1> USE DEF config, tables
<1>1. PICK row \in Rows :
        /\ NextRow(r, row)
        /\ rowLock[row] = None
        /\ rowLock' = [rowLock EXCEPT ![row] = r]
  BY DEF LockRow
<1>2. UNCHANGED <<body, pc, conns, couponLock>>
  BY DEF LockRow
<1>3. row \in Wanted(body[r])
  BY <1>1 DEF NextRow, Unlocked
<1>4. \A other \in Rows, q \in Requests :
        rowLock'[other] = q <=> (rowLock[other] = q \/ (other = row /\ q = r))
  BY <1>1, RequestsAssumption DEF TypeOK
<1>5. \A other \in Rows, q \in Requests : rowLock'[other] = q => other \in Wanted(body[q])
  BY <1>3, <1>4 DEF LocksInv
<1>6. ASSUME NEW q \in Requests, pc[q] = "lock",
             NEW mine \in Wanted(body[q]), NEW other \in Wanted(body[q]),
             rowLock'[mine] = q, rowLock'[other] # q
      PROVE  mine[2] < other[2]
  <2>1. body[q] \in Bodies
    BY DEF TypeOK
  <2>2. /\ mine \in Rows /\ other \in Rows
        /\ mine[2] \in Nat /\ other[2] \in Nat
        /\ mine = <<body[q].warehouse, mine[2]>>
        /\ other = <<body[q].warehouse, other[2]>>
    BY <2>1, WantedRows, StockAssumption
  <2>3. CASE rowLock[mine] = q
    BY <1>4, <1>6, <2>2, <2>3 DEF LocksInv
  <2>4. CASE mine = row /\ q = r
    <3>1. other # row /\ rowLock[other] # r
      BY <1>4, <1>6, <2>2, <2>4
    <3>2. row[2] <= other[2]
      BY <1>1, <2>4, <3>1 DEF NextRow, Unlocked
    <3> QED BY <2>2, <2>4, <3>1, <3>2
  <2> QED BY <1>4, <1>6, <2>2, <2>3, <2>4
<1> QED BY <1>2, <1>5, <1>6 DEF LocksInv

LEMMA NextLocksInv == TypeOK /\ StockInv /\ LocksInv /\ [Next]_vars => LocksInv'
<1> SUFFICES ASSUME TypeOK, StockInv, LocksInv, [Next]_vars PROVE LocksInv'
  OBVIOUS
<1> USE DEF vars, config, locks, private, tables
<1>1. ASSUME UNCHANGED vars PROVE LocksInv'
  BY <1>1 DEF LocksInv
<1>2. ASSUME NEW r \in Requests, Serve(r) \/ Disturb(r) PROVE LocksInv'
  <2> USE DEF Stages, InDialog, Reading, Writing, Bumped, Holding
  <2>1. CASE Enter(r) \/ GiveUp(r)
    BY <2>1, KeepsHoldings DEF Enter, GiveUp, LocksInv
  <2>2. CASE LoadRef(r)
    BY <2>2, KeepsHoldings DEF LoadRef
  <2>3. CASE RejectUnknown(r) \/ MaskedFailure(r) \/ Refuse(r, Checked(r)) \/ Fail(r)
    BY <2>3, KeepsHoldings DEF RejectUnknown, MaskedFailure, Refuse, Fail, Abort
  <2>4. CASE Peek(r) \/ Rollback(r)
    BY <2>4, EndGivesBack DEF Peek, Rollback
  <2>5. CASE Accept(r, Checked(r)) \/ InsertOrder(r) \/ EarnPoints(r)
    BY <2>5, KeepsHoldings DEF Accept, InsertOrder, EarnPoints
  <2>6. CASE Reserve(r, Copies(r))
    <3>1. /\ pc[r] = "reserve"
          /\ rowLock' = [row \in Rows |-> IF row \in Wanted(body[r]) THEN r
                                          ELSE rowLock[row]]
      BY <2>6 DEF Reserve
    <3>2. \A row \in Wanted(body[r]) : rowLock[row] = r
      BY <3>1 DEF StockInv, CartsLocked
    <3>3. rowLock' = rowLock
      BY <3>1, <3>2 DEF TypeOK
    <3>4. pc[r] \notin Bumped
      BY <3>1
    <3> QED BY <2>6, <3>3, <3>4, KeepsHoldings DEF Reserve
  <2>7. CASE BumpCoupon(r)
    <3>1. /\ pc[r] = "coupon" /\ pc' = [pc EXCEPT ![r] = "points"]
          /\ couponLock' = [couponLock EXCEPT ![body[r].coupon] = r]
          /\ UNCHANGED <<body, conns, rowLock>>
      BY <2>7 DEF BumpCoupon
    <3>2. \A c \in Coupons, q \in Requests :
            couponLock'[c] = q => pc'[q] \in Bumped /\ body'[q].coupon = c
      BY <3>1 DEF LocksInv, TypeOK
    <3> QED BY <3>1, <3>2 DEF LocksInv, TypeOK
  <2>8. ASSUME NEW answer \in {"ok", "error"}, Commit(r, answer) PROVE LocksInv'
    BY <2>8, EndGivesBack DEF Commit
  <2> HIDE DEF Stages, InDialog, Reading, Writing, Bumped, Holding
  <2> QED BY <1>2, <2>1, <2>2, <2>3, <2>4, <2>5, <2>6, <2>7, <2>8, BeginKeepsLocksInv,
             LockRowKeepsLocksInv, StepCases
<1> QED BY <1>1, <1>2 DEF Next, Finished

LEMMA LocksInvariant == Spec => [](TypeOK /\ StockInv /\ OrderInv /\ LocksInv)
BY InitTypeOK, NextTypeOK, InitStockInv, NextStockInv, InitOrderInv, NextOrderInv,
   InitLocksInv, NextLocksInv, PTL DEF Spec

-----------------------------------------------------------------------------
(* Nothing leaks, nobody is deadlocked *)

\* Every way out of a handler returns its connection and leaves no lock behind.
THEOREM HandlersLeakNothing == Spec => []NothingLeaks
<1>1. TypeOK /\ StockInv /\ OrderInv /\ LocksInv => NothingLeaks
  <2> SUFFICES ASSUME TypeOK, StockInv, OrderInv, LocksInv PROVE NothingLeaks
    OBVIOUS
  <2>1. Cardinality(conns) <= PoolSize
    BY DEF LocksInv
  <2>2. ASSUME NEW r \in Requests, pc[r] = "done"
        PROVE  /\ r \notin conns
               /\ \A row \in Rows : rowLock[row] # r
               /\ \A c \in Coupons : couponLock[c] # r
               /\ draft[r] = {} /\ booked[r] = NothingBooked
    <3>1. r \notin conns /\ \A c \in Coupons : couponLock[c] # r
      BY <2>2 DEF LocksInv, InDialog, Reading, Writing, Bumped
    <3>2. \A row \in Rows : rowLock[row] # r
      BY <2>2 DEF StockInv, NoEarlyLocks, Holding, Writing
    <3>3. draft[r] = {}
      BY <2>2 DEF OrderInv, OrderInvOf, DraftAt
    <3>4. \A row \in Rows : booked[r][row] = 0
      BY <3>2 DEF StockInv, BookedUnderLock
    <3> QED BY <3>1, <3>2, <3>3, <3>4 DEF TypeOK, NothingBooked
  <2> QED BY <2>1, <2>2 DEF NothingLeaks
<1> QED BY <1>1, LocksInvariant, PTL

\* A finite set of numbers has a greatest one: the one with the least above it.
LEMMA Greatest ==
    ASSUME NEW W \in SUBSET Nat, IsFiniteSet(W), W # {}
    PROVE  \E m \in W : \A w \in W : w <= m
<1> DEFINE Above(w) == {x \in W : x > w}
           Tails == {Above(w) : w \in W}
<1>1. ASSUME NEW m \in W, NEW w \in W, w > m
      PROVE  <<Above(w), Above(m)>> \in StrictSubsetOrdering(W)
  <2>1. \A x \in W : x > w => x > m
    BY <1>1
  <2>2. Above(w) \subseteq Above(m)
    BY <2>1, Zenon
  <2>3. w \in Above(m) /\ w \notin Above(w)
    BY <1>1
  <2>4. Above(w) \in SUBSET W /\ Above(m) \in SUBSET W
    OBVIOUS
  <2>5. Above(w) # Above(m)
    BY <2>3
  <2> HIDE DEF Above
  <2> QED BY <2>2, <2>4, <2>5 DEF StrictSubsetOrdering
<1>2. Tails \subseteq SUBSET W /\ Tails # {}
  OBVIOUS
<1>3. PICK T \in Tails : \A U \in Tails : ~(<<U, T>> \in StrictSubsetOrdering(W))
  <2> HIDE DEF Tails
  <2>1. IsWellFoundedOn(StrictSubsetOrdering(W), SUBSET W)
    BY FS_StrictSubsetOrderingWellFounded, FS_FiniteSubsetsOfFinite
  <2> QED BY <1>2, <2>1, WFMin
<1>4. PICK m \in W : T = Above(m)
  OBVIOUS
<1>5. ASSUME NEW w \in W, w > m PROVE FALSE
  <2>1. Above(w) \in Tails
    OBVIOUS
  <2> HIDE DEF Above, Tails
  <2> QED BY <1>1, <1>3, <1>4, <1>5, <2>1
<1> QED BY <1>5

\* A handler that waits for a row waits for the first it lacks, and whoever holds
\* that row lacks, if anything, a later one.
LEMMA HoldersAreAhead ==
    ASSUME TypeOK, StockInv, LocksInv,
           NEW r \in Requests, NEW row \in Rows, NextRow(r, row),
           NEW q \in Requests, rowLock[row] = q, pc[q] = "lock",
           NEW next \in Rows, NextRow(q, next)
    PROVE  row[2] < next[2]
<1>1. row \in Wanted(body[q])
  BY DEF LocksInv
<1>2. next \in Wanted(body[q]) /\ rowLock[next] # q
  BY DEF NextRow, Unlocked
<1> QED BY <1>1, <1>2 DEF LocksInv

\* Rows in product order, then the coupon: whatever the carts, no set of checkouts
\* is deadlocked.
THEOREM NobodyIsDeadlocked == Spec => []NoWaitCycle
<1>1. TypeOK /\ StockInv /\ OrderInv /\ LocksInv => NoWaitCycle
  <2> SUFFICES ASSUME TypeOK, StockInv, OrderInv, LocksInv,
                      NEW S \in SUBSET Requests, S # {},
                      \A r \in S : \E q \in S : WaitsFor(r, q)
               PROVE  FALSE
    BY DEF NoWaitCycle
  <2>1. ASSUME NEW r \in S, NEW q \in S, WaitsForCoupon(r, q) PROVE FALSE
    <3>1. pc[r] = "coupon" /\ couponLock[body[r].coupon] = q
      BY <2>1 DEF WaitsForCoupon
    <3>2. body[r] \in BodyType /\ body[r].coupon # None
      BY <3>1, BodiesAssumption DEF OrderInv, OrderInvOf, Applied, TypeOK
    <3>3. body[r].coupon \in Coupons
      BY <3>2 DEF BodyType
    <3>4. pc[q] \in Bumped
      BY <3>1, <3>3 DEF LocksInv
    <3> QED BY <3>4 DEF Bumped, WaitsFor, WaitsForRow, WaitsForCoupon
  <2>2. \A r \in S : \E q \in S : WaitsForRow(r, q)
    BY <2>1 DEF WaitsFor
  <2> DEFINE First(r) == CHOOSE row \in Rows : NextRow(r, row)
             W == {First(r)[2] : r \in S}
             f == [r \in S |-> First(r)[2]]
  <2>3. \A r \in S : First(r) \in Rows /\ NextRow(r, First(r)) /\ pc[r] = "lock"
    BY <2>2 DEF WaitsForRow
  <2>4. \A row \in Rows : row[2] \in Nat
    BY StockAssumption
  <2>5. \A r \in S, row \in Rows : NextRow(r, row) => row[2] = First(r)[2]
    <3> SUFFICES ASSUME NEW r \in S, NEW row \in Rows, NextRow(r, row)
                 PROVE  row[2] = First(r)[2]
      OBVIOUS
    <3>1. row[2] <= First(r)[2] /\ First(r)[2] <= row[2]
      <4> HIDE DEF First
      <4> QED BY <2>3 DEF NextRow
    <3> HIDE DEF First
    <3> QED BY <2>3, <2>4, <3>1
  <2>6. W \in SUBSET Nat /\ IsFiniteSet(W) /\ W # {}
    <3> HIDE DEF First
    <3>1. W \subseteq Nat /\ W # {}
      BY <2>3, <2>4
    <3>2. f \in Surjection(S, W)
      BY DEF Surjection
    <3>3. IsFiniteSet(S)
      BY RequestsAssumption, FS_Subset
    <3> HIDE DEF f, W
    <3> QED BY <3>1, <3>2, <3>3, FS_Surjection
  <2>7. PICK r \in S : \A w \in W : w <= First(r)[2]
    <3> HIDE DEF First
    <3> QED BY <2>6, Greatest
  <2>8. PICK q \in S, row \in Rows : NextRow(r, row) /\ rowLock[row] = q
    BY <2>2 DEF WaitsForRow
  <2>9. row[2] < First(q)[2]
    BY <2>3, <2>8, HoldersAreAhead
  <2>10. row[2] = First(r)[2] /\ First(q)[2] \in W
    BY <2>5, <2>8, ZenonT(30)
  <2> HIDE DEF First
  <2>11. First(q)[2] <= First(r)[2] /\ First(q)[2] \in Nat /\ First(r)[2] \in Nat
    BY <2>3, <2>4, <2>7, <2>10
  <2> QED BY <2>9, <2>10, <2>11
<1> QED BY <1>1, LocksInvariant, PTL

-----------------------------------------------------------------------------
(* Coupons *)

\* A checkout keeps its connection from BEGIN to the end.
KeepsConnection ==
    \A r \in Requests :
      body[r].kind = "checkout" /\ pc[r] \notin {"arrived", "done"} => r \in conns

\* The transactions that will use c, if they commit.
OpenUses(c) == {r \in conns : /\ pc[r] \in {"lock"} \cup Writing
                              /\ body[r].coupon = c
                              /\ Applied(r)}

\* A transaction that found a use free was one of PoolSize; those that did so before
\* it are open still, or counted in times_used.
UsesBounded ==
    \A c \in Coupons :
      timesUsed[c] + Cardinality(OpenUses(c)) <= MaxUses[c] + PoolSize - 1

CouponInv == KeepsConnection /\ UsesBounded /\ CouponCountExact

LEMMA InitCouponInv == Init => CouponInv
<1> SUFFICES ASSUME Init PROVE CouponInv
  OBVIOUS
<1>1. KeepsConnection
  BY DEF Init, KeepsConnection
<1>2. ASSUME NEW c \in Coupons
      PROVE  timesUsed[c] + Cardinality(OpenUses(c)) <= MaxUses[c] + PoolSize - 1
  <2>1. OpenUses(c) = {}
    BY DEF Init, OpenUses
  <2>2. timesUsed[c] = 0 /\ MaxUses[c] \in Nat
    BY CouponsAssumption DEF Init
  <2> QED BY <2>1, <2>2, FS_EmptySet, PoolAssumption
<1>3. CouponCountExact
  <2>1. ASSUME NEW c \in Coupons
        PROVE  {r \in Requests : "coupon" \in stored[r] /\ body[r].coupon = c} = {}
    BY DEF Init
  <2> QED BY <2>1, FS_EmptySet DEF Init, CouponCountExact
<1> QED BY <1>1, <1>2, <1>3 DEF CouponInv, UsesBounded

\* A step of r that commits nothing and after which r is no more about to use a
\* coupon than it was.
LEMMA KeepsUses ==
    ASSUME TypeOK, LocksInv, CouponInv, NEW r \in Requests, NEW stage \in Stages,
           pc' = [pc EXCEPT ![r] = stage],
           UNCHANGED <<config, usedSeen, timesUsed, stored>>,
           conns' = conns \/ conns' = conns \ {r} \/ conns' = conns \cup {r},
           body[r].kind = "checkout" /\ stage \notin {"arrived", "done"} => r \in conns',
           stage \in {"lock"} \cup Writing => pc[r] \in {"lock"} \cup Writing /\ r \in conns
    PROVE  CouponInv'
<1> USE DEF config
<1>1. \A q \in Requests : pc'[q] = IF q = r THEN stage ELSE pc[q]
  BY DEF TypeOK
<1>2. KeepsConnection'
  BY <1>1 DEF CouponInv, KeepsConnection
<1>3. CouponCountExact'
  BY DEF CouponInv, CouponCountExact
<1>4. ASSUME NEW c \in Coupons
      PROVE  timesUsed'[c] + Cardinality(OpenUses(c)') <= MaxUses[c] + PoolSize - 1
  <2>1. OpenUses(c)' \subseteq OpenUses(c) /\ OpenUses(c) \subseteq Requests
    BY <1>1 DEF OpenUses, Applied, TypeOK
  <2>2. /\ Cardinality(OpenUses(c)') <= Cardinality(OpenUses(c))
        /\ Cardinality(OpenUses(c)') \in Nat /\ Cardinality(OpenUses(c)) \in Nat
    BY <2>1, RequestsAssumption, FS_Subset, FS_CardinalityType
  <2>3. timesUsed[c] \in Nat /\ MaxUses[c] \in Nat /\ PoolSize \in Nat
    BY CouponsAssumption, PoolAssumption DEF TypeOK
  <2>4. timesUsed[c] + Cardinality(OpenUses(c)) <= MaxUses[c] + PoolSize - 1
    BY DEF CouponInv, UsesBounded
  <2> QED BY <2>2, <2>3, <2>4
<1> QED BY <1>2, <1>3, <1>4 DEF CouponInv, UsesBounded

\* The read that decides: whoever finds a use free is within the pool.
LEMMA LoadRefKeepsCouponInv ==
    ASSUME TypeOK, LocksInv, CouponInv, NEW r \in Requests, LoadRef(r)
    PROVE  CouponInv'
<1> USE DEF config, locks, tables
<1>1. /\ UNCHANGED <<body, conns, timesUsed, stored>>
      /\ pc[r] = "load"
      /\ pc' = [pc EXCEPT ![r] = IF body[r].kind = "quote" THEN "peek" ELSE "lock"]
      /\ usedSeen' = [usedSeen EXCEPT ![r] =
                        IF body[r].coupon = None THEN 0 ELSE timesUsed[body[r].coupon]]
  BY DEF LoadRef
<1>2. KeepsConnection'
  BY <1>1 DEF CouponInv, KeepsConnection, TypeOK
<1>3. CouponCountExact'
  BY <1>1 DEF CouponInv, CouponCountExact
<1>4. ASSUME NEW c \in Coupons
      PROVE  timesUsed'[c] + Cardinality(OpenUses(c)') <= MaxUses[c] + PoolSize - 1
  <2>1. timesUsed[c] \in Nat /\ MaxUses[c] \in Nat /\ PoolSize \in Nat
    BY CouponsAssumption, PoolAssumption DEF TypeOK
  <2>2. timesUsed'[c] = timesUsed[c]
    BY <1>1
  <2>3. IsFiniteSet(conns) /\ OpenUses(c)' \subseteq conns
    BY <1>1, RequestsAssumption, FS_Subset DEF TypeOK, OpenUses
  <2>4. /\ Cardinality(OpenUses(c)') \in Nat
        /\ Cardinality(OpenUses(c)') <= Cardinality(conns)
        /\ Cardinality(conns) \in Nat /\ Cardinality(conns) <= PoolSize
    BY <2>3, FS_Subset, FS_CardinalityType DEF LocksInv
  <2>5. CASE r \in OpenUses(c)'
    <3>1. body[r].coupon = c /\ Applied(r)'
      BY <1>1, <2>5 DEF OpenUses
    <3>2. timesUsed[c] < MaxUses[c]
      BY <1>1, <3>1, CouponsAssumption DEF Applied, TypeOK
    <3> QED BY <2>1, <2>2, <2>4, <3>2
  <2>6. CASE r \notin OpenUses(c)'
    <3>1. OpenUses(c)' \subseteq OpenUses(c)
      <4> SUFFICES ASSUME NEW q \in OpenUses(c)' PROVE q \in OpenUses(c)
        OBVIOUS
      <4>1. q \in Requests /\ q # r
        BY <2>3, <2>6 DEF TypeOK
      <4>2. pc'[q] = pc[q] /\ usedSeen'[q] = usedSeen[q]
        BY <1>1, <4>1 DEF TypeOK
      <4> QED BY <1>1, <4>2 DEF OpenUses, Applied
    <3>2. IsFiniteSet(OpenUses(c))
      BY <2>3, FS_Subset DEF OpenUses
    <3>3. /\ Cardinality(OpenUses(c)') <= Cardinality(OpenUses(c))
          /\ Cardinality(OpenUses(c)) \in Nat
      BY <3>1, <3>2, FS_Subset, FS_CardinalityType
    <3>4. timesUsed[c] + Cardinality(OpenUses(c)) <= MaxUses[c] + PoolSize - 1
      BY DEF CouponInv, UsesBounded
    <3> QED BY <2>1, <2>2, <2>4, <3>3, <3>4
  <2> QED BY <2>5, <2>6
<1> QED BY <1>2, <1>3, <1>4 DEF CouponInv, UsesBounded

\* COMMIT turns an open use into a counted one.
LEMMA CommitKeepsCouponInv ==
    ASSUME TypeOK, OrderInv, LocksInv, CouponInv,
           NEW r \in Requests, NEW answer, Commit(r, answer)
    PROVE  CouponInv'
<1> USE DEF config
<1>1. /\ UNCHANGED <<body, usedSeen>>
      /\ conns' = conns \ {r}
      /\ pc[r] = "commit" /\ pc' = [pc EXCEPT ![r] = "done"]
      /\ timesUsed' = [c \in Coupons |-> UsesAfter(r, c)]
      /\ stored' = [stored EXCEPT ![r] = draft[r]]
  BY DEF Commit, Release
<1>2. /\ body[r].kind = "checkout" /\ draft[r] = WholeOrder(r) /\ stored[r] = {}
      /\ r \in conns
  BY <1>1 DEF OrderInv, OrderInvOf, DraftAt, CouponInv, KeepsConnection, Writing
<1>3. "coupon" \in draft[r] <=> Applied(r)
  BY <1>2 DEF WholeOrder, Tables
<1>4. \A q \in Requests : pc'[q] = IF q = r THEN "done" ELSE pc[q]
  BY <1>1 DEF TypeOK
<1>5. KeepsConnection'
  BY <1>1, <1>4 DEF CouponInv, KeepsConnection
<1>6. ASSUME NEW c \in Coupons
      PROVE  /\ timesUsed'[c] + Cardinality(OpenUses(c)') <= MaxUses[c] + PoolSize - 1
             /\ timesUsed'[c] = Cardinality({q \in Requests : /\ "coupon" \in stored'[q]
                                                              /\ body'[q].coupon = c})
  <2> DEFINE Used == {q \in Requests : "coupon" \in stored[q] /\ body[q].coupon = c}
             UsedNow == {q \in Requests : "coupon" \in stored'[q] /\ body'[q].coupon = c}
  <2>1. /\ timesUsed[c] \in Nat /\ MaxUses[c] \in Nat /\ PoolSize \in Nat
        /\ timesUsed[c] = Cardinality(Used)
        /\ timesUsed[c] + Cardinality(OpenUses(c)) <= MaxUses[c] + PoolSize - 1
    BY CouponsAssumption, PoolAssumption
       DEF TypeOK, CouponInv, CouponCountExact, UsesBounded
  <2>2. /\ IsFiniteSet(Used) /\ r \notin Used
        /\ IsFiniteSet(OpenUses(c)) /\ Cardinality(OpenUses(c)) \in Nat
    BY <1>2, RequestsAssumption, FS_Subset, FS_CardinalityType DEF OpenUses, TypeOK
  <2>3. OpenUses(c)' = OpenUses(c) \ {r}
    <3>1. \A q \in conns' : q \in Requests /\ q # r /\ pc'[q] = pc[q]
      BY <1>1, <1>4 DEF TypeOK
    <3> QED BY <1>1, <3>1 DEF OpenUses, Applied
  <2>4. CASE Applied(r) /\ body[r].coupon = c
    <3>1. timesUsed'[c] = timesUsed[c] + 1
      BY <1>1, <1>3, <2>4 DEF UsesAfter
    <3>2. r \in OpenUses(c)
      BY <1>1, <1>2, <2>4 DEF OpenUses, Writing
    <3>3. Cardinality(OpenUses(c)') = Cardinality(OpenUses(c)) - 1
      BY <2>2, <2>3, <3>2, FS_RemoveElement
    <3>4. UsedNow = Used \cup {r}
      BY <1>1, <1>3, <2>4 DEF TypeOK
    <3>5. Cardinality(UsedNow) = Cardinality(Used) + 1
      <4> HIDE DEF Used, UsedNow
      <4> QED BY <2>2, <3>4, FS_AddElement
    <3> HIDE DEF Used
    <3> QED BY <2>1, <2>2, <3>1, <3>3, <3>5
  <2>5. CASE ~(Applied(r) /\ body[r].coupon = c)
    <3>1. timesUsed'[c] = timesUsed[c]
      BY <1>1, <1>3, <2>5 DEF UsesAfter
    <3>2. OpenUses(c)' = OpenUses(c)
      BY <2>3, <2>5 DEF OpenUses
    <3>3. UsedNow = Used
      BY <1>1, <1>2, <1>3, <2>5 DEF TypeOK
    <3> HIDE DEF Used
    <3> QED BY <2>1, <3>1, <3>2, <3>3
  <2> QED BY <2>4, <2>5
<1> QED BY <1>5, <1>6 DEF CouponInv, UsesBounded, CouponCountExact

LEMMA NextCouponInv ==
    TypeOK /\ OrderInv /\ LocksInv /\ CouponInv /\ [Next]_vars => CouponInv'
<1> SUFFICES ASSUME TypeOK, OrderInv, LocksInv, CouponInv, [Next]_vars
             PROVE  CouponInv'
  OBVIOUS
<1> USE DEF vars, config, locks, private, tables
<1>1. ASSUME UNCHANGED vars PROVE CouponInv'
  BY <1>1 DEF CouponInv, KeepsConnection, UsesBounded, OpenUses, Applied, CouponCountExact
<1>2. ASSUME NEW r \in Requests, Serve(r) \/ Disturb(r) PROVE CouponInv'
  <2> USE DEF Stages, InDialog, Reading, Writing, LocksInv
  <2>1. CASE Begin(r) \/ (Enter(r) /\ body[r].kind = "quote") \/ GiveUp(r)
    BY <2>1, KeepsUses DEF Begin, Enter, GiveUp
  <2>2. CASE RejectUnknown(r) \/ MaskedFailure(r) \/ Refuse(r, Checked(r)) \/ Fail(r)
    BY <2>2, KeepsUses
       DEF RejectUnknown, MaskedFailure, Refuse, Fail, Abort, CouponInv, KeepsConnection
  <2>3. CASE Peek(r) \/ Rollback(r)
    BY <2>3, KeepsUses DEF Peek, Rollback, Release
  <2>4. CASE LockRow(r)
    BY <2>4 DEF LockRow, CouponInv, KeepsConnection, UsesBounded, OpenUses, Applied,
                CouponCountExact
  <2>5. CASE Accept(r, Checked(r)) \/ InsertOrder(r) \/ Reserve(r, Copies(r))
             \/ BumpCoupon(r) \/ EarnPoints(r)
    <3>1. pc[r] \in {"lock"} \cup Writing /\ r \in conns
      BY <2>5 DEF Accept, InsertOrder, Reserve, BumpCoupon, EarnPoints, OrderInv,
                  OrderInvOf, CouponInv, KeepsConnection
    <3>2. CASE Accept(r, Checked(r)) \/ InsertOrder(r)
      BY <3>1, <3>2, KeepsUses DEF Accept, InsertOrder
    <3>3. CASE Reserve(r, Copies(r))
      <4> DEFINE next == IF Applied(r) THEN "coupon" ELSE "points"
      <4>1. next \in Stages /\ pc' = [pc EXCEPT ![r] = next]
        BY <3>3 DEF Reserve
      <4> HIDE DEF next
      <4> QED BY <3>1, <3>3, <4>1, KeepsUses DEF Reserve
    <3>4. CASE BumpCoupon(r) \/ EarnPoints(r)
      BY <3>1, <3>4, KeepsUses DEF BumpCoupon, EarnPoints
    <3> QED BY <2>5, <3>2, <3>3, <3>4
  <2> HIDE DEF Stages, InDialog, Reading, Writing, LocksInv
  <2>6. ASSUME NEW answer \in {"ok", "error"}, Commit(r, answer) PROVE CouponInv'
    BY <2>6, CommitKeepsCouponInv
  <2> HIDE DEF vars, config, locks, private, tables
  <2> QED BY <1>2, <2>1, <2>2, <2>3, <2>4, <2>5, <2>6, LoadRefKeepsCouponInv, StepCases
<1> QED BY <1>1, <1>2 DEF Next, Finished

LEMMA CouponInvariant == Spec => [](TypeOK /\ LocksInv /\ CouponInv)
BY InitTypeOK, NextTypeOK, InitStockInv, NextStockInv, InitOrderInv, NextOrderInv,
   InitLocksInv, NextLocksInv, InitCouponInv, NextCouponInv, PTL DEF Spec

\* times_used counts the committed orders that used the coupon: concurrent UPDATEs
\* lose none, and a rolled back one leaves none.
THEOREM CouponUsesAreCounted == Spec => []CouponCountExact
BY CouponInvariant, PTL DEF CouponInv

\* Overlapping checkouts that all read the last use as free overrun the coupon's
\* limit by fewer uses than the pool has connections.
THEOREM CouponOverrunIsBounded == Spec => []CouponOverrunBounded
<1>1. TypeOK /\ LocksInv /\ CouponInv => CouponOverrunBounded
  <2> SUFFICES ASSUME TypeOK, LocksInv, CouponInv, NEW c \in Coupons
               PROVE  timesUsed[c] <= MaxUses[c] + PoolSize - 1
    BY DEF CouponOverrunBounded
  <2>1. Cardinality(OpenUses(c)) \in Nat
    BY RequestsAssumption, FS_Subset, FS_CardinalityType DEF OpenUses, TypeOK
  <2>2. timesUsed[c] \in Nat /\ MaxUses[c] \in Nat /\ PoolSize \in Nat
    BY CouponsAssumption, PoolAssumption DEF TypeOK
  <2> QED BY <2>1, <2>2 DEF CouponInv, UsesBounded
<1> QED BY <1>1, CouponInvariant, PTL

(***************************************************************************)
(* Checkout keeps the promises of OrderBook: refusals are justified, and   *)
(* the handlers, statements and locks amount to orders placed one at a     *)
(* time.                                                                   *)
(***************************************************************************)
-----------------------------------------------------------------------------
(* What a checkout has read, booked and refused *)

Carried(r) == \A p \in Asked(body[r]) : <<body[r].warehouse, p>> \in Rows

\* A pgx checkout past its check has a row for every product of its cart.
PgxCarried ==
    layer = "pgx" =>
      \A r \in Requests : pc[r] \in Writing \/ stored[r] # {} => Carried(r)

\* avail[pid] is 0 for a product the warehouse has no row of.
SeenNothingElse ==
    \A r \in Requests, p \in Products :
      <<body[r].warehouse, p>> \notin Rows => seen[r][p] = 0

\* Once its UPDATEs have run, a checkout has booked its whole cart.
WholeCartBooked ==
    PlainCarts =>
      \A r \in Requests : pc[r] \in {"coupon", "points", "commit"} =>
        \A row \in Wanted(body[r]) : booked[r][row] = Want(body[r], row[2])

CartInv == PgxCarried /\ SeenNothingElse /\ WholeCartBooked /\ RefusalsJustified

LEMMA InitCartInv == Init => CartInv
BY DEF Init, CartInv, PgxCarried, SeenNothingElse, WholeCartBooked, RefusalsJustified,
       Writing

\* A refusal stays justified as long as reservations only grow.
LEMMA RefusalsStay ==
    ASSUME TypeOK, RefusalsJustified, UNCHANGED config,
           \A row \in Rows : reserved'[row] \in Nat /\ reserved'[row] >= reserved[row],
           \A r \in Requests : outcome'[r] = "insufficient_stock"
                                 => outcome[r] = "insufficient_stock"
    PROVE  RefusalsJustified'
<1> SUFFICES ASSUME NEW r \in Requests, outcome'[r] = "insufficient_stock"
             PROVE  \E p \in Asked(body[r]) :
                      LET row == <<body[r].warehouse, p>> IN
                      IF row \in Rows THEN OnHand[row] - reserved'[row] < Want(body[r], p)
                                      ELSE layer = "pgx"
  BY DEF RefusalsJustified, config
<1>1. PICK p \in Asked(body[r]) :
        LET row == <<body[r].warehouse, p>> IN
        IF row \in Rows THEN OnHand[row] - reserved[row] < Want(body[r], p)
                        ELSE layer = "pgx"
  BY DEF RefusalsJustified
<1> DEFINE row == <<body[r].warehouse, p>>
<1>2. CASE row \in Rows
  <2>1. /\ OnHand[row] \in Nat /\ reserved[row] \in Nat /\ reserved'[row] \in Nat
        /\ reserved'[row] >= reserved[row]
        /\ Want(body[r], p) \in Nat
    BY <1>2, StockAssumption, Wants DEF TypeOK
  <2> QED BY <1>1, <1>2, <2>1
<1>3. CASE row \notin Rows
  BY <1>1, <1>3
<1> QED BY <1>2, <1>3

\* A step of r that reads and books nothing and commits no reservation.
LEMMA KeepsCarts ==
    ASSUME TypeOK, CartInv, NEW r \in Requests, NEW stage \in Stages,
           pc' = [pc EXCEPT ![r] = stage],
           UNCHANGED <<config, seen, booked, reserved, stored>>,
           stage \in Writing => pc[r] \in Writing,
           stage \in {"coupon", "points", "commit"} => pc[r] \in {"coupon", "points"},
           \A q \in Requests : outcome'[q] = "insufficient_stock"
                                 => outcome[q] = "insufficient_stock"
    PROVE  CartInv'
<1> USE DEF config
<1>1. \A q \in Requests : pc'[q] = IF q = r THEN stage ELSE pc[q]
  BY DEF TypeOK
<1>2. RefusalsJustified'
  BY RefusalsStay DEF CartInv, TypeOK
<1>3. PgxCarried' /\ SeenNothingElse' /\ WholeCartBooked'
  BY <1>1 DEF CartInv, PgxCarried, Carried, SeenNothingElse, WholeCartBooked, PlainCarts
<1> QED BY <1>2, <1>3 DEF CartInv

\* Ending a handler: reservations stay or grow.
LEMMA EndKeepsCarts ==
    ASSUME TypeOK, CartInv, NEW r \in Requests, Release(r), UNCHANGED config,
           \/ UNCHANGED reserved
           \/ reserved' = [row \in Rows |-> reserved[row] + booked[r][row]],
           \/ UNCHANGED stored
           \/ pc[r] \in Writing /\ stored' = [stored EXCEPT ![r] = draft[r]],
           \A q \in Requests : outcome'[q] = "insufficient_stock"
                                 => outcome[q] = "insufficient_stock"
    PROVE  CartInv'
<1> USE DEF config
<1>1. /\ \A q \in Requests : pc'[q] = IF q = r THEN "done" ELSE pc[q]
      /\ seen' = [seen EXCEPT ![r] = [p \in Products |-> 0]]
      /\ \A q \in Requests : q # r => booked'[q] = booked[q]
  BY DEF Release, TypeOK
<1>2. \A row \in Rows : reserved'[row] \in Nat /\ reserved'[row] >= reserved[row]
  BY DEF TypeOK
<1>3. RefusalsJustified'
  BY <1>2, RefusalsStay DEF CartInv
<1>4. SeenNothingElse'
  BY <1>1 DEF CartInv, SeenNothingElse, TypeOK
<1>5. \A q \in Requests : pc'[q] \in Writing \/ stored'[q] # {}
                            => pc[q] \in Writing \/ stored[q] # {}
  BY <1>1 DEF Writing, TypeOK
<1>6. PgxCarried'
  BY <1>5 DEF CartInv, PgxCarried, Carried
<1>7. WholeCartBooked'
  BY <1>1 DEF CartInv, WholeCartBooked, PlainCarts
<1> QED BY <1>3, <1>4, <1>6, <1>7 DEF CartInv

\* The check, pgx: a product without a row is short, whatever the quantity.
LEMMA AcceptKeepsCarts ==
    ASSUME TypeOK, OrderInv, CartInv, NEW r \in Requests, Accept(r, Checked(r))
    PROVE  CartInv'
<1> USE DEF config, private, tables
<1>1. /\ pc[r] = "lock" /\ pc' = [pc EXCEPT ![r] = "order"]
      /\ Short(r, Checked(r)) = {}
      /\ UNCHANGED <<config, outcome, seen, booked, reserved, stored>>
  BY DEF Accept
<1>2. layer = "pgx" => Carried(r)
  <2> SUFFICES ASSUME layer = "pgx", NEW p \in Asked(body[r]),
                      <<body[r].warehouse, p>> \notin Rows
               PROVE  FALSE
    BY DEF Carried
  <2>1. p \in Products /\ body[r] \in Bodies
    BY <1>1 DEF OrderInv, OrderInvOf, Found, TypeOK
  <2>2. seen[r][p] = 0
    BY <2>1 DEF CartInv, SeenNothingElse
  <2>3. Want(body[r], p) \in Nat \ {0}
    BY <2>1, Wants
  <2>4. p \in Short(r, Checked(r))
    BY <2>2, <2>3 DEF Short, Checked
  <2> QED BY <1>1, <2>4
<1>3. PgxCarried'
  BY <1>1, <1>2 DEF CartInv, PgxCarried, Carried, TypeOK
<1>4. WholeCartBooked' /\ SeenNothingElse' /\ RefusalsJustified'
  BY <1>1 DEF CartInv, WholeCartBooked, PlainCarts, SeenNothingElse, RefusalsJustified,
              TypeOK
<1> QED BY <1>3, <1>4 DEF CartInv

\* The check, the other way: the rows are locked, so what was seen is the truth.
LEMMA RefuseKeepsCarts ==
    ASSUME TypeOK, StockInv, CartInv, NEW r \in Requests, Refuse(r, Checked(r))
    PROVE  CartInv'
<1> USE DEF config, private, tables
<1>1. /\ pc[r] = "lock" /\ pc' = [pc EXCEPT ![r] = "rollback"]
      /\ Unlocked(r) = {} /\ Short(r, Checked(r)) # {}
      /\ outcome' = [outcome EXCEPT ![r] = "insufficient_stock"]
      /\ UNCHANGED <<config, seen, booked, reserved, stored>>
  BY DEF Refuse, Abort
<1>2. PICK p \in Checked(r) : seen[r][p] < Want(body[r], p)
  BY <1>1 DEF Short
<1> DEFINE row == <<body[r].warehouse, p>>
<1>3. p \in Asked(body[r]) /\ (layer = "pgx" \/ row \in Rows)
  <2>1. body[r] \in Bodies
    BY DEF TypeOK
  <2>2. \A other \in Wanted(body[r]) :
          /\ other[2] \in Asked(body[r]) /\ other \in Rows
          /\ other = <<body[r].warehouse, other[2]>>
    BY <2>1, WantedRows
  <2> QED BY <2>2 DEF Checked, RowProducts
<1>4. row \in Rows => OnHand[row] - reserved[row] < Want(body[r], p)
  <2> SUFFICES ASSUME row \in Rows
               PROVE  OnHand[row] - reserved[row] < Want(body[r], p)
    OBVIOUS
  <2>1. row \in Wanted(body[r])
    BY <1>3 DEF Wanted
  <2>2. rowLock[row] = r
    BY <1>1, <2>1 DEF Unlocked
  <2>3. seen[r][p] = OnHand[row] - reserved[row]
    BY <1>1, <2>1, <2>2 DEF StockInv, SeenIsCurrent
  <2> QED BY <1>2, <2>3
<1>5. \A q \in Requests : q # r => outcome'[q] = outcome[q]
  BY <1>1 DEF TypeOK
<1>6. RefusalsJustified'
  BY <1>1, <1>3, <1>4, <1>5 DEF CartInv, RefusalsJustified
<1>7. PgxCarried' /\ WholeCartBooked' /\ SeenNothingElse'
  BY <1>1 DEF CartInv, PgxCarried, Carried, WholeCartBooked, PlainCarts, SeenNothingElse,
              Writing, TypeOK
<1> QED BY <1>6, <1>7 DEF CartInv

LEMMA LockRowKeepsCarts ==
    ASSUME TypeOK, CartInv, NEW r \in Requests, LockRow(r)
    PROVE  CartInv'
<1> USE DEF config, tables
<1>1. PICK row \in Rows :
        /\ row \in Wanted(body[r])
        /\ seen' = [seen EXCEPT ![r][row[2]] = OnHand[row] - reserved[row]]
  BY DEF LockRow, NextRow, Unlocked
<1>2. UNCHANGED <<config, pc, outcome, booked, reserved, stored>>
  BY DEF LockRow
<1>3. row = <<body[r].warehouse, row[2]>>
  BY <1>1, WantedRows DEF TypeOK
<1>4. SeenNothingElse'
  BY <1>1, <1>2, <1>3 DEF CartInv, SeenNothingElse, TypeOK
<1>5. PgxCarried' /\ WholeCartBooked' /\ RefusalsJustified'
  BY <1>2 DEF CartInv, PgxCarried, Carried, WholeCartBooked, PlainCarts, RefusalsJustified
<1> QED BY <1>4, <1>5 DEF CartInv

LEMMA ReserveKeepsCarts ==
    ASSUME TypeOK, StockInv, CartInv, NEW r \in Requests, Reserve(r, Copies(r))
    PROVE  CartInv'
<1> USE DEF config, tables
<1>1. /\ pc[r] = "reserve"
      /\ pc' = [pc EXCEPT ![r] = IF Applied(r) THEN "coupon" ELSE "points"]
      /\ booked' = [booked EXCEPT ![r] = Increment(r, Copies(r))]
      /\ UNCHANGED <<config, outcome, seen, reserved, stored>>
  BY DEF Reserve
<1>2. SeenNothingElse' /\ RefusalsJustified'
  BY <1>1 DEF CartInv, SeenNothingElse, RefusalsJustified
<1>3. PgxCarried'
  BY <1>1 DEF CartInv, PgxCarried, Carried, Writing, TypeOK
<1>4. WholeCartBooked'
  <2> SUFFICES ASSUME PlainCarts, NEW q \in Requests,
                      pc'[q] \in {"coupon", "points", "commit"},
                      NEW row \in Wanted(body[q])
               PROVE  booked'[q][row] = Want(body[q], row[2])
    BY <1>1 DEF WholeCartBooked, PlainCarts
  <2>1. CASE q = r
    BY <1>1, <2>1, Increments DEF TypeOK
  <2>2. CASE q # r
    BY <1>1, <2>2 DEF CartInv, WholeCartBooked, TypeOK
  <2> QED BY <2>1, <2>2
<1> QED BY <1>2, <1>3, <1>4 DEF CartInv

LEMMA NextCartInv ==
    TypeOK /\ StockInv /\ OrderInv /\ CartInv /\ [Next]_vars => CartInv'
<1> SUFFICES ASSUME TypeOK, StockInv, OrderInv, CartInv, [Next]_vars PROVE CartInv'
  OBVIOUS
<1> USE DEF vars, config, locks, private, tables
<1>1. ASSUME UNCHANGED vars PROVE CartInv'
  BY <1>1 DEF CartInv, PgxCarried, Carried, SeenNothingElse, WholeCartBooked, PlainCarts,
              RefusalsJustified
<1>2. ASSUME NEW r \in Requests, Serve(r) \/ Disturb(r) PROVE CartInv'
  <2>1. CASE Begin(r) \/ (Enter(r) /\ body[r].kind = "quote") \/ GiveUp(r)
    <3>1. \A q \in Requests : outcome'[q] = "insufficient_stock"
                                => outcome[q] = "insufficient_stock"
      BY <2>1 DEF Begin, Enter, GiveUp, TypeOK
    <3> QED BY <2>1, <3>1, KeepsCarts
            DEF Begin, Enter, GiveUp, Stages, InDialog, Reading, Writing
  <2>2. CASE LoadRef(r)
    <3> DEFINE next == IF body[r].kind = "quote" THEN "peek" ELSE "lock"
    <3>1. next \in Stages /\ next \notin Writing
          /\ next \notin {"coupon", "points", "commit"}
      BY DEF Stages, InDialog, Reading, Writing
    <3> QED BY <2>2, <3>1, KeepsCarts DEF LoadRef
  <2>3. CASE RejectUnknown(r) \/ MaskedFailure(r) \/ Fail(r)
    <3>1. PICK why \in {"not_found", "error"} : Abort(r, why)
      BY <2>3 DEF RejectUnknown, MaskedFailure, Fail
    <3>2. \A q \in Requests : outcome'[q] = "insufficient_stock"
                                => outcome[q] = "insufficient_stock"
      BY <3>1 DEF Abort, TypeOK
    <3> QED BY <3>1, <3>2, KeepsCarts DEF Abort, Stages, Writing
  <2>4. CASE Peek(r) \/ Rollback(r)
    <3>1. \A q \in Requests : outcome'[q] = "insufficient_stock"
                                => outcome[q] = "insufficient_stock"
      BY <2>4 DEF Peek, Rollback, TypeOK
    <3> QED BY <2>4, <3>1, EndKeepsCarts DEF Peek, Rollback
  <2>5. CASE InsertOrder(r)
    BY <2>5, KeepsCarts DEF InsertOrder, Stages, InDialog, Writing
  <2>6. CASE BumpCoupon(r) \/ EarnPoints(r)
    BY <2>6, KeepsCarts DEF BumpCoupon, EarnPoints, Stages, InDialog, Writing
  <2>7. ASSUME NEW answer \in {"ok", "error"}, Commit(r, answer) PROVE CartInv'
    <3>1. \A q \in Requests : outcome'[q] = "insufficient_stock"
                                => outcome[q] = "insufficient_stock"
      BY <2>7 DEF Commit, TypeOK
    <3> QED BY <2>7, <3>1, EndKeepsCarts DEF Commit, Writing
  <2> HIDE DEF vars, config, locks, private, tables
  <2> QED BY <1>2, <2>1, <2>2, <2>3, <2>4, <2>5, <2>6, <2>7, StepCases, LockRowKeepsCarts,
             AcceptKeepsCarts, RefuseKeepsCarts, ReserveKeepsCarts
<1> QED BY <1>1, <1>2 DEF Next, Finished

LEMMA CartInvariant ==
    Spec => [](TypeOK /\ StockInv /\ OrderInv /\ LocksInv /\ CouponInv /\ CartInv)
BY InitTypeOK, NextTypeOK, InitStockInv, NextStockInv, InitOrderInv, NextOrderInv,
   InitLocksInv, NextLocksInv, InitCouponInv, NextCouponInv, InitCartInv, NextCartInv,
   PTL DEF Spec

\* A 409 is true when it is decided and true ever after.
THEOREM RefusalsAreTrue == Spec => []RefusalsJustified
BY CartInvariant, PTL DEF CartInv

\* A pgx service books no order with a product its warehouse does not carry.
THEOREM PgxBooksWhatItCarries == Spec => []PgxReservesEveryLine
<1>1. CartInv => PgxReservesEveryLine
  BY DEF CartInv, PgxCarried, Carried, PgxReservesEveryLine, EveryLineReserved
<1> QED BY <1>1, CartInvariant, PTL

-----------------------------------------------------------------------------
(* Reservations are orders *)

\* The units of an order, of one row.
Units(r, row) == {r} \X (1..Want(body[r], row[2]))

LEMMA UnitsCount ==
    ASSUME TypeOK, NEW r \in Requests, NEW row
    PROVE  IsFiniteSet(Units(r, row)) /\ Cardinality(Units(r, row)) = Want(body[r], row[2])
<1> DEFINE w == Want(body[r], row[2])
<1>1. w \in Nat
  BY Wants DEF TypeOK
<1> HIDE DEF w
<1>2. /\ IsFiniteSet(1..w) /\ Cardinality(1..w) = w
      /\ IsFiniteSet({r}) /\ Cardinality({r}) = 1
  <2>1. IsFiniteSet(1..w) /\ Cardinality(1..w) = IF 1 > w THEN 0 ELSE w - 1 + 1
    BY <1>1, FS_Interval
  <2>2. IsFiniteSet({r}) /\ Cardinality({r}) = 1
    BY FS_Singleton
  <2>3. (IF 1 > w THEN 0 ELSE w - 1 + 1) = w
    BY <1>1
  <2> QED BY <2>1, <2>2, <2>3
<1> DEFINE A == {r}
           B == 1..w
<1>3. IsFiniteSet(A \X B) /\ Cardinality(A \X B) = Cardinality(A) * Cardinality(B)
  <2>1. IsFiniteSet(A) /\ IsFiniteSet(B)
    BY <1>2
  <2> HIDE DEF A, B
  <2> QED BY <2>1, FS_Product
<1>4. Cardinality(A) * Cardinality(B) = w
  BY <1>1, <1>2
<1> QED BY <1>3, <1>4, Zenon DEF w, Units

LEMMA UnitsFinite ==
    ASSUME TypeOK, NEW row PROVE IsFiniteSet(UnitsOrdered(row))
<1>1. IsFiniteSet(Ordered(row))
  BY RequestsAssumption, FS_Subset DEF Ordered
<1>2. \A r \in Ordered(row) : IsFiniteSet(Units(r, row))
  BY UnitsCount DEF Ordered
<1> DEFINE parts == {Units(r, row) : r \in Ordered(row)}
<1>3. IsFiniteSet(parts)
  <2> DEFINE f == [r \in Ordered(row) |-> Units(r, row)]
  <2>1. f \in Surjection(Ordered(row), parts)
    BY DEF Surjection
  <2> QED BY <1>1, <2>1, FS_Surjection
<1>4. \A part \in parts : IsFiniteSet(part)
  BY <1>2
<1>5. IsFiniteSet(UNION parts)
  <2> HIDE DEF parts
  <2> QED BY <1>3, <1>4, FS_UNION
<1> QED BY <1>5 DEF UnitsOrdered, Units

\* COMMIT adds to each row what it books, and the order's units with it.
LEMMA CommitIsBacked ==
    ASSUME TypeOK, StockInv, OrderInv, CartInv, ReservationsBacked,
           NEW r \in Requests, NEW answer, Commit(r, answer), PlainCarts
    PROVE  ReservedAsOrdered'
<1> USE DEF config
<1>1. /\ UNCHANGED body /\ pc[r] = "commit"
      /\ reserved' = [row \in Rows |-> reserved[row] + booked[r][row]]
      /\ stored' = [stored EXCEPT ![r] = draft[r]]
  BY DEF Commit
<1>2. "order" \in draft[r] /\ stored[r] = {}
  BY <1>1 DEF OrderInv, OrderInvOf, DraftAt, Writing, WholeOrder, Tables
<1>3. \A q \in Requests : stored'[q] = IF q = r THEN draft[r] ELSE stored[q]
  BY <1>1 DEF TypeOK
<1> SUFFICES ASSUME NEW row \in Rows PROVE reserved'[row] = Cardinality(UnitsOrdered(row)')
  BY DEF ReservedAsOrdered
<1>4. reserved'[row] = reserved[row] + booked[r][row] /\ reserved[row] \in Nat
  BY <1>1 DEF TypeOK
<1>5. reserved[row] = Cardinality(UnitsOrdered(row))
  BY DEF ReservationsBacked, ReservedAsOrdered
<1>6. CASE row \in Wanted(body[r])
  <2>1. booked[r][row] = Want(body[r], row[2])
    BY <1>1, <1>6 DEF CartInv, WholeCartBooked
  <2>2. Ordered(row)' = Ordered(row) \cup {r} /\ r \notin Ordered(row)
    BY <1>1, <1>2, <1>3, <1>6 DEF Ordered
  <2>3. UnitsOrdered(row)' = UnitsOrdered(row) \cup Units(r, row)
    BY <1>1, <2>2 DEF UnitsOrdered, Units
  <2>4. UnitsOrdered(row) \cap Units(r, row) = {}
    BY <2>2 DEF UnitsOrdered, Units
  <2>5. /\ IsFiniteSet(UnitsOrdered(row)) /\ IsFiniteSet(Units(r, row))
        /\ Cardinality(Units(r, row)) = Want(body[r], row[2])
    BY UnitsFinite, UnitsCount
  <2>6. Cardinality(UnitsOrdered(row) \cup Units(r, row))
          = Cardinality(UnitsOrdered(row)) + Cardinality(Units(r, row)) - Cardinality({})
    BY <2>4, <2>5, FS_Union
  <2>7. Cardinality(UnitsOrdered(row)) \in Nat /\ Cardinality(Units(r, row)) \in Nat /\ Cardinality({}) = 0
    BY <2>5, FS_CardinalityType, FS_EmptySet
  <2> QED BY <1>4, <1>5, <2>1, <2>3, <2>5, <2>6, <2>7
<1>7. CASE row \notin Wanted(body[r])
  <2>1. booked[r][row] = 0
    BY <1>7 DEF StockInv, BookedUnderLock
  <2>2. Ordered(row)' = Ordered(row)
    BY <1>1, <1>2, <1>3, <1>7 DEF Ordered
  <2>3. UnitsOrdered(row)' = UnitsOrdered(row)
    BY <1>1, <2>2 DEF UnitsOrdered
  <2> QED BY <1>4, <1>5, <2>1, <2>3
<1> QED BY <1>6, <1>7

LEMMA InitIsBacked == Init => ReservationsBacked
<1> SUFFICES ASSUME Init, NEW row \in Rows PROVE reserved[row] = Cardinality(UnitsOrdered(row))
  BY DEF ReservationsBacked, ReservedAsOrdered
<1>1. Ordered(row) = {} /\ reserved[row] = 0
  BY DEF Init, Ordered
<1>2. UnitsOrdered(row) = {}
  BY <1>1 DEF UnitsOrdered
<1> QED BY <1>1, <1>2, FS_EmptySet

LEMMA NextIsBacked ==
    TypeOK /\ StockInv /\ OrderInv /\ CartInv /\ ReservationsBacked /\ [Next]_vars => ReservationsBacked'
<1> SUFFICES ASSUME TypeOK, StockInv, OrderInv, CartInv, ReservationsBacked, [Next]_vars
             PROVE  ReservationsBacked'
  OBVIOUS
<1> USE DEF vars, config, locks, private, tables
<1>1. ASSUME UNCHANGED <<layer, body, reserved, stored>> PROVE ReservationsBacked'
  BY <1>1 DEF ReservationsBacked, ReservedAsOrdered, UnitsOrdered, Ordered, PlainCarts
<1>2. ASSUME NEW r \in Requests, Serve(r) \/ Disturb(r) PROVE ReservationsBacked'
  <2>1. CASE Begin(r) \/ Enter(r) \/ GiveUp(r) \/ LoadRef(r) \/ RejectUnknown(r) \/ MaskedFailure(r) \/ Peek(r)
    BY <1>1, <2>1 DEF Begin, Enter, GiveUp, LoadRef, RejectUnknown, MaskedFailure, Abort, Peek
  <2>2. CASE LockRow(r) \/ Accept(r, Checked(r)) \/ Refuse(r, Checked(r)) \/ InsertOrder(r)
             \/ Reserve(r, Copies(r)) \/ BumpCoupon(r) \/ EarnPoints(r) \/ Fail(r) \/ Rollback(r)
    BY <1>1, <2>2 DEF LockRow, Accept, Refuse, InsertOrder, Reserve, BumpCoupon, EarnPoints, Fail, Abort, Rollback
  <2>3. ASSUME NEW answer \in {"ok", "error"}, Commit(r, answer) PROVE ReservationsBacked'
    <3>1. PlainCarts' <=> PlainCarts
      BY <2>3 DEF Commit, PlainCarts
    <3> QED BY <2>3, <3>1, CommitIsBacked DEF ReservationsBacked
  <2> HIDE DEF vars, config, locks, private, tables
  <2> QED BY <1>2, <2>1, <2>2, <2>3, StepCases
<1> QED BY <1>1, <1>2 DEF Next, Finished

\* What is reserved of a row is what committed orders asked of it, unit for unit, on
\* every layer (on pgx, if no cart names a SKU twice).
THEOREM ReservationsAreOrders == Spec => []ReservationsBacked
BY CartInvariant, InitIsBacked, NextIsBacked, PTL DEF Spec

-----------------------------------------------------------------------------
(* Orders are placed one at a time *)

\* What clients have been answered, and the orders that are stored.
answers == [r \in Requests |-> IF Answered(r) THEN outcome[r] ELSE "none"]
placed  == {r \in Requests : stored[r] # {}}

\* The order book adds up carts as the handlers do.
LEMMA SameCarts ==
    ASSUME NEW b
    PROVE  /\ Book!Asked(b) = Asked(b) /\ Book!Found(b) = Found(b)
           /\ Book!Wanted(b) = Wanted(b)
           /\ \A p : Book!Want(b, p) = Want(b, p)
<1>1. Book!Asked(b) = Asked(b)
  BY DEF Book!Asked, Asked
<1>2. ASSUME NEW p PROVE Book!Want(b, p) = Want(b, p)
  BY Zenon DEF Book!Want, Want, Book!SumOf, SumOf, Book!Running, Running
<1> QED BY <1>1, <1>2 DEF Book!Found, Found, Book!Wanted, Wanted

LEMMA InitIsBookInit == Init => Book!Init
<1> SUFFICES ASSUME Init PROVE Book!Init
  OBVIOUS
<1>1. answers = [r \in Requests |-> "none"]
  BY DEF Init, answers, Answered
<1>2. placed = {}
  BY DEF Init, placed
<1> QED BY <1>1, <1>2 DEF Init, Book!Init, answers, placed

\* A step that answers nobody and leaves the tables alone is a stutter.
LEMMA Stutters ==
    ASSUME UNCHANGED <<config, tables>>, answers' = answers
    PROVE  UNCHANGED Book!vars
BY DEF config, tables, Book!vars, answers

\* An answer without an order.
LEMMA Declines ==
    ASSUME NEW r \in Requests, NEW why \in {"not_found", "error"},
           UNCHANGED <<config, tables>>,
           answers[r] = "none", answers' = [answers EXCEPT ![r] = why]
    PROVE  Book!Next
<1>1. Book!Answer(r, why)
  BY DEF Book!Answer, answers, config
<1>2. Book!Decline(r)
  BY <1>1 DEF Book!Decline, tables, placed
<1> QED BY <1>2 DEF Book!Next

\* A refusal, at a moment when it is justified.
LEMMA TurnsAway ==
    ASSUME TypeOK, NEW r \in Requests, UNCHANGED <<config, tables>>,
           answers[r] = "none", answers' = [answers EXCEPT ![r] = "insufficient_stock"],
           body[r].kind = "checkout", Found(body[r]),
           NEW p \in Asked(body[r]),
           <<body[r].warehouse, p>> \in Rows =>
             OnHand[<<body[r].warehouse, p>>] - reserved[<<body[r].warehouse, p>>]
               < Want(body[r], p)
    PROVE  Book!Next
<1>1. Book!Answer(r, "insufficient_stock")
  BY DEF Book!Answer, answers, config
<1> DEFINE row == <<body[r].warehouse, p>>
<1>2. row \in Rows => ~Book!InStock(body[r], row)
  <2> SUFFICES ASSUME row \in Rows PROVE ~(reserved[row] + Want(body[r], p) <= OnHand[row])
    BY SameCarts DEF Book!InStock
  <2>1. OnHand[row] \in Nat /\ reserved[row] \in Nat /\ Want(body[r], p) \in Nat
    BY StockAssumption, Wants DEF TypeOK
  <2> QED BY <2>1
<1> HIDE DEF row
<1>3. Book!TurnAway(r)
  BY <1>1, <1>2, SameCarts DEF Book!TurnAway, row, tables, placed
<1> QED BY <1>3 DEF Book!Next

\* COMMIT places the order, all of it, if the check of the stock still holds.
LEMMA Places ==
    ASSUME TypeOK, StockInv, OrderInv, CartInv, PlainCarts, CouponOverrunBounded',
           NEW r \in Requests, NEW answer \in {"ok", "error"}, Commit(r, answer)
    PROVE  Book!Next
<1> USE DEF config
<1>1. /\ pc[r] = "commit" /\ pc' = [pc EXCEPT ![r] = "done"]
      /\ outcome' = [outcome EXCEPT ![r] = answer]
      /\ reserved' = [row \in Rows |-> reserved[row] + booked[r][row]]
      /\ timesUsed' = [c \in Coupons |-> UsesAfter(r, c)]
      /\ stored' = [stored EXCEPT ![r] = draft[r]]
      /\ UNCHANGED config
  BY DEF Commit, Release
<1>2. /\ body[r].kind = "checkout" /\ Found(body[r]) /\ stored[r] = {}
      /\ draft[r] = WholeOrder(r)
  BY <1>1 DEF OrderInv, OrderInvOf, DraftAt, Writing
<1>3. Book!Answer(r, answer)
  <2>1. answers[r] = "none"
    BY <1>1 DEF answers, Answered
  <2>2. answers' = [answers EXCEPT ![r] = answer]
    BY <1>1 DEF answers, Answered, TypeOK
  <2> QED BY <1>1, <2>1, <2>2 DEF Book!Answer, answers
<1>4. r \notin placed /\ placed' = placed \cup {r}
  <2>1. draft[r] # {}
    <3>1. "order" \in WholeOrder(r)
      BY DEF WholeOrder, Tables
    <3> QED BY <1>2, <3>1
  <2> QED BY <1>1, <1>2, <2>1 DEF placed, TypeOK
<1>5. \A row \in Wanted(body[r]) : Book!InStock(body[r], row)
  BY <1>1, SameCarts DEF StockInv, StockCheckHolds, Writing, Book!InStock
<1>6. reserved' = [row \in Rows |-> IF row \in Wanted(body[r])
                                    THEN reserved[row] + Want(body[r], row[2])
                                    ELSE reserved[row]]
  <2>1. \A row \in Rows : booked[r][row] =
                            IF row \in Wanted(body[r]) THEN Want(body[r], row[2]) ELSE 0
    BY <1>1 DEF StockInv, BookedUnderLock, CartInv, WholeCartBooked
  <2>2. \A row \in Rows : reserved[row] \in Nat
    BY DEF TypeOK
  <2> QED BY <1>1, <2>1, <2>2
<1>7. UNCHANGED timesUsed \/ Book!Redeem(body[r])
  <2> DEFINE c == body[r].coupon
  <2>1. "coupon" \in draft[r] <=> Applied(r)
    BY <1>2 DEF WholeOrder, Tables
  <2>2. CASE Applied(r)
    <3>1. c # None /\ body[r].eligible /\ c \in Coupons
      BY <2>2, BodiesAssumption DEF Applied, TypeOK, BodyType
    <3>2. timesUsed' = [timesUsed EXCEPT ![c] = @ + 1]
      BY <1>1, <2>1, <2>2, <3>1 DEF UsesAfter, TypeOK
    <3>3. timesUsed'[c] <= MaxUses[c] + PoolSize - 1 /\ timesUsed'[c] = timesUsed[c] + 1
      BY <3>1, <3>2 DEF CouponOverrunBounded, TypeOK
    <3> QED BY <3>1, <3>2, <3>3 DEF Book!Redeem
  <2>3. CASE ~Applied(r)
    BY <1>1, <2>1, <2>3 DEF UsesAfter, TypeOK
  <2> QED BY <2>2, <2>3
<1>8. Book!Place(r)
  BY <1>2, <1>3, <1>4, <1>5, <1>6, <1>7, SameCarts DEF Book!Place, placed
<1> QED BY <1>8 DEF Book!Next

LEMMA StepIsBookStep ==
    ASSUME TypeOK, StockInv, OrderInv, CartInv, PlainCarts, CouponOverrunBounded',
           [Next]_vars
    PROVE  [Book!Next]_Book!vars
<1> USE DEF vars, config, locks, private, tables
<1>1. ASSUME UNCHANGED vars PROVE UNCHANGED Book!vars
  BY <1>1 DEF Book!vars, Answered
<1>2. ASSUME NEW r \in Requests, Serve(r) \/ Disturb(r)
      PROVE  [Book!Next]_Book!vars
  <2>1. CASE Begin(r) \/ (Enter(r) /\ body[r].kind = "quote") \/ LoadRef(r)
             \/ LockRow(r) \/ Accept(r, Checked(r)) \/ InsertOrder(r)
             \/ Reserve(r, Copies(r)) \/ BumpCoupon(r) \/ EarnPoints(r)
    <3>1. /\ UNCHANGED <<config, tables, outcome>>
          /\ pc[r] \notin {"done", "rollback"} /\ pc'[r] \notin {"done", "rollback"}
          /\ \A q \in Requests : q # r => pc'[q] = pc[q]
      BY <2>1 DEF Begin, Enter, LoadRef, LockRow, Accept, InsertOrder, Reserve,
                  BumpCoupon, EarnPoints, TypeOK
    <3>2. answers' = answers
      BY <3>1 DEF answers, Answered
    <3> QED BY <3>1, <3>2, Stutters
  <2>2. CASE GiveUp(r)
    <3>1. answers[r] = "none" /\ answers' = [answers EXCEPT ![r] = "error"]
      BY <2>2 DEF GiveUp, answers, Answered, TypeOK
    <3> QED BY <2>2, <3>1, Declines DEF GiveUp
  <2>3. CASE RejectUnknown(r) \/ MaskedFailure(r) \/ Fail(r)
    <3>1. PICK why \in {"not_found", "error"} :
            /\ Abort(r, why)
            /\ pc[r] \in InDialog
      BY <2>3 DEF RejectUnknown, MaskedFailure, Fail, InDialog, Reading
    <3>2. /\ pc[r] \notin {"done", "rollback"}
          /\ pc' = [pc EXCEPT ![r] = "rollback"]
          /\ outcome' = [outcome EXCEPT ![r] = why]
          /\ UNCHANGED <<config, tables>>
      BY <3>1 DEF Abort, InDialog, Reading, Writing
    <3>3. CASE layer = "rust"
      <4>1. answers[r] = "none" /\ answers' = [answers EXCEPT ![r] = why]
        BY <3>2, <3>3 DEF answers, Answered, TypeOK
      <4> QED BY <3>2, <4>1, Declines
    <3>4. CASE layer # "rust"
      <4>1. answers' = answers
        BY <3>2, <3>4 DEF answers, Answered, TypeOK
      <4> QED BY <3>2, <4>1, Stutters
    <3> QED BY <3>3, <3>4
  <2>4. CASE Refuse(r, Checked(r))
    <3>1. /\ pc[r] = "lock" /\ pc' = [pc EXCEPT ![r] = "rollback"]
          /\ outcome' = [outcome EXCEPT ![r] = "insufficient_stock"]
          /\ UNCHANGED <<config, tables>>
      BY <2>4 DEF Refuse, Abort
    <3>2. CASE layer = "rust"
      <4>1. /\ answers[r] = "none"
            /\ answers' = [answers EXCEPT ![r] = "insufficient_stock"]
        BY <3>1, <3>2 DEF answers, Answered, TypeOK
      <4>2. body[r].kind = "checkout" /\ Found(body[r])
        BY <3>1 DEF OrderInv, OrderInvOf
      <4>3. RefusalsJustified' /\ outcome'[r] = "insufficient_stock"
        BY <2>4, <3>1, RefuseKeepsCarts DEF CartInv, TypeOK
      <4>4. PICK p \in Asked(body[r]) :
              <<body[r].warehouse, p>> \in Rows =>
                OnHand[<<body[r].warehouse, p>>] - reserved[<<body[r].warehouse, p>>]
                  < Want(body[r], p)
        BY <3>1, <4>3 DEF RefusalsJustified
      <4> QED BY <3>1, <4>1, <4>2, <4>4, TurnsAway
    <3>3. CASE layer # "rust"
      <4>1. answers' = answers
        BY <3>1, <3>3 DEF answers, Answered, TypeOK
      <4> QED BY <3>1, <4>1, Stutters
    <3> QED BY <3>2, <3>3
  <2>5. CASE Rollback(r)
    <3>1. /\ pc[r] = "rollback" /\ pc' = [pc EXCEPT ![r] = "done"]
          /\ UNCHANGED <<config, outcome, tables>>
      BY <2>5 DEF Rollback, Release
    <3>2. CASE layer = "rust"
      <4>1. answers' = answers
        BY <3>1, <3>2 DEF answers, Answered, TypeOK
      <4> QED BY <3>1, <4>1, Stutters
    <3>3. CASE layer # "rust"
      <4>1. answers[r] = "none" /\ answers' = [answers EXCEPT ![r] = outcome[r]]
        BY <3>1, <3>3 DEF answers, Answered, TypeOK
      <4>2. outcome[r] \in {"not_found", "insufficient_stock", "error"}
        BY <3>1 DEF OrderInv, OrderInvOf, TypeOK, Outcomes
      <4>3. CASE outcome[r] \in {"not_found", "error"}
        BY <3>1, <4>1, <4>3, Declines
      <4>4. CASE outcome[r] = "insufficient_stock"
        <5>1. body[r].kind = "checkout" /\ Found(body[r])
          BY <4>4 DEF OrderInv, OrderInvOf
        <5>2. PICK p \in Asked(body[r]) :
                <<body[r].warehouse, p>> \in Rows =>
                  OnHand[<<body[r].warehouse, p>>] - reserved[<<body[r].warehouse, p>>]
                    < Want(body[r], p)
          BY <4>4 DEF CartInv, RefusalsJustified
        <5> QED BY <3>1, <4>1, <4>4, <5>1, <5>2, TurnsAway
      <4> QED BY <4>2, <4>3, <4>4
    <3> QED BY <3>2, <3>3
  <2>6. CASE Peek(r)
    <3>1. /\ pc[r] = "peek" /\ pc' = [pc EXCEPT ![r] = "done"]
          /\ outcome' = [outcome EXCEPT ![r] = "ok"]
          /\ UNCHANGED <<config, tables>>
      BY <2>6 DEF Peek, Release
    <3>2. answers[r] = "none" /\ answers' = [answers EXCEPT ![r] = "ok"]
      BY <3>1 DEF answers, Answered, TypeOK
    <3>3. body[r].kind = "quote" /\ Found(body[r])
      BY <3>1 DEF OrderInv, OrderInvOf
    <3>4. Book!Price(r)
      BY <3>1, <3>2, <3>3, SameCarts DEF Book!Price, Book!Answer, answers, placed
    <3> QED BY <3>4 DEF Book!Next
  <2>7. ASSUME NEW answer \in {"ok", "error"}, Commit(r, answer) PROVE Book!Next
    BY <2>7, Places
  <2> HIDE DEF vars, config, locks, private, tables
  <2> QED BY <1>2, <2>1, <2>2, <2>3, <2>4, <2>5, <2>6, <2>7, StepCases
<1> QED BY <1>1, <1>2 DEF Next, Finished

\* Whatever the interleaving of statements, the failures and the layer, what clients
\* are answered and what is stored is a behaviour of the order book, provided no cart
\* of a pgx service repeats a SKU.
THEOREM CheckoutImplementsOrderBook ==
    ASSUME "pgx" \in Layers => \A b \in Bodies : ~RepeatsSku(b)
    PROVE  Spec => PlacesOrdersAtomically
<1>1. TypeOK => PlainCarts
  BY DEF TypeOK, PlainCarts
<1>2. Spec => []CouponOverrunBounded
  BY CouponOverrunIsBounded
<1>3. Spec => Init /\ [][Next]_vars
  BY PTL DEF Spec
<1> QED BY <1>1, <1>2, <1>3, CartInvariant, InitIsBookInit, StepIsBookStep, PTL
        DEF PlacesOrdersAtomically, Book!Spec

=============================================================================
