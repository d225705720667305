SPECIFICATION Spec
CONSTANTS
  None = None
  r1 = r1
  r2 = r2
  r3 = r3
  c1 = c1
  Requests = {r1, r2, r3}
  Bodies <- SafetyBodies
  Products <- MCProducts
  Customers <- MCCustomers
  Rows <- MCRows
  OnHand <- MCOnHand
  Coupons = {c1}
  MaxUses <- MCMaxUses
  PoolSize = 2
  Layers = {"pgx", "gorm", "rust", "pg", "bun"}
SYMMETRY Interchangeable
INVARIANTS
  TypeOK
  NoOversell
  StockCheckHolds
  ReservationsBacked
  RefusalsJustified
  CouponCountExact
  CouponOverrunBounded
  WholeOrders
  HonestAnswers
  PgxReservesEveryLine
  NothingLeaks
  NoWaitCycle
