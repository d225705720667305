# A verification project for polyglot-bench

polyglot-bench implements one order-pricing and checkout API ten times, over five data
layers and three languages, measures the services against each other, and turns the
measurements into statistics, figures and a paper.  The comparison means something only
if the ten services do the same thing, if each run faces the same data and is credited to
the right process, and if the numbers survive the way into the documents.  This directory
models that, checks it with TLC and proves most of it with TLAPS.

## The system

| component | state | operations | hard behaviour | module |
|---|---|---|---|---|
| Data layers: pgx (`go/internal/store`), GORM (`go/internal/gormstore`), tokio-postgres (`rust/common`), pg (`ts/shared/pgdb.ts`), Bun.sql (`ts/bun-only`) | a connection pool; per request a transaction, the rows it read, what it wrote | `loadRef`, `Quote`, `Checkout`, `Summary` | transactions interleave statement by statement; every statement can fail; COMMIT's acknowledgement can be lost; handlers queue for connections and row locks | `Checkout` (without `Summary`) |
| Database (`db/schema.sql`) | `inventory.reserved`, `coupon.times_used`, orders, items, ledger, points; locks of open transactions | the statements above | no CHECK constraint stands behind the code's own checks | `Carts`, `Checkout`, `Dataset` |
| Pricing engine in Go, Rust, TypeScript | none (pure) | `Price` | rounding, 32-bit integers, unordered rules, remainders; three versions must agree | `Pricing` |
| HTTP servers (ten, thin) | none | decode, call, map errors to 200/404/409/500 | what a failure is answered | in `Checkout` |
| Load generator (`bench/loadgen`) | schedule channel, per-worker samples, sampler | warm-up, open and closed loop | a bounded channel, intended send times, a service that stalls, a late sampler | `Loadgen` |
| Orchestrator (`bench/run.py`, `svc.sh`, `reset.sh`) | result files, index, pid files, processes | plan, reset, start, measure, stop | failed starts and stops, Ctrl-C, a kill, what outlives it | `Plan`, `Orchestrator` |
| Conformance verifier (`bench/verify.py`) | answers per stack | collect, compare | the stacks share a database that is not reset between them | `Conformance` |
| Data: `db/seed.py`, `db/load.sh`, `bench/reset.sh`, `bench/corpus.py` | tables, sequences | generate, load, restore, draw | foreign keys and sequences, requests all stacks must serve | `Dataset`, `Scripts` |
| Analysis: `stats.py`, `figures.py`, `write_docs.py`, `write_paper.py` | files | group, rank, correct, draw, write | ties, multiple testing, crowded labels, placeholders that contain each other | `Statistics`, `Figures`, `Reports`, `Scripts` |
| Dashboard, video, machine tuning, statement counting | files | presentation, settings | none | not modelled |

They interact through the database (services, `reset.sh`, seeding), HTTP (load generator
and verifier to services), processes and pid files (orchestrator, `svc.sh`, sampler) and
files (results, index, statistics).

    Sums                        the loops that add up a list; SumProofs, their theory

    Carts ------ OrderBook      constants and carts; the abstract specification of the API
      |              ^
      |              | implements (checked and proved)
    Checkout --------+          the handlers, statement by statement
      |        \
    MCCheckout  CheckoutProofs

    Plan ---- Orchestrator      run.py, services, load generators, result files
      |           |      \
      |\          |       OrchestratorProofs
      | \     MCOrchestrator
      |  PlanProofs
      |
      +-- Statistics -- Figures -- Reports --+
                                             +-- Scripts -- MCScripts, ScriptProofs
                               Dataset ------+

    Loadgen (MCLoadgen, LoadgenProofs)    Conformance (MCConformance, ConformanceProofs)
    Pricing (MCPricing, PricingProofs)

`Carts`, `Pricing`, `Loadgen`, `Statistics` and `Dataset` extend `Sums`; `CheckoutProofs`, `PricingProofs`,
`LoadgenProofs` and `ScriptProofs` extend `SumProofs`; `OrchestratorProofs` and `ScriptProofs`
extend `PlanProofs`.

## The models

### The store

**Carts** declares what the store holds that no request changes (products, customers,
inventory rows and their `on_hand`, coupons and their `max_uses`, the pool's size) and
the request bodies, with the assumptions made of them, and says what a cart wants:
`Want` is the code's `want[p.ID] += it.Qty`.

**Checkout** is `POST /api/quote` and `POST /api/checkout` of one service.  A handler is
a process; a step is a statement, because another connection may run between any two.

| variables | in the code |
|---|---|
| `layer`, `body` | which of the five data layers the service is built on; the request |
| `pc`, `outcome` | the handler's next statement; what it returns |
| `conns` | connections borrowed from the pool (`DB_POOL_SIZE`) |
| `rowLock`, `couponLock` | row locks of the open transactions |
| `seen`, `usedSeen` | `avail[pid]`, and `times_used` as `loadRef` read it |
| `draft`, `booked` | uncommitted rows and increments |
| `reserved`, `timesUsed`, `stored` | committed `inventory.reserved`, `coupon.times_used`, rows of each order |

| actions | in the code |
|---|---|
| `Begin`, `Enter` | a connection from the pool and BEGIN; GORM's quote, which takes a connection per statement |
| `LoadRef`, `RejectUnknown`, `Peek` | the reference reads; a 404; the unused inventory read that ends a quote |
| `LockRow` | one row of `SELECT ... ORDER BY product_id FOR UPDATE` |
| `Accept`, `Refuse` | the comparison with the stock; a 409 |
| `InsertOrder`, `Reserve`, `BumpCoupon`, `EarnPoints` | the writes, in the code's order |
| `Commit`, `Rollback` | COMMIT; the ROLLBACK of `defer`, `catch` or a dropped transaction |
| `GiveUp`, `Fail`, `MaskedFailure`, `LostAck` | no connection; a failing statement; GORM's 404 of a failed query; a COMMIT reported as an error |

The layers differ in four places, all parameters or disjuncts: pgx checks every line and
issues an UPDATE per line, the others check the rows that came back and update once per
product (`RowProducts`, `Once`); a GORM quote has no transaction; GORM answers 404 for any
error of its first query; Rust answers before its ROLLBACK has run (`Answered`).

PostgreSQL is modelled from how the code uses it: READ COMMITTED, `FOR UPDATE` re-reads a
row after waiting for it, locks are held to the end of the transaction, an UPDATE adds to
the committed value, nobody sees uncommitted rows.

**OrderBook** is what the API promises, with no handler, statement or lock: a request is
answered once, and an order is placed in one step or not at all.  `Checkout` implements it
under the mapping `Book`: a request is answered when its handler has ended, an order
exists when its rows are committed.

Abstractions:

* `loadRef` is one step: of what it reads only `coupon.times_used` is ever written.
  `Reserve` and `InsertOrder` are one step each: their statements write rows nobody else
  can read or lock meanwhile.
* The invoice is reduced to whether the coupon applies; the body says whether it is
  unexpired and its minimum spend reached (`eligible`).  The rest of it is `Pricing`.
* Quantities are positive and carts not empty.  The code validates neither; an empty cart
  ends in an SQL error, a negative quantity is outside the model.
* A COMMIT that is executed is durable; the database itself does not crash.
* One service runs against the database, as the benchmark runs them.

### The pricing engine

**Pricing** is `domain.go`, `domain.rs` and `pricing.ts`.  A behaviour is a request that the
three engines price one after the other, each with the discount rules in an order of its own,
because no query orders them.  Where the three differ an operator takes the engine: `MulBP`
divides towards zero in Go and Rust and down in TypeScript, `Takes` says when a rule replaces
the best one found so far, `Applied` how the contributing rules are collected.  `MulBP` takes its
base apart only to stay within TLC's integers.  `Scan` is the loop over the rules, `Line` the body of the loop over the
items, `Shares` the split of the coupon's discount, `Bill` what follows it.

The tables are as `seed.py` fills them and `schema.sql` keeps them: prices, rates and caps are not negative,
`discount_rule.id` is a key.  Of the requests the model assumes a positive quantity per line, a
coupon of at most half the subtotal (`seed.py` draws at most 20%) and a line of at least five cents for each line
of the cart (its cheapest product costs 199).

### The load generator

**Loadgen** is a process of `bench/loadgen` with time.

| variables | in the code |
|---|---|
| `mode`, `main` | `-mode`; where `main` is |
| `now`, `late` | ticks of the phase; those the machine kept runnable goroutines waiting |
| `i`, `sched`, `closed` | the scheduler's loop; the channel of due times, `rate * 2` long; `close(sched)` |
| `doing`, `ended`, `buf` | the request a worker waits for; who left its loop; its samples |
| `sampler`, `first`, `resCh` | the sampler, its first reading, its channel of one |
| `elapsed`, `out` | when `wg.Wait` returned; the resources in the result |

| actions | in the code |
|---|---|
| `Schedule`, `Close` | `sched <- due`, which blocks while the channel is full; `defer close(sched)` |
| `Take`, `Send` | `for due := range sched`, which counts the latency from `due`; the warm-up's and closed loop's next request |
| `Answer`, `TimeOut`, `Leave` | `do` returns; `client.Timeout`; the end of the loop |
| `Start`, `Cancel`, `Report` | between warm-up and measurement; `wg.Wait` and `cancel`; the `select` with its timer |
| `FirstReading`, `LastReading` | the sampler's readings of `/proc/pid`, which fail when the process is gone |
| `Tick` | time |

### The orchestrator

**Plan** holds the profiles, the runs of a plan and the names of their result files.
**Orchestrator** is `run.py` with everything it starts.  A run stands for the service process
and the load generator started for it.

| variables | in the code |
|---|---|
| `plan`, `pc`, `planned`, `todo`, `run` | how often `run.py` was started, its next step, its runs |
| `blocker` | the process whose answer, or whose lock, that step waits for without a timeout |
| `procs`, `listening`, `pidfile` | living services, those that hold their port, `.run/{stack}.pid` |
| `loads`, `files`, `index` | load generators, `results/{tag}.json`, `results/index.json` |
| `db` | whose orders are in the database |
| `failed`, `abandoned` | history: runs reported as failed; runs at which `run.py` was killed |

| actions | in the code |
|---|---|
| `Launch`, `Reset`, `Record`, `Finish` | `main` up to its loop, with `--fresh`; `reset_db`; `write_index`; the end |
| `Spawn`, `Healthy`, `Unhealthy`, `Stop` | `svc.sh start` and its polls; the `finally` with `svc.sh stop` |
| `ResetFails`, `LoadFails` | a failing `reset.sh`; a load generator that fails or hangs until its timeout, with or without half a file |
| `Await`, `Late` | a health poll is accepted and not answered, or `reset.sh` meets a locked row; the answer comes, or the lock goes, after all |
| `Bind`, `Exit` | a service binds its port, unless another holds it and it does not share; it ends |
| `Measure`, `Answer`, `Write` | the sampler's first reading; a service on the port answers, whoever it is; the result is written |
| `Interrupt`, `Kill` | Ctrl-C, which reaches the load generator and not the service; a kill of `run.py`, which leaves both |

The load generator is reduced here to whose port it asks and whose pid it samples; what it
records is `Loadgen`.

### The verifier

**Conformance** is `verify.py`: `Start` and `StartFails` (which is outside the `try`), `Call`
and `CallFails`, `Stop`, `Judge` (compare, and after the last endpoint the exit code).  A
stack is what it may do wrong: one answer, or what it reserves for a unit ordered.  The
database is shared by all stacks and never reset, so later stacks can be refused.  `Canon`
drops the order's id and the spelling of times.

### Data and documents

**Scripts** runs each Python script from beginning to end on one of its inputs; what a
script draws at random is part of the input.  **Dataset** has the tables as sets of rows, the
sequences, and every DELETE, UPDATE and `setval` of `reset.sh` as a state between which the
foreign key is checked.  **Statistics** has the cells of `stats.py`, ranks (doubled and summed, so
integers), significant pairs and Holm's correction; **Figures** the bars, stems, labels and
tails; **Reports** the order of every table and the replacement of placeholders.  No step of
theirs is concurrent: the state machine only chooses script and input.

## Runs

| run | question | bounds | result |
|---|---|---|---|
| `checkout_safety` | the twelve safety invariants of the store | three requests, any of nine bodies each, two connections, all layers, symmetry of requests | hold; 1,080,257 states |
| `checkout_liveness` | is every request answered, and does `Checkout` implement `OrderBook`? | three requests, the three bodies that compete for everything, two connections, all layers | yes; 237,444 states |
| `checkout_coupon` | does a coupon stay within `max_uses`? | as `checkout_safety` | no |
| `checkout_repeated` | does pgx reserve what was ordered? | as above | no |
| `checkout_elsewhere` | do the other layers reserve every line? | as above | no |
| `pricing` | do the engines agree, whatever the order of the rules, and does the invoice add up? | up to three lines of three products, ten rules, three orders of them, two tiers, four coupons or none | yes; 36,480 states |
| `loadgen` | does a result hold what was due, show stalls, and does the generator end? | two workers, a channel of one, five due times, a time-out of three ticks | yes; 210,183 states |
| `orchestrator` | one service, clean data, true samples, kept results, a plan that ends, or why it does not | two starts, two stacks (one shares its port), smoke or quick plans, one kill with something running | yes; 521,236 states |
| `conformance` | what PASS and FAIL mean | three stacks of six behaviours, two requests per endpoint, stock for three or six checkouts | hold; 32,832 states |
| `conformance_skips` | is skipped work caught? | as above | no |
| `scripts` | data whole and restored, statistics, figures and documents right | five stacks, about 32,000 inputs | yes; 64,040 states |
| `scripts_labels` | do labels keep their distance? | four labels, nine places | no |

*Why the bounds are enough.*  Store: two products give carts in opposite lock orders
(`Ascending`, `Descending`), stock of 3 and 1 gives carts that fit alone and not together;
three requests on two connections make one wait for the pool while the others wait for each
other; a coupon with one use left is what overlapping checkouts overrun.
`OneOfOne` and `OneOfTwo` have no product in common and meet at the coupon's row; `Elsewhere` names
a warehouse without stock, `Unknown` a product that does not exist, `Repeated` one SKU twice.
The liveness run uses no symmetry, has three of the bodies (no two of them meet at the coupon's row alone;
`NobodyIsDeadlocked` covers that) and leaves `Repeated` out, because pgx really does not
implement the order book for it.  Load generator: a stall fills both workers and the channel, so
the scheduler blocks with requests still due.  Orchestrator: the second start meets what the
first left (results of the same name, an unfinished index, a service, a load generator), with
and without `--fresh`.  Verifier: three stacks let the stock run out between the reference and
another stack, and `Enough` = 2 is fewer than the divergences there can be.

*Named bounds.*  `MaxPlans` (starts of `run.py`), `MaxAbandoned` (runs at which it is killed
with something running), `MaxLate` (ticks the machine delays the generator).  The store's
counters need none: every request ends.  Deadlock is checked in every run; `Finished`, `Exited`
and `Done` are the only ways to stop.

*Fairness.*  `Checkout`: weak fairness of `Serve(r)` per request, because goroutines, tokio tasks
and promises are scheduled when they can run, PostgreSQL wakes the waiters of a lock and pools
serve their queues.  It suffices because no lock order is circular and whoever holds something
ends.  `Orchestrator`: weak fairness of `Python` (`run.py` and its scripts go on while nothing blocks them:
`Python` is disabled while there is a `blocker`, whose answer, `Late`, and whose end are not fair), `Settle` (a launched
service binds its port or, when it cannot, exits) and `Proceed` (a load generator ends by
the clock); starts, interrupts and kills are never owed.  `Loadgen`: weak fairness of what Go can
run or of time; the service need not answer, the client's time-out does.  Failures are
never fair.

### What the violation runs show

1. **A coupon can be used more often than `max_uses`.**  `loadRef` reads `times_used` without
   a lock and no later statement compares it again, so two overlapping checkouts both take
   the last use.  SPEC.md calls a coupon valid while `times_used < max_uses`.  The overrun is
   bounded by the pool: `CouponOverrunBounded`, proved.
2. **pgx reserves a repeated SKU once per line, each time with the sum.**  `ids` is not
   deduplicated; two lines of one unit reserve four.  The other layers reserve two.
3. **Four layers sell what the warehouse does not carry.**  They compare only the rows the
   SELECT returned.  pgx looks every id up and refuses (`PgxReservesEveryLine`, proved).
4. **The verifier does not see skipped work.**  `verify.py` says a stack that skips work fails;
   it compares answers, and no later answer depends on the UPDATE a stack left out.
5. **Labels collide although there is room.**  `spread_labels` moves all labels up when the
   lowest one is below the chart, and those at the top are clamped onto each other.

A sixth disagreement needs no run.  The chart of tails (`f_tail`) clamps the pale bars, the 99th
percentiles, and not the solid ones, the medians, although its docstring says "anything past it is
clamped and marked": with medians equal to tails of 10, 10, 10, 10 and 100 ms `TailRow` gives a solid bar
nine times as long as its track.  `OneTailOffScale`, and with it `FiguresReadable` and the theorem
`FiguresRead`, is about the pale bars only.

Because of the second, the properties about stock speak of `PlainCarts`: no cart of a pgx
service repeats a SKU.  `CorpusIsServed` shows that the corpus, too, has no such cart and none of
the third kind, which is why the benchmark never met either.

## Proofs

The theorems hold for every value of the constants that satisfies the assumptions named in
the modules; TLC evaluates the assumptions in the runs.

**Sums and loops.**  The code adds up lists and searches them in loops.  Each is a recursive
function here, over the number of elements it has seen, and `SumProofs` derives what such a loop computes without
the library's induction theorems: `LoopInduction` takes a least counterexample of a set of
numbers, `LoopExists` has a function that satisfies the loop's equations, hence the one that
TLA+ chooses does (`RunningIs`).  From these follow what a sum is when one place changes (`SumExcept`), when lists are
added place by place (`SumLinear`), when one is appended to (`SumLast`), and how sums
compare when their elements do, each up to a constant (`SumScaled`).

**The store** (`RequestsAssumption`, `BodiesAssumption`, `StockAssumption`, `CouponsAssumption`,
`PoolAssumption`, `LayersAssumption`): any finite set of requests, any bodies, stock, coupons,
pool size and set of layers.

| part of `CheckoutProofs` | theorems | argument |
|---|---|---|
| stock and orders | `TypeCorrect`, `StockNeverOversold`, `CheckStaysTrue`, `OrdersAreWhole`, `AnswersAreHonest` | `StepCases` reduces every step of every layer to seventeen actions.  `StockInv`: locks are held only from "lock" on, what was seen under a lock is still in the table, what is booked is under the booker's lock.  Neither `NoOversell` nor `StockCheckHolds` is inductive alone: COMMIT keeps the others' checks because the rows it adds to are its own.  `OrderInv`: where a handler stands says what it has written and answered. |
| resources | `HandlersLeakNothing`, `NobodyIsDeadlocked`, `CouponUsesAreCounted`, `CouponOverrunIsBounded` | `LocksInv`: who holds what, by stage, and that rows held precede rows lacked.  Of a set of waiting handlers, look at one that waits for the greatest product (`Greatest`): the holder of that row waits for a greater one, or for nothing.  `CouponInv`: uses counted plus uses of open transactions stay below `max_uses + PoolSize`, because whoever reads a use as free is one of `PoolSize`. |
| the order book | `RefusalsAreTrue`, `PgxBooksWhatItCarries`, `ReservationsAreOrders`, `CheckoutImplementsOrderBook` | `CartInv`: a refusal is true when decided and reservations only grow; a checkout past its UPDATEs has booked its whole cart.  What is reserved of a row is the cardinality of a set of units, (request, 1..quantity): `CommitIsBacked` shows that a COMMIT adds its cart's units, new ones, and the same number to `reserved`.  Then each step is a step of `OrderBook` (COMMIT places, the end of a refused handler turns away) or a stutter. |

**The load generator** (any workers, rate, durations, capacity and delays; `ModesAssumption`,
`SizesAssumption`, `WorkersAssumption`, `NoneAssumption`), `LoadgenProofs`: `TypeCorrect`,
`ResultIsComplete` and `StallsAreShown`.  `ResultComplete` speaks of the end only, so the invariant follows each due
time on its way: the channel holds consecutive ones, those last handed over (`Queue`); every one
taken is with a worker or in a sample (`Kept`) and with one only (`Once`, as due times are distinct
for a positive interval); the closed loop sent nothing after its duration (`InTime`); and the last
reading follows the last sample (`Readings`).  A worker leaves only when the channel is
closed and drained, so at the end "taken" is "all".  Of `StallsShown` the open loop's half
follows from that: a request due during the stall is in a sample, and the sample can only have been taken after it was due.
The closed loop's half is `Filled`: a worker's latencies add up to where it has come, the start of
its open request or now, but for the ticks (`late`) the machine let it wait between two requests.

**The pricing engine** (any products, rules, orders of them, taxes and requests;
`ProductsAssumption`, `RulesAssumption`, `OrdersAssumption`, `TaxesAssumption`, `CartsAssumption`,
`CouponsAssumption`), `PricingProofs`.  The inductive invariant is that each invoice is `Price` of the
request for an order of the rules (`InvoicesArePrices`); the rest is about `Price`:

* `OneEngine`: on natural numbers dividing towards zero and down are the same (`MulBPIs`), and every
  number divided is natural: bases, subtotals, and taxable amounts because no share exceeds its line's net
  (`SharesAre`).  Go's test for a better rule differs from the other two's only while no
  rule is found and an amount is negative, which none is (`ScanAgrees`).  `AppliedIs`: the list Go collects while it
  scans is the one the other two filter afterwards.
* `OrderDoesNotMatter`: after the loop the best non-stackable rule takes off the maximum of
  what single rules do, and the stackable ones the cardinality of a set of cents, `Cents` (`ScanFinds`); neither
  mentions an order.
* `InvoicesAddUp`: the cap leaves `10 * net >= 4 * base - 5` (the 5 is its rounding).  Rounding down loses less than a cent per line,
  so the remainder is less than the number of lines (`SharesAre`), and the line that gets it is the largest
  (`LargestIs`) and keeps half its net.

That last step needs `CartsAssumption`.  Without a line of five cents or more per line of the cart it fails: of eight lines
of one cent and a coupon of 20% the discount of two cents goes to one line of one cent, whose taxable amount is then
negative (and a tax rate above 50% would tell truncation from flooring).  `seed.py` has no product below 199
cents and `corpus.py` draws at most ten lines, so no request of the benchmark is near it.

**The orchestrator** (any stacks, scenarios, command lines, number of starts and kills;
`InvocationsAssumption`, `ReusePortAssumption`, `BoundsAssumption`, `NoneAssumption`,
`FiniteAssumption`), `OrchestratorProofs`.

| part | theorems | argument |
|---|---|---|
| services and samples | `TypeCorrect`, `OneServiceHolds`, `IdenticalDataHolds`, `SampledIsServedHolds` | The number of the plan makes every run a new one.  `Owned`: living services and load generators are the current run's or of abandoned runs, and the pid file names the service last started.  `OnePort`: two listen on a port only where it is shared.  `SamplesTrue`: while a sampled process lives on an unshared port nobody else has answered.  `abandoned` only grows, so an exception once made stays one. |
| results | `EveryRunIsKept` | The runs of a plan have distinct names (`TagsDiffer` of `PlanProofs`: in each profile rate and connections tell the configurations apart), so no run replaces the result of another of its plan.  `Counted`: runs done, at hand and to come add up to the plan, so the index says "done" only when nothing is left.  `FilesKept`: a run done with has its own result under its name, has failed, or was overwritten by a load generator left behind. |

**The verifier** (any number of stacks and requests, any behaviours, stock and cap on the
divergences; `SizeAssumption`, `BehavioursAssumption`, `StocksAssumption`, `NoneAssumption`),
`ConformanceProofs`: `TypeCorrect`, `DivergenceIsCaught`, `BlameHolds`, `AlikeStacksPass`,
`NothingIsLeft`.  Answers are those their stacks give (`Faithful`); stock that has run out stays so
(`Drained`), hence an order the reference was refused is refused to all after it; while nothing
is reported the endpoints judged hold no divergence (`Caught`), because an endpoint that has one has
a first one, which no cap hides; and stacks that behave alike have booked a unit per
checkout answered (`Served`), so stock for all of them suffices.

**The scripts** (any stacks and workloads, data sizes and inputs; `PlanAssumption`, `SIDSAssumption`,
`InputsAssumption`, which says of each script's inputs what its code needs: p-values are at most 1, the loop
that draws a cart ends, an order has a line, a sample has no category twice, an interval encloses its value, a p99 is
positive, the paper's words hold no part of a placeholder), `ScriptProofs`.  A script's
output is what its functions make of its input (`OutputsAre`); the rest is about these.

| theorem | argument |
|---|---|
| `HolmDecides` | In an order in which p does not descend, the value carried along is the maximum of `Own`, each contrast's p times the contrasts with no smaller one (`SmallerComeFirst`, `CarriedIs`): of equal ones the first counts.  `Own` does not mention the order, so no choice of argsort does (`AdjustedIs`). |
| `CellsAreWhole` | No two results of a plan have one file (`NothingLost`, from `TagsDiffer`), and the load profiles of a plan have different names (`CfgNames`), so a cell is one configuration's repetitions. |
| `SeedWhole` | The ids of an order's lines are those between what ran on before it and after it: blocks of `Running`, which meet every id (`BlocksCover`) and overlap nowhere (`BlocksApart`).  Hence the rows are as many as the highest id (`NumberedRows`), the lines that refer to an order are the list it was added up from (`LinesOf`), and a header is their sums (`SumPlus`).  A region and a category have one tax rate because samples hold no category twice (`RatesAre`). |
| `ResetRestores` | `InUse`: the rows of the seed are as they were loaded, those of later orders were added by checkouts, and the order of every item is there; loading gives such a database (`LoadedInUse`), a checkout keeps it one (`OrderKeepsSeed`, `AfterKeepsSeed`).  Of such a database `ResetUndoes` follows `reset.sh` statement by statement. |
| `CorpusServed` | `CartIs`: the loop keeps a list without repetitions, and once it has seen all draws either the list is full or it holds every product drawn. |
| `BarsMatch` | `SeenIs`: each group of two or more lies within one that was taken; `CliquesAre`: hence in a maximal one (sets of stacks are finite), so any two stacks no more than `CD` apart share a group, and those that share one are. |
| `FiguresRead` | `SortedIs`: sorting by counting who comes before gives a permutation that does not descend, and leaves equal ones as they were (`StacksInOrder` for the stacks).  `StemsAre` follows; `ShareIs` characterises a length on a track by what it is at least, which bounds and compares all of them; `MiddleIs` says that the median is at most v iff two of three are; all but one 99th percentile are at most the second-longest (`TailsAre`). |
| `DocumentsSay` | The tables are sorted by the same keys; as `sorted` is stable, the stack `min` names is the first row even when others are equal, and the one `max` names is as high as the last (`NamedAre`).  For the paper, a piece of the text that *fits* a key (`FitsPiece`) can only hold it by being it, so a scan over the text replaces the pieces that are the key and copies the others (`PieceRead`, `ReplaceIs`).  Before the j-th replacement the pieces are words, values put in and the keys from the j-th on (`Left`): all fit the j-th key, because no longer key that begins with it is left (`KeysFit`).  With the short keys first this fails, which is the mutant of the run. |

Every safety property a passing run checks has a theorem.  Only model-checked is liveness
(`EveryRequestAnswered`, `GeneratorEnds`, `PlanEnds`), which is out of the prover's reach.

## Not modelled

* *Customer summary.*  A handler that only reads.  Its six statements run without a transaction
  and may see an order committed in between, but no document promises a consistent answer;
  what its queries compute is SQL.
* *GORM's coupon query*, whose error is ignored: a quote without the coupon asked for is
  listed under hazards; no property separates it from a coupon that does not exist.
* *Load generator:* percentiles, buckets and `machineProbe` are pure functions of a finished run.
* *Orchestrator:* variants and `stop-all` of `svc.sh`, which `run.py` does not use; a kill of
  `verify.py`; the operating system reusing a pid; what a
  script of a killed `run.py` still does: a `svc.sh stop` left behind may remove the pid file of
  a service that a new `run.py` starts within its four seconds, a `reset.sh` may end after the new one's.
* *Pricing:* a line whose `price * quantity` exceeds 2^31 in Rust.  TLC's integers have 32 bits
  themselves; the corpus asks for at most 30 units.
* *Data:* names, dates, amounts of the reference tables and coupons of `seed.py`.
* *Analysis:* bootstrap, Mann-Whitney and chi-square (library calls on floating-point
  samples), the forest plot, axes of charts, prose.
* *A crash of the database.*  `synchronous_commit=off` may then lose an answered order, but no code
  here meets or repairs that.
* *HTTP servers* beyond their mapping of errors; dashboard, video, machine tuning and statement
  counting: presentation, settings and I/O.
