------------------------------ MODULE Scripts ------------------------------
(***************************************************************************)
(* The Python scripts around the benchmark, each run once from beginning   *)
(* to end on one of the inputs it may be given: db/seed.py with db/load.sh *)
(* and bench/reset.sh, bench/corpus.py, analysis/stats.py, figures.py,     *)
(* write_docs.py and write_paper.py.                                       *)
(***************************************************************************)
EXTENDS Reports, Dataset

CONSTANT Inputs   \* Inputs[script]: what the script may be given

\* p-values in percent
PValues(p) == p \in Seq(Nat) /\ \A i \in DOMAIN p : p[i] <= 100

\* draws of seed.py: rows of the reference tables, orders; checkouts
TableDraws(d) ==
  /\ d.tiers \in [1..N_CUSTOMERS -> (Nat \ {0}) \cup {None}] /\ d.exempt \in BOOLEAN
  /\ d.specials \in [1..SPECIALS -> 1..N_PRODUCTS]
  /\ d.samples \in [DOMAIN REGIONS -> [1..SAMPLED -> Range(CATEGORIES)]]
  /\ \A reg \in DOMAIN REGIONS : IsInjective(d.samples[reg])
DrawnLines == [product : 1..N_PRODUCTS, qty : Nat \ {0}, off : 0..1000, rate : Nat]
OrderDraws(draws) ==
  /\ draws \in [1..N_ORDERS -> [customer : 1..N_CUSTOMERS, warehouse : 1..N_WAREHOUSES, ship : Nat,
                 lines : Seq(DrawnLines)]]
  /\ \A i \in 1..N_ORDERS : draws[i].lines # <<>>
ResetInput(d) ==
  /\ OrderDraws(d.draws)
  /\ d.checkouts \in Seq([commits : BOOLEAN, row : Inventory, coupon : 1..N_COUPONS \cup {None}])

\* draws of corpus.py: its loop ends, there are as many different products as lines
CorpusDraws(d) ==
  /\ d.drawn \in Seq(1..N_PRODUCTS) /\ d.n \in Nat /\ d.n <= Cardinality(ToSet(d.drawn))
  /\ d.customer \in 1..N_CUSTOMERS /\ d.warehouse \in 1..N_WAREHOUSES /\ d.qty \in Quantities

\* measured medians and a critical difference
Ranking(d) == d.medians \in Seq([Stacks -> Int]) /\ d.CD \in Nat

\* measurements with their intervals; per mille of a CPU; medians and tails
BarInput(rows) ==
  /\ rows \in Seq([value : Nat \ {0}, ci : Nat \X Nat])
  /\ \A i \in DOMAIN rows : rows[i].ci[1] <= rows[i].value /\ rows[i].value <= rows[i].ci[2]
TailInput(d) ==
  d.p50 \in [Stacks -> Nat] /\ d.p99 \in [Stacks -> Nat \ {0}]

\* numbers of a workload; the p-values of its contrasts
Measured(S) ==
  /\ S.median \in [{"rps", "p99"} -> [Stacks -> Int]] /\ S.avgRank \in [{"p99", "cpu"} -> [Stacks -> Int]]

\* the text of the paper: placeholders, and words that are no part of one
PaperText(pieces) ==
  /\ pieces \in Seq(Seq(STRING))
  /\ \A i \in DOMAIN pieces :
       \/ \E r \in Range(repl) : pieces[i] = r.key
       \/ Len(pieces[i]) = 1 /\ \A r \in Range(repl) : pieces[i][1] \notin Range(r.key)

ASSUME InputsAssumption ==
  /\ "holm" \in DOMAIN Inputs => \A p \in Inputs["holm"] : PValues(p)
  /\ "reference" \in DOMAIN Inputs => \A d \in Inputs["reference"] : TableDraws(d)
  /\ "seed" \in DOMAIN Inputs => \A d \in Inputs["seed"] : OrderDraws(d)
  /\ "reset" \in DOMAIN Inputs => \A d \in Inputs["reset"] : ResetInput(d)
  /\ "corpus" \in DOMAIN Inputs => \A d \in Inputs["corpus"] : CorpusDraws(d)
  /\ "ranks" \in DOMAIN Inputs => \A d \in Inputs["ranks"] : Ranking(d)
  /\ "bars" \in DOMAIN Inputs => \A rows \in Inputs["bars"] : BarInput(rows)
  /\ "costs" \in DOMAIN Inputs => Inputs["costs"] \subseteq [Stacks -> [1..3 -> Nat \ {0}]]
  /\ "tails" \in DOMAIN Inputs => Len(SIDS) > 1 /\ \A d \in Inputs["tails"] : TailInput(d)
  /\ "tables" \in DOMAIN Inputs => \A S \in Inputs["tables"] : Measured(S)
  /\ "paper" \in DOMAIN Inputs => \A pieces \in Inputs["paper"] : PaperText(pieces)
  /\ "cells" \in DOMAIN Inputs => Inputs["cells"] \subseteq DOMAIN Profiles

VARIABLES script, input, output
vars == <<script, input, output>>

Init ==
  /\ script \in DOMAIN Inputs /\ input \in Inputs[script]
  /\ output = None

Returns(name, result) ==
  /\ script = name /\ output = None
  /\ output' = result
  /\ UNCHANGED <<script, input>>

SeedTables      == Returns("reference", Reference(input))
SeedDatabase    == Returns("seed", Seed(input))
ResetDatabase   == Returns("reset", LET db == Load(Seed(input.draws)) IN
                     [loaded |-> db, after |-> Reset(After(db, input.checkouts))])
DrawRequest     == Returns("corpus", Request(input))
GroupResults    == Returns("cells", LET block == Block(1, input, Stacks) IN
                     {CHOOSE r \in block : Tag(r) = t : t \in {Tag(r) : r \in block}})
CorrectContrasts == Returns("holm", {PHolm(input, order) : order \in ArgSorts(input)})
RankStacks      == Returns("ranks", LET avg == AvgRank(input.medians) IN
                     [avg |-> avg, pairs |-> SignificantPairs(avg, input.CD),
                      bars |-> {Bar(g, avg) : g \in Cliques(avg, input.CD)},
                      stems |-> [i \in DOMAIN SIDS |-> Stem(avg, i)],
                      spans |-> [ids \in kSubset(3, Stacks) |-> rk(avg, ids)]])
PlaceLabels     == Returns("labels", SpreadLabels(input.items, input.top, input.bottom, input.gap))
DrawBars        == Returns("bars", BarRows(input))
DrawCosts       == Returns("costs", f_cost(input))
DrawTails       == Returns("tails", TailRows(input.p50, input.p99))
WriteTables     == Returns("tables",
                     [rps |-> <<f_throughput(input), rank_table(input, "rps"), full_table(input), results_table(input)>>,
                      p99 |-> rank_table(input, "p99"),
                      ranks |-> [m \in {"p99", "cpu"} |-> <<f_cd(input, m), docs_ranks(input, m)>>],
                      paper |-> RANKTABLE(input),
                      contrasts |-> <<docs_contrasts(input), contrast_table(input)>>,
                      named |-> <<Lowest(input.median["p99"]), Highest(input.median["p99"])>>])
FillPaper       == Returns("paper", Fill(FlattenSeq(input)))

Done == output # None /\ UNCHANGED vars

Next ==
  \/ SeedTables \/ SeedDatabase \/ ResetDatabase \/ DrawRequest \/ GroupResults \/ CorrectContrasts \/ RankStacks
  \/ PlaceLabels \/ DrawBars \/ DrawCosts \/ DrawTails \/ WriteTables \/ FillPaper \/ Done

Spec == Init /\ [][Next]_vars

Ran(name) == script = name /\ output # None

(***************************************************************************)
(* What the scripts have to get right.                                     *)
(***************************************************************************)
\* The historic orders seed.py writes keep the books a checkout keeps: a header
\* adds up its own lines, each order has its loyalty entry, nothing refers to a
\* row that is not there, and ids are dense, so that the sequences load.sh sets
\* to the highest one hand out new ids only.
OrdersAddUp(seed) ==
    /\ \A t \in DOMAIN seed : {r.id : r \in seed[t]} = 1..Cardinality(seed[t])
    /\ \A x \in seed.items \cup seed.loyalty : \E o \in seed.orders : o.id = x.order
    /\ \A o \in seed.orders :
         LET items == {x \in seed.items : x.order = o.id} IN
         /\ \E s \in SetToSeqs(items) :
              /\ o.subtotal = SumOf([l \in DOMAIN s |-> Price[s[l].product] * s[l].qty - s[l].disc])
              /\ o.total = o.shipping + SumOf([l \in DOMAIN s |-> s[l].net + s[l].tax])
         /\ {<<x.customer, x.points>> : x \in {y \in seed.loyalty : y.order = o.id}}
              = {<<o.customer, o.points>>}

\* A customer's tier exists, a rule's key names something, and a region has one
\* default tax rate and at most one of a category: the rate of a line does not
\* depend on the order the database returns the rows in.
TablesFit(ref) ==
  /\ \A c \in ref.customer : c.tier \in DOMAIN TIERS
  /\ \A r \in ref.rules :
       /\ "tier" \in DOMAIN r => r.tier \in DOMAIN TIERS
       /\ "category" \in DOMAIN r => r.category \in Range(CATEGORIES)
       /\ "sku" \in DOMAIN r => \E p \in ref.product : r.sku = p.id
  /\ \A reg \in Range(REGIONS), cat \in Range(CATEGORIES) \cup {None} :
       LET rates == {t \in ref.taxes : t.region = reg /\ t.category = cat}
       IN Cardinality(rates) \in IF cat = None THEN {1} ELSE {0, 1}

\* What seed.py writes is data the services can be asked about: the orders keep
\* their books, the tables fit together.
SeedIsWhole == (Ran("seed") => OrdersAddUp(output)) /\ (Ran("reference") => TablesFit(output))

\* "Return the database to its seeded state" (reset.sh:2): whatever checkouts
\* committed or rolled back, what reset.sh leaves is what load.sh loaded, but
\* for the sequence of ledger_entry; and no statement of it breaks the reference
\* of an item to its order, which would end the script half way.
ResetRestoresSeed ==
  Ran("reset") =>
    LET after == output.after IN
    /\ [after[Len(after)] EXCEPT !.next.ledger = 0] = output.loaded
    /\ \A i \in DOMAIN after : \A x \in after[i].items : \E o \in after[i].orders : o.id = x.order

\* A request of the corpus is one all stacks must serve alike: no SKU on two
\* lines, each in stock at the warehouse asked, a known customer.  It so stays
\* clear of the carts on which the stores differ.
CorpusIsServed ==
  Ran("corpus") =>
    LET items == output.items IN
    /\ Len(items) = input.n
    /\ \A i, j \in DOMAIN items : items[i].product = items[j].product => i = j
    /\ \A i \in DOMAIN items :
         <<output.warehouse, items[i].product>> \in Inventory /\ items[i].qty \in Quantities
    /\ output.customer \in 1..N_CUSTOMERS

\* "Each stack contributes 5 reps" (stats.py:107): the results of a plan of
\* run.py fall into cells that hold every repetition once, for each stack at
\* each task, and there are as many load profiles as were run.
CellsHoldRepetitions ==
  Ran("cells") =>
    /\ Cardinality(Conf(output)) = Cardinality(Profiles[input].configs)
    /\ \A sid \in Stacks, sc \in Scenarios, cf \in Conf(output) :
         LET cell == Cell(output, sid, sc, cf) IN
         /\ Cardinality(cell) = Profiles[input].reps
         /\ {r.rep : r \in cell} = 0..(Profiles[input].reps - 1)

\* The adjusted p-values decide as Holm's step-down procedure does: a contrast
\* is significant iff it and all with smaller p pass their own thresholds;
\* none gets smaller, none exceeds 1, and ties may be sorted either way.
Rejected(p) ==
  {i \in DOMAIN p : \A j \in DOMAIN p :
     p[j] <= p[i] => (Len(p) - Cardinality({k \in DOMAIN p : p[k] < p[j]})) * p[j] < 5}
HolmIsStepDown ==
  Ran("holm") =>
    /\ Cardinality(output) = 1
    /\ \A pHolm \in output :
         /\ Significant(pHolm) = Rejected(input)
         /\ \A i, j \in DOMAIN input :
              input[i] <= pHolm[i] /\ pHolm[i] <= 100 /\ (input[i] <= input[j] => pHolm[i] <= pHolm[j])

\* "stacks joined by a grey bar are not distinguishable" (figures.py:216): the
\* bars figures.py draws join exactly the pairs stats.py does not report as
\* significant, no stack lies under a bar it does not belong to, and a span of
\* ranks README.md calls within the critical difference holds no such pair.
BarsMatchPairs ==
  Ran("ranks") =>
    /\ \A ids \in kSubset(3, Stacks) :
         output.spans[ids] <= input.CD <=> \A pair \in output.pairs : ~(pair \subseteq ids)
    /\ \A pair \in kSubset(2, Stacks) :
         pair \notin output.pairs
           <=> \E bar \in output.bars : \A s \in pair : bar.from <= output.avg[s] /\ output.avg[s] <= bar.to

\* In a critical-difference diagram no stem crosses another, no two labels share
\* a row of a side, and no row is below the height of the drawing.
StemsNeverCross ==
  Ran("ranks") =>
    LET stem == output.stems
        Outside(i, j) == IF stem[i].left THEN stem[j].x < stem[i].x ELSE stem[j].x > stem[i].x
    IN \A i \in DOMAIN stem :
         /\ stem[i].row \in 0..(Half - 1)
         /\ \A j \in DOMAIN stem \ {i} :
              /\ stem[i].left = stem[j].left => stem[i].row # stem[j].row
              /\ Outside(i, j) => stem[j].row < stem[i].row

\* "no whisker lands on the value column" (figures.py:102): bars and whiskers
\* stay within their track, a bar can be seen, and longer ones are of larger
\* values; of costs the cheapest comes first and no two workloads of a stack are
\* cheaper than a stack's before it ("median across the three workloads").
Visible(r) == r.width \in 12..1000
OnTrack(r) == Range(r.whiskers) \subseteq 0..1000
Longer(rows, drawn, i, j) == rows[i].value >= rows[j].value => drawn[i].width >= drawn[j].width
InTrack(rows, drawn) ==
  \A i, j \in DOMAIN drawn : Visible(drawn[i]) /\ OnTrack(drawn[i]) /\ Longer(rows, drawn, i, j)
Below(c, v) == {w \in 1..3 : c[w] <= v}
CheapestFirst(cost, drawn) ==
  /\ drawn[Len(drawn)].width = 1000
  /\ \A i, j \in DOMAIN drawn : i < j =>
       /\ drawn[i].width <= drawn[j].width
       /\ \A v \in Range(cost[drawn[j].stack]) :
            Cardinality(Below(cost[drawn[j].stack], v)) >= 2 => Cardinality(Below(cost[drawn[i].stack], v)) >= 2
BarsInTrack ==
  /\ Ran("bars") => InTrack(input, output)
  /\ Ran("costs") => CheapestFirst(input, output)

\* "Bars scale to the second-longest tail" (figures.py:362): the pale bar of one
\* stack at most, the last, is cut off and marked, all others are shown whole and
\* the longest of them nearly fills its track.  "Anything past it is clamped" is
\* not true of the solid bars, the medians: figures.py:380 draws one past the scale
\* at its full length, beyond its track, and so does TailRow.
OneTailOffScale ==
  Ran("tails") =>
    LET n == Len(output) IN
    /\ \A i \in 1..n : output[i].clipped => i = n
    /\ output[n - 1].w99 >= 900 /\ output[n].w99 <= 1000

\* What these three figures draw can be read: stems with their labels, bars with
\* their whiskers, and tails.  The labels of the latency chart are LabelsSpread.
FiguresReadable == StemsNeverCross /\ BarsInTrack /\ OneTailOffScale

\* The figures, README.md, RESULTS.md and the paper list the same measurements in
\* the same order, equal ones too, and the stacks the texts name as lowest and
\* highest are those of the table.
TablesAgree ==
  Ran("tables") =>
    /\ Cardinality(Range(output.rps)) = 1
    /\ \A m \in {"p99", "cpu"} :
         /\ output.ranks[m][1] = output.ranks[m][2]
         /\ output.ranks[m][1] = [i \in DOMAIN SIDS |-> output.paper[i][IF m = "p99" THEN 1 ELSE 2]]
    /\ output.contrasts[1] = output.contrasts[2]
    /\ output.named[1] = output.p99[1]
    /\ input.median["p99"][output.named[2]] = input.median["p99"][output.p99[Len(SIDS)]]

\* The replacements write_paper.py makes one after the other amount to replacing
\* every placeholder by its own value, also where one contains another.
PlaceholdersReplaced ==
  Ran("paper") =>
    output = [i \in DOMAIN input |->
                IF \E r \in Range(repl) : r.key = input[i]
                THEN (CHOOSE r \in Range(repl) : r.key = input[i]).value
                ELSE input[i][1]]

\* What the documents say is what was measured: one order of the stacks
\* everywhere, and in the text of the paper every number at its own place.
DocumentsAgree == TablesAgree /\ PlaceholdersReplaced

\* "no two labels sit closer than gap, kept inside [top, bottom]"
\* (figures.py:220), when there is room for them.
LabelsSpread ==
  Ran("labels") /\ (Len(output) - 1) * input.gap <= input.bottom - input.top =>
    \A i \in DOMAIN output :
      /\ input.top <= output[i] /\ output[i] <= input.bottom
      /\ i > 1 => output[i] - output[i - 1] >= input.gap

=============================================================================
