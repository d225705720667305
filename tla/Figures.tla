------------------------------- MODULE Figures -------------------------------
(***************************************************************************)
(* analysis/figures.py: where its marks go.  A place on the axis of ranks  *)
(* is the rank itself, a vertical place the number of its row.             *)
(***************************************************************************)
EXTENDS Statistics

(***************************************************************************)
(* The critical-difference diagram, f_cd.                                  *)
(***************************************************************************)
CdOrder(ranks) == Sorted(SIDS, ranks)

\* the groups of stacks no more than CD apart: those that start at a stack,
\* taken if not within one already taken, and of these the maximal ones
Group(order, ranks, CD, i) ==
  {order[j] : j \in {j \in i..Len(order) : ranks[order[j]] - ranks[order[i]] <= CD}}
Inside(g, sets) == \E h \in sets : g \subseteq h /\ g # h
Taken_Disjoint(g, seen) == Cardinality(g) > 1 /\ \A h \in seen : g \cap h = {}
Taken(g, seen) == Cardinality(g) > 1 /\ ~Inside(g, seen)
Seen(order, ranks, CD) ==
  LET seen[i \in 0..Len(order)] ==
        IF i = 0 THEN {}
        ELSE IF Taken(Group(order, ranks, CD, i), seen[i - 1])
             THEN seen[i - 1] \cup {Group(order, ranks, CD, i)} ELSE seen[i - 1]
  IN seen
Cliques(ranks, CD) ==
  LET seen == Seen(CdOrder(ranks), ranks, CD)[Len(SIDS)]
  IN {g \in seen : ~Inside(g, seen)}

\* a grey bar reaches from the rank of a group's first stack to its last's
Bar(g, ranks) == [from |-> Min({ranks[s] : s \in g}), to |-> Max({ranks[s] : s \in g})]

\* a stack's stem goes down from its rank to its row and out to its side
Half == (Len(SIDS) + 1) \div 2
Stem(ranks, i) ==
  [x |-> ranks[CdOrder(ranks)[i]], left |-> i <= Half, row |-> IF i <= Half THEN i - 1 ELSE Len(SIDS) - i]

(***************************************************************************)
(* The labels at the right of a latency chart, f_latency_load.             *)
(***************************************************************************)
\* spread_labels: labels pushed down to keep their distance, then all moved
\* up by what the last one is below the bottom, at most up to the top
SpreadLabels(items, top, bottom, gap) ==
  LET y == Sorted(items, [v \in Range(items) |-> v])
      n == Len(y)
      down[i \in 1..n] == IF i = 1 THEN y[1] ELSE Max({y[i], down[i - 1] + gap})
      overflow == down[n] - bottom
      up[i \in 1..n] ==
        IF i = n THEN down[n] - overflow ELSE Min({down[i] - overflow, up[i + 1] - gap})
  IN IF overflow > 0 THEN [i \in 1..n |-> Max({top, up[i]})] ELSE down

(***************************************************************************)
(* Bars, in tenths of a percent of their track.                            *)
(***************************************************************************)
Share(v, mx) == (v * 1000) \div mx

\* bar_rows with whiskers: the rows share the scale of the widest upper interval
BarScale_ByValue(rows) == Max({r.value : r \in Range(rows)})
BarScale(rows) == Max({r.ci[2] : r \in Range(rows)})
Width(v, mx) == Max({12, Share(v, mx)})
BarRow(r, mx) ==
  [width |-> Width(r.value, mx), whiskers |-> <<Share(r.ci[1], mx), Share(r.ci[2], mx)>>]
BarRows(rows) == [i \in DOMAIN rows |-> BarRow(rows[i], BarScale(rows))]

\* f_cost: a stack's cost is its middle one of the three workloads; the bars
\* have no whiskers, the dearest stack's fills the track
f_cost(cost) ==
  LET med(s) == Sorted(cost[s], [v \in Range(cost[s]) |-> v])[2]
      order  == Sorted(SIDS, [s \in Stacks |-> med(s)])
      mx     == Max({med(s) : s \in Stacks})
  IN [i \in DOMAIN order |-> [stack |-> order[i], width |-> Width(med(order[i]), mx)]]

\* f_tail: the scale is the second-longest tail and 6% more; what is beyond it
\* is cut off and marked, of the pale bar but not of the solid one
TailScale(p99) == 106 * p99[Sorted(SIDS, [s \in Stacks |-> -p99[s]])[2]]
TailRow(s, p50, p99) ==
  [stack |-> s, clipped |-> 100 * p99[s] > TailScale(p99),
   w99 |-> Min({1000, Share(100 * p99[s], TailScale(p99))}),
   w50 |-> Share(100 * p50[s], TailScale(p99))]
TailRows(p50, p99) ==
  LET order == Sorted(SIDS, p99)
  IN [i \in DOMAIN order |-> TailRow(order[i], p50, p99)]

=============================================================================
