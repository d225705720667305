----------------------------- MODULE Statistics -----------------------------
(***************************************************************************)
(* analysis/stats.py: which results make up a cell, the average ranks of   *)
(* the Friedman test and the pairs beyond the critical difference, Holm's  *)
(* correction.  Ranks are doubled and summed over the tasks instead of     *)
(* averaged, p-values are percentages, so all of them are integers.        *)
(***************************************************************************)
EXTENDS Plan, Sums, FiniteSetsExt, Functions

CONSTANT SIDS   \* list(stacks): the stacks in the order of bench/stacks.json

ASSUME SIDSAssumption == SIDS \in Seq(Stacks) /\ IsInjective(SIDS) /\ Range(SIDS) = Stacks

\* Python's sorted(s, key=...): equal keys keep their order.  The place of an
\* element is found by counting those that come before it.
Precedes(key, i, j) == key[i] < key[j] \/ (key[i] = key[j] /\ i < j)
Ahead(key, i) == {j \in DOMAIN key : Precedes(key, j, i)}
Places(key) == [i \in DOMAIN key |-> 1 + Cardinality(Ahead(key, i))]
Sorted(s, key) ==
  LET place == Places([i \in DOMAIN s |-> key[s[i]]])
  IN [k \in DOMAIN s |-> s[CHOOSE i \in DOMAIN s : place[i] = k]]

(***************************************************************************)
(* Cells.                                                                  *)
(***************************************************************************)
\* cfg: the load profile a result belongs to
Cfg_ByConnections(r) == <<r.config[1], r.config[2]>>
Cfg(r) == IF r.config[1] = "open" THEN <<"open", r.config[3]>> ELSE <<"closed", r.config[2]>>

Cell(runs, sid, sc, cf) == {r \in runs : r.stack = sid /\ r.scenario = sc /\ Cfg(r) = cf}
Conf(runs) == {Cfg(r) : r \in runs}

(***************************************************************************)
(* Friedman and Nemenyi.  medians[t][sid] is the median of a stack at the  *)
(* task t; "lower" is better for every metric that is ranked.              *)
(***************************************************************************)
\* rankdata: equal values share the mean of their places; twice that
Rank(row, sid) ==
  2 * Cardinality({s \in Stacks : row[s] < row[sid]}) + Cardinality({s \in Stacks : row[s] = row[sid]}) + 1

\* avgRank, times twice the number of tasks
AvgRank(medians) ==
  [sid \in Stacks |-> SumOf([t \in DOMAIN medians |-> Rank(medians[t], sid)])]

SignificantPairs(avg, CD) ==
  {pair \in kSubset(2, Stacks) : \E a, b \in pair : avg[a] - avg[b] > CD}

(***************************************************************************)
(* Holm-Bonferroni over the planned contrasts.                             *)
(***************************************************************************)
\* argsort: some order in which the p-values do not descend
ArgSorts(p) ==
  {order \in Bijection(DOMAIN p, DOMAIN p) :
     \A i, j \in DOMAIN p : i < j => p[order[i]] <= p[order[j]]}

\* multiplied by how many contrasts are left, no more than 1
Stepped(p, order) == [rank \in DOMAIN p |-> Min({100, (Len(p) - rank + 1) * p[order[rank]]})]

\* and no less than any before it: prev after each step
Carried_NotKept(v) == [rank \in 0..Len(v) |-> IF rank = 0 THEN 0 ELSE v[rank]]
Carried(v) ==
  LET prev[rank \in 0..Len(v)] == IF rank = 0 THEN 0 ELSE Max({v[rank], prev[rank - 1]}) IN prev

PHolm(p, order) ==
  LET prev == Carried(Stepped(p, order))
  IN [i \in DOMAIN p |-> prev[CHOOSE rank \in DOMAIN p : order[rank] = i]]

Significant(pHolm) == {i \in DOMAIN pHolm : pHolm[i] < 5}

=============================================================================
