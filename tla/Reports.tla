------------------------------ MODULE Reports ------------------------------
(***************************************************************************)
(* analysis/write_docs.py and analysis/write_paper.py: the order of the    *)
(* rows of every table, next to that of the figures, and the placeholders  *)
(* of the paper.  S holds what is read from stats.json: median[metric][sid]*)
(* of a cell of the quote workload, avgRank[metric][sid], contrasts.       *)
(***************************************************************************)
EXTENDS Figures, SequencesExt

(***************************************************************************)
(* The same measurements, listed by four scripts.                          *)
(***************************************************************************)
\* figures.py
f_throughput(S) == Sorted(SIDS, [s \in Stacks |-> -S.median["rps"][s]])
f_cd(S, metric) == CdOrder(S.avgRank[metric])

\* write_docs.py
rank_table(S, metric) ==
  Sorted(SIDS, [s \in Stacks |-> IF metric = "rps" THEN -S.median[metric][s] ELSE S.median[metric][s]])
full_table(S) == Sorted(SIDS, [s \in Stacks |-> -S.median["rps"][s]])
docs_ranks(S, metric) == Sorted(SIDS, S.avgRank[metric])
docs_contrasts(S) == Sorted(S.contrasts, [t \in Range(S.contrasts) |-> t.pHolm])

\* how far apart the ranks of some stacks are
rk(avg, ids) == Max({avg[s] : s \in ids}) - Min({avg[s] : s \in ids})

\* min and max of a dict by its values: the first of equal ones
Lowest(f)  == SIDS[Min({i \in DOMAIN SIDS : \A s \in Stacks : f[SIDS[i]] <= f[s]})]
Highest(f) == SIDS[Min({i \in DOMAIN SIDS : \A s \in Stacks : f[SIDS[i]] >= f[s]})]

\* write_paper.py
results_table(S) == Sorted(SIDS, [s \in Stacks |-> -S.median["rps"][s]])
contrast_table(S) == Sorted(S.contrasts, [t \in Range(S.contrasts) |-> t.pHolm])
\* two rankings side by side
RANKTABLE(S) ==
  LET r99 == Sorted(SIDS, S.avgRank["p99"])
      rcpu == Sorted(SIDS, S.avgRank["cpu"])
  IN [i \in DOMAIN SIDS |-> <<r99[i], rcpu[i]>>]

(***************************************************************************)
(* The paper's placeholders.  A text is a sequence of pieces; of the 31    *)
(* keys those that contain another one, those they contain and a plain one.*)
(***************************************************************************)
repl_ShortFirst ==
  <<[key |-> <<"NRUNS">>, value |-> "runs"],
    [key |-> <<"LO300">>, value |-> "lo"], [key |-> <<"HI300">>, value |-> "hi"],
    [key |-> <<"LO300", "MS">>, value |-> "lo ms"], [key |-> <<"HI300", "MS">>, value |-> "hi ms"]>>
repl ==
  <<[key |-> <<"NRUNS">>, value |-> "runs"],
    [key |-> <<"LO300", "MS">>, value |-> "lo ms"], [key |-> <<"HI300", "MS">>, value |-> "hi ms"],
    [key |-> <<"LO300">>, value |-> "lo"], [key |-> <<"HI300">>, value |-> "hi"]>>

\* str.replace, from the left: a key is taken where it starts, unless within one taken before
StartsAt(text, k, i) == i + Len(k) - 1 <= Len(text) /\ \A j \in DOMAIN k : text[i + j - 1] = k[j]
Scan(text, k, v, i, before) ==
  IF before.skip > 0 THEN [done |-> before.done, skip |-> before.skip - 1]
  ELSE IF StartsAt(text, k, i) THEN [done |-> Append(before.done, v), skip |-> Len(k) - 1]
  ELSE [done |-> Append(before.done, text[i]), skip |-> 0]
Replace(text, k, v) ==
  LET scanned[i \in 0..Len(text)] ==
        IF i = 0 THEN [done |-> <<>>, skip |-> 0] ELSE Scan(text, k, v, i, scanned[i - 1])
  IN scanned[Len(text)].done

\* for k, v in repl.items(): TEX = TEX.replace(k, v)
Fill(TEX) ==
  LET text[i \in 0..Len(repl)] ==
        IF i = 0 THEN TEX ELSE Replace(text[i - 1], repl[i].key, repl[i].value)
  IN text[Len(repl)]

=============================================================================
