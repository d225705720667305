-------------------------------- MODULE Sums --------------------------------
(***************************************************************************)
(* The loops of the code that add up a list: total := 0, then total += x   *)
(* for each x of it.                                                       *)
(***************************************************************************)
EXTENDS Integers, Sequences

\* what the loop has after i elements
Running(s) == LET total[i \in 0..Len(s)] == IF i = 0 THEN 0 ELSE total[i - 1] + s[i] IN total
SumOf(s) == Running(s)[Len(s)]

=============================================================================
