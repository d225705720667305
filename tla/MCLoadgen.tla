------------------------------ MODULE MCLoadgen ------------------------------
(* Two workers and a channel for one due time: a service that stalls fills   *)
(* both, and the scheduler blocks.                                           *)
EXTENDS Loadgen

CONSTANTS w1, w2
=============================================================================
