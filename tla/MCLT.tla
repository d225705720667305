---- MODULE MCLT ----
EXTENDS LoadgenProofs
CONSTANTS w1, w2
====
