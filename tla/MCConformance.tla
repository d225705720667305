---------------------------- MODULE MCConformance ----------------------------
(* Three stacks, two requests per endpoint: a stack is right, gets one of    *)
(* three answers wrong, skips the reservation or books twice.                *)
EXTENDS Conformance

MCBehaviours ==
  {[wrong |-> w, books |-> 1] : w \in {None, <<"summary", 1>>, <<"quote", 2>>, <<"checkout", 2>>}}
    \cup {[wrong |-> None, books |-> b] : b \in {0, 2}}

=============================================================================
