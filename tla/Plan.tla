-------------------------------- MODULE Plan --------------------------------
(***************************************************************************)
(* What a plan of bench/run.py consists of: the profiles, the runs of one  *)
(* invocation and the names of their result files.                         *)
(***************************************************************************)
EXTENDS Naturals

CONSTANTS
  Stacks,    \* ids in bench/stacks.json
  Scenarios  \* "quote", "checkout", "summary"

ASSUME PlanAssumption == Stacks # {} /\ Scenarios # {}

\* repetitions, and load configurations <<mode, connections, rate>>
Profiles ==
  [smoke |-> [reps |-> 1, configs |-> {<<"closed", 32, 0>>}],
   quick |-> [reps |-> 1, configs |-> {<<"closed", 64, 0>>, <<"open", 64, 400>>}],
   full  |-> [reps |-> 3, configs |-> {<<"closed", 64, 0>>, <<"open", 64, 300>>, <<"open", 128, 900>>}],
   final |-> [reps |-> 5, configs |-> {<<"closed", 64, 0>>, <<"open", 64, 300>>, <<"open", 128, 900>>}],
   deep  |-> [reps |-> 5,
              configs |-> {<<"closed", c, 0>> : c \in {32, 64, 128}}
                            \cup {<<"open", 64, r>> : r \in {200, 500}}
                            \cup {<<"open", 128, r>> : r \in {1000, 1600}}]]

Configs == UNION {Profiles[p].configs : p \in DOMAIN Profiles}

\* the runs of the n-th invocation, for a profile and the stacks of --stacks
Block(n, profile, stacks) ==
  [plan : {n}, rep : 0..(Profiles[profile].reps - 1), stack : stacks,
   scenario : Scenarios, config : Profiles[profile].configs]

\* the name of a run's result file: stack, scenario, {mode}{rate or conns}, rep
Tag_ByConnections(r) == <<r.stack, r.scenario, r.config[2], r.rep>>
Tag(r) ==
  <<r.stack, r.scenario, r.config[1],
    IF r.config[3] # 0 THEN r.config[3] ELSE r.config[2], r.rep>>

=============================================================================
