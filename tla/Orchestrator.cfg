SPECIFICATION Spec
CONSTANTS
  Stacks = {"bun", "gin"}
  Scenarios = {"checkout"}
  ReusePort = {"bun"}
  Invocations <- MCInvocations
  MaxPlans = 2
  MaxAbandoned = 1
  None = None
INVARIANTS
  TypeOK
  OneServiceAtATime
  IdenticalData
  SampledIsServed
  EveryRunKept
PROPERTIES
  PlanEnds
