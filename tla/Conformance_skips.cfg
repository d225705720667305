SPECIFICATION Spec
CONSTANTS
  K = 3
  N = 2
  Enough = 2
  Behaviours <- MCBehaviours
  Stocks = {3, 6}
  None = None
INVARIANTS
  SkippedWorkCaught
