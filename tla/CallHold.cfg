SPECIFICATION Spec
CONSTANTS
  Caller = caller
  Callee = callee
  Budget <- HoldBudget
INVARIANT MirroredDirections
INVARIANT SettledAtRest
INVARIANT WaitsForSomething
CHECK_DEADLOCK FALSE
